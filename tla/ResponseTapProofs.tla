------------------------- MODULE ResponseTapProofs -------------------------
(***************************************************************************)
(* Proofs about ResponseTap, UsageParser and the image prices of Billing:  *)
(* what is observed of a response is what was sent, for answers of any     *)
(* length in any chunks, and what is charged for it follows from that.     *)
(*                                                                         *)
(* A fold and a recursive function are reasoned about by induction over    *)
(* sets of numbers, with functions in place of operators.                  *)
(***************************************************************************)
EXTENDS ResponseTap, BillingProofs

----------------------------------------------------------------------------
(* Induction, and the functions it defines.                                *)

LEMMA UpTo ==
  ASSUME NEW n \in Nat, NEW S, 0 \in S, \A m \in 0 .. n - 1 : m \in S => m + 1 \in S
  PROVE  0 .. n \subseteq S
<1> DEFINE T == (0 .. n) \ S
<1>1. SUFFICES ASSUME T # {} PROVE FALSE
  OBVIOUS
<1>2. T \subseteq Nat
  OBVIOUS
<1>3. PICK t \in T : \A u \in T : ~ (<<u, t>> \in OpToRel(<, Nat))
  <2> HIDE DEF T
  <2> QED
    BY <1>1, <1>2, NatLessThanWellFounded, WFMin, Zenon
<1>4. t \in 0 .. n /\ t \notin S /\ t - 1 \in 0 .. n - 1 /\ (t - 1) + 1 = t
  OBVIOUS
<1>5. t - 1 \in T
  BY <1>4
<1>6. <<t - 1, t>> \in OpToRel(<, Nat)
  <2>1. <<t - 1, t>> \in Nat \X Nat /\ t - 1 < t
    BY <1>4
  <2>2. <<t - 1, t>>[1] = t - 1 /\ <<t - 1, t>>[2] = t
    OBVIOUS
  <2> QED
    BY <2>1, <2>2, Zenon DEF OpToRel
<1> QED
  BY <1>3, <1>5, <1>6

LEMMA MaxIs ==
  ASSUME NEW S, NEW m \in S, S \subseteq Int, \A x \in S : x <= m
  PROVE  Max(S) = m
<1>1. \E x \in S : \A y \in S : x >= y
  OBVIOUS
<1>2. Max(S) \in S /\ \A y \in S : Max(S) >= y
  BY <1>1 DEF Max
<1> DEFINE k == Max(S)
<1>3. k \in Int /\ m \in Int /\ k <= m /\ k >= m
  BY <1>2
<1> HIDE DEF k
<1>4. k = m
  BY <1>3
<1> QED
  BY <1>4 DEF k

(* A function on the sets of numbers up to n that is given by its value    *)
(* without the largest of them exists.                                     *)
IsFold(f, n, base, F) ==
  \A s \in SUBSET (1 .. n) : f[s] = IF s = {} THEN base ELSE F[<<f[s \ {Max(s)}], Max(s)>>]

HasFold(n, Q, base, F) == \E f \in [SUBSET (1 .. n) -> Q] : IsFold(f, n, base, F)

LEMMA FoldExists ==
  ASSUME NEW n \in Nat, NEW Q, NEW base \in Q, NEW F \in [Q \X (1 .. n) -> Q]
  PROVE  HasFold(n, Q, base, F)
<1> DEFINE Folds(m, f) ==
             \A s \in SUBSET (1 .. m) :
               f[s] = IF s = {} THEN base ELSE F[<<f[s \ {Max(s)}], Max(s)>>]
           S == {m \in Nat : m > n \/ \E f \in [SUBSET (1 .. m) -> Q] : Folds(m, f)}
<1>1. 0 \in S
  <2> DEFINE f == [s \in SUBSET (1 .. 0) |-> base]
  <2>1. f \in [SUBSET (1 .. 0) -> Q] /\ \A s \in SUBSET (1 .. 0) : s = {} /\ f[s] = base
    OBVIOUS
  <2> QED
    BY <2>1
<1>2. ASSUME NEW m \in 0 .. n - 1, m \in S
      PROVE  m + 1 \in S
  <2>1. PICK f \in [SUBSET (1 .. m) -> Q] : Folds(m, f)
    <3>1. ~ (m > n)
      OBVIOUS
    <3> HIDE DEF Folds
    <3> QED
      BY <1>2, <3>1, Zenon
  <2> DEFINE g == [s \in SUBSET (1 .. m + 1) |->
                     IF m + 1 \in s THEN F[<<f[s \ {m + 1}], m + 1>>] ELSE f[s]]
  <2>2. \A s \in SUBSET (1 .. m + 1) : m + 1 \notin s => s \in SUBSET (1 .. m)
    OBVIOUS
  <2>3. \A s \in SUBSET (1 .. m + 1) : s \ {m + 1} \in SUBSET (1 .. m)
    OBVIOUS
  <2>4. \A x \in Q : F[<<x, m + 1>>] \in Q
    OBVIOUS
  <2>5. g \in [SUBSET (1 .. m + 1) -> Q]
    <3>1. SUFFICES ASSUME NEW s \in SUBSET (1 .. m + 1)
                   PROVE  (IF m + 1 \in s THEN F[<<f[s \ {m + 1}], m + 1>>] ELSE f[s]) \in Q
      OBVIOUS
    <3> QED
      BY <2>2, <2>3, <2>4
  <2>6. ASSUME NEW s \in SUBSET (1 .. m + 1)
        PROVE  g[s] = IF s = {} THEN base ELSE F[<<g[s \ {Max(s)}], Max(s)>>]
    <3>1. CASE m + 1 \in s
      <4>1. Max(s) = m + 1
        <5>1. s \subseteq Int /\ \A x \in s : x <= m + 1
          OBVIOUS
        <5> QED
          BY <3>1, <5>1, MaxIs
      <4>2. g[s \ {m + 1}] = f[s \ {m + 1}]
        BY <2>3
      <4>3. s # {}
        BY <3>1
      <4> QED
        BY <3>1, <4>1, <4>2, <4>3
    <3>2. CASE s = {}
      BY <2>1, <2>2, <3>2
    <3>3. CASE m + 1 \notin s /\ s # {}
      <4>1. s \in SUBSET (1 .. m) /\ m \in Nat
        BY <2>2, <3>3
      <4>2. Max(s) \in s /\ s \ {Max(s)} \in SUBSET (1 .. m) /\ m + 1 \notin s \ {Max(s)}
            /\ s \ {Max(s)} \in SUBSET (1 .. m + 1)
        BY <3>3, <4>1, MaxFacts
      <4>3. g[s] = f[s] /\ g[s \ {Max(s)}] = f[s \ {Max(s)}]
        BY <3>3, <4>2
      <4>4. f[s] = F[<<f[s \ {Max(s)}], Max(s)>>]
        BY <2>1, <3>3, <4>1
      <4> QED
        BY <3>3, <4>3, <4>4
    <3> QED
      BY <3>1, <3>2, <3>3
  <2>7. Folds(m + 1, g)
    <3> HIDE DEF g
    <3> QED
      BY <2>6
  <2> HIDE DEF g, Folds
  <2> QED
    BY <2>5, <2>7
<1>3. n \in S
  <2> HIDE DEF S
  <2> QED
    BY <1>1, <1>2, UpTo
<1>4. \E f \in [SUBSET (1 .. n) -> Q] : Folds(n, f)
  <2>1. ~ (n > n)
    OBVIOUS
  <2> HIDE DEF Folds
  <2> QED
    BY <1>3, <2>1, Zenon
<1> QED
  BY <1>4 DEF HasFold, IsFold

(* The values of such a function on 1 .. m, which the last one adds to.    *)
AddsLast(f, n, base, F) ==
  f[1 .. 0] = base /\ \A m \in 1 .. n : f[1 .. m] = F[<<f[1 .. m - 1], m>>]

LEMMA FoldPrefixes ==
  ASSUME NEW n \in Nat, NEW f, NEW base, NEW F, IsFold(f, n, base, F)
  PROVE  AddsLast(f, n, base, F)
<1>1. 1 .. 0 = {}
  OBVIOUS
<1>2. ASSUME NEW m \in 1 .. n
      PROVE  f[1 .. m] = F[<<f[1 .. m - 1], m>>]
  <2>1. 1 .. m \in SUBSET (1 .. n) /\ 1 .. m # {}
    OBVIOUS
  <2>2. Max(1 .. m) = m
    <3>1. 1 .. m \subseteq Int /\ m \in 1 .. m /\ \A x \in 1 .. m : x <= m
      OBVIOUS
    <3> QED
      BY <3>1, MaxIs
  <2>3. (1 .. m) \ {m} = 1 .. m - 1
    OBVIOUS
  <2> QED
    BY <2>1, <2>2, <2>3 DEF IsFold
<1>3. f[{}] = base
  BY DEF IsFold
<1> QED
  BY <1>1, <1>2, <1>3 DEF AddsLast

----------------------------------------------------------------------------
(* The rule that prices an image.                                          *)

LEMMA ScoreFacts ==
  ASSUME NEW rule
  PROVE  Score(rule) \in 0 .. 2
<1> DEFINE S == {f \in {"size", "quality"} : rule[f] # Wildcard}
<1>1. S \subseteq {"size", "quality"} /\ IsFiniteSet({"size", "quality"})
      /\ Cardinality({"size", "quality"}) = 2
  <2>1. IsFiniteSet({"size"}) /\ Cardinality({"size"}) = 1
    BY FS_Singleton
  <2>2. {"size", "quality"} = {"size"} \cup {"quality"} /\ "quality" \notin {"size"}
    OBVIOUS
  <2> QED
    BY <2>1, <2>2, FS_AddElement
<1>2. Cardinality(S) \in Nat /\ Cardinality(S) <= 2
  <2> HIDE DEF S
  <2> QED
    BY <1>1, FS_Subset, FS_CardinalityType
<1> QED
  BY <1>2 DEF Score

Found(f, rules, size, quality) ==
  /\ f[0] = NoRule
  /\ \A m \in 1 .. Len(rules) : f[m] = Better(f[m - 1], rules[m], size, quality)

LEMMA ImageUnitCostIsFound ==
  ASSUME NEW p, p.images \in Seq(Range(p.images)), NEW size, NEW quality
  PROVE  \E f : /\ Found(f, p.images, size, quality)
               /\ ImageUnitCost(p, size, quality) =
                    IF f[Len(p.images)].matches = 1 THEN f[Len(p.images)].value ELSE None
<1> DEFINE rules == p.images
           n == Len(rules)
           V == {0} \cup {rules[i].charge : i \in 1 .. n}
           Q == [best : Int, value : V, matches : Nat]
           F == [x \in Q \X (1 .. n) |-> Better(x[1], rules[x[2]], size, quality)]
           folded == FoldLeft(LAMBDA f, rule : Better(f, rule, size, quality), NoRule, rules)
<1>1. n \in Nat /\ DOMAIN rules = 1 .. n
  OBVIOUS
<1>2. NoRule \in Q
  BY DEF NoRule
<1>3. ASSUME NEW x \in Q, NEW i \in 1 .. n
      PROVE  Better(x, rules[i], size, quality) \in Q
  <2>1. Score(rules[i]) \in Int /\ rules[i].charge \in V
    BY ScoreFacts
  <2> HIDE DEF V
  <2> QED
    BY <2>1 DEF Better
<1>4. F \in [Q \X (1 .. n) -> Q]
  <2>1. \A x \in Q \X (1 .. n) : Better(x[1], rules[x[2]], size, quality) \in Q
    <3> HIDE DEF Q, rules
    <3> QED
      BY <1>3
  <2> HIDE DEF Q, rules
  <2> QED
    BY <2>1
<1>5. PICK f \in [SUBSET (1 .. n) -> Q] :
        \A s \in SUBSET (1 .. n) : f[s] = IF s = {} THEN NoRule ELSE F[<<f[s \ {Max(s)}], Max(s)>>]
  <2>1. n \in Nat /\ NoRule \in Q /\ F \in [Q \X (1 .. n) -> Q]
    BY <1>1, <1>2, <1>4
  <2> HIDE DEF Q, F, n
  <2>2. HasFold(n, Q, NoRule, F)
    BY <2>1, FoldExists
  <2> QED
    BY <2>2 DEF HasFold, IsFold
<1> DEFINE Folds(g) == g = [s \in SUBSET DOMAIN rules |->
                              IF s = {} THEN NoRule
                              ELSE Better(g[s \ {Max(s)}], rules[Max(s)], size, quality)]
           iter == CHOOSE g : Folds(g)
<1>6. Folds(f)
  <2>1. ASSUME NEW s \in SUBSET (1 .. n), s # {}
        PROVE  f[s] = Better(f[s \ {Max(s)}], rules[Max(s)], size, quality)
    <3>1. Max(s) \in 1 .. n /\ s \ {Max(s)} \in SUBSET (1 .. n)
      <4> HIDE DEF n
      <4> QED
        BY <1>1, <2>1, MaxFacts
    <3>2. f[s \ {Max(s)}] \in Q
      BY <3>1
    <3>3. F[<<f[s \ {Max(s)}], Max(s)>>] = Better(f[s \ {Max(s)}], rules[Max(s)], size, quality)
      <4> HIDE DEF Q, rules
      <4> QED
        BY <3>1, <3>2
    <3> QED
      BY <1>5, <2>1, <3>3
  <2>2. \A s \in SUBSET (1 .. n) :
          f[s] = IF s = {} THEN NoRule
                 ELSE Better(f[s \ {Max(s)}], rules[Max(s)], size, quality)
    <3> HIDE DEF Q, F, n, rules
    <3> QED
      BY <1>5, <2>1
  <2> HIDE DEF Q, F
  <2> QED
    BY <1>1, <2>2
<1>7. Folds(iter)
  <2> HIDE DEF Folds
  <2> QED
    BY <1>6
<1>8. folded = iter[1 .. n]
  BY <1>1 DEF FoldLeft, MapThenFoldSet
<1> DEFINE g == [m \in 0 .. n |-> iter[1 .. m]]
<1> HIDE DEF iter
<1>9. Found(g, rules, size, quality) /\ g[n] = folded
  <2>1. \A s \in SUBSET (1 .. n) :
          iter[s] = IF s = {} THEN NoRule
                    ELSE Better(iter[s \ {Max(s)}], rules[Max(s)], size, quality)
    BY <1>1, <1>7
  <2>2. iter[1 .. 0] = NoRule
    <3>1. 1 .. 0 = {} /\ 1 .. 0 \in SUBSET (1 .. n)
      OBVIOUS
    <3> QED
      BY <2>1, <3>1
  <2>3. ASSUME NEW m \in 1 .. n
        PROVE  iter[1 .. m] = Better(iter[1 .. m - 1], rules[m], size, quality)
    <3>1. 1 .. m \in SUBSET (1 .. n) /\ 1 .. m # {} /\ (1 .. m) \ {m} = 1 .. m - 1
      OBVIOUS
    <3>2. Max(1 .. m) = m
      <4>1. 1 .. m \subseteq Int /\ m \in 1 .. m /\ \A x \in 1 .. m : x <= m
        OBVIOUS
      <4> QED
        BY <4>1, MaxIs
    <3> QED
      BY <2>1, <3>1, <3>2
  <2>4. \A m \in 1 .. n : m \in 0 .. n /\ m - 1 \in 0 .. n
    BY <1>1
  <2>5. 0 \in 0 .. n /\ n \in 0 .. n
    BY <1>1
  <2> QED
    BY <1>8, <2>2, <2>3, <2>4, <2>5 DEF Found
<1> HIDE DEF g
<1> QED
  BY <1>9 DEF ImageUnitCost

(* What was found among the first m rules.                                 *)
BestOf(found, rules, m, size, quality) ==
  /\ found = [best |-> found.best, value |-> found.value, matches |-> found.matches]
  /\ found.best \in -1 .. 2 /\ found.matches \in Nat
  /\ found.matches = 0 => found.best = -1
  /\ \A j \in 1 .. m : Selects(rules[j], size, quality) =>
       found.matches > 0 /\ Score(rules[j]) <= found.best
  /\ found.matches = 1 =>
       \E i \in 1 .. m :
         /\ Selects(rules[i], size, quality)
         /\ Score(rules[i]) = found.best /\ rules[i].charge = found.value
         /\ \A j \in (1 .. m) \ {i} :
              Selects(rules[j], size, quality) => Score(rules[j]) < found.best

LEMMA FoundIsBest ==
  ASSUME NEW rules, NEW n \in Nat, NEW f, NEW size, NEW quality,
         f[0] = NoRule, \A m \in 1 .. n : f[m] = Better(f[m - 1], rules[m], size, quality)
  PROVE  BestOf(f[n], rules, n, size, quality)
<1> DEFINE S == {m \in 0 .. n : BestOf(f[m], rules, m, size, quality)}
<1>1. 0 \in S
  BY DEF BestOf, NoRule
<1>2. ASSUME NEW m \in 0 .. n - 1, m \in S
      PROVE  m + 1 \in S
  <2> DEFINE rule == rules[m + 1]
             old == f[m]
             new == f[m + 1]
  <2>1. new = Better(old, rule, size, quality)
    BY n \in Nat
  <2>2. Score(rule) \in 0 .. 2
    BY ScoreFacts
  <2>3. BestOf(old, rules, m, size, quality)
    BY <1>2
  <2>4. m \in Nat /\ m + 1 \in 0 .. n /\ 1 .. m + 1 = (1 .. m) \cup {m + 1} /\ m + 1 \notin 1 .. m
    BY n \in Nat
  <2> HIDE DEF old, new
  <2>5. ASSUME ~Selects(rule, size, quality) \/ Score(rule) < old.best
        PROVE  BestOf(new, rules, m + 1, size, quality)
    <3>1. new = old
      BY <2>1, <2>5 DEF Better
    <3>2. \A j \in 1 .. m + 1 : Selects(rules[j], size, quality) =>
            old.matches > 0 /\ Score(rules[j]) <= old.best
      <4>1. Selects(rule, size, quality) => old.matches > 0
        BY <2>2, <2>3, <2>5 DEF BestOf
      <4> QED
        BY <2>2, <2>3, <2>4, <2>5, <4>1 DEF BestOf
    <3>3. ASSUME old.matches = 1
          PROVE  \E i \in 1 .. m + 1 :
                   /\ Selects(rules[i], size, quality)
                   /\ Score(rules[i]) = old.best /\ rules[i].charge = old.value
                   /\ \A j \in (1 .. m + 1) \ {i} :
                        Selects(rules[j], size, quality) => Score(rules[j]) < old.best
      BY <2>3, <2>4, <2>5, <3>3 DEF BestOf
    <3> QED
      BY <2>3, <2>4, <3>1, <3>2, <3>3 DEF BestOf
  <2>6. ASSUME Selects(rule, size, quality) /\ Score(rule) = old.best
        PROVE  BestOf(new, rules, m + 1, size, quality)
    <3>1. new = [old EXCEPT !.matches = @ + 1]
      BY <2>1, <2>2, <2>3, <2>6 DEF Better, BestOf
    <3>2. old.matches > 0
      BY <2>2, <2>3, <2>6 DEF BestOf
    <3>3. new = [best |-> old.best, value |-> old.value, matches |-> old.matches + 1]
      BY <2>3, <3>1 DEF BestOf
    <3>4. \A j \in 1 .. m + 1 : Selects(rules[j], size, quality) => Score(rules[j]) <= old.best
      BY <2>2, <2>3, <2>4, <2>6 DEF BestOf
    <3>5. /\ new.best = old.best /\ new.value = old.value /\ new.matches = old.matches + 1
          /\ old.best \in -1 .. 2 /\ old.matches \in Nat
          /\ new = [best |-> new.best, value |-> new.value, matches |-> new.matches]
      BY <2>3, <3>3 DEF BestOf
    <3>6. new.matches \in Nat /\ new.matches > 0 /\ new.matches # 1 /\ new.best \in -1 .. 2
      BY <3>2, <3>5
    <3>7. \A j \in 1 .. m + 1 : Selects(rules[j], size, quality) =>
            new.matches > 0 /\ Score(rules[j]) <= new.best
      BY <3>4, <3>5, <3>6
    <3> QED
      BY <3>5, <3>6, <3>7 DEF BestOf
  <2>7. ASSUME Selects(rule, size, quality) /\ Score(rule) > old.best
        PROVE  BestOf(new, rules, m + 1, size, quality)
    <3>1. new = [best |-> Score(rule), value |-> rule.charge, matches |-> 1]
      BY <2>1, <2>2, <2>3, <2>7 DEF Better, BestOf
    <3>2. \A j \in 1 .. m : Selects(rules[j], size, quality) => Score(rules[j]) < Score(rule)
      <4>1. \A j \in 1 .. m : Score(rules[j]) \in Int
        BY ScoreFacts
      <4> QED
        BY <2>2, <2>3, <2>7, <4>1 DEF BestOf
    <3>3. /\ new.best = Score(rule) /\ new.value = rule.charge /\ new.matches = 1
          /\ new = [best |-> new.best, value |-> new.value, matches |-> new.matches]
      BY <3>1
    <3>4. \A j \in 1 .. m + 1 : Selects(rules[j], size, quality) => Score(rules[j]) <= new.best
      <4>1. \A j \in 1 .. m : Score(rules[j]) \in Int
        BY ScoreFacts
      <4> QED
        BY <2>2, <2>4, <3>2, <3>3, <4>1
    <3>5. \A j \in (1 .. m + 1) \ {m + 1} :
            Selects(rules[j], size, quality) => Score(rules[j]) < new.best
      BY <2>4, <3>2, <3>3
    <3>6. m + 1 \in 1 .. m + 1
      BY <2>4
    <3>7. \E i \in 1 .. m + 1 :
            /\ Selects(rules[i], size, quality)
            /\ Score(rules[i]) = new.best /\ rules[i].charge = new.value
            /\ \A j \in (1 .. m + 1) \ {i} :
                 Selects(rules[j], size, quality) => Score(rules[j]) < new.best
      BY <2>7, <3>3, <3>5, <3>6
    <3> QED
      BY <2>2, <3>3, <3>4, <3>7 DEF BestOf
  <2>8. BestOf(new, rules, m + 1, size, quality)
    BY <2>2, <2>3, <2>5, <2>6, <2>7 DEF BestOf
  <2> QED
    BY <2>4, <2>8 DEF new
<1>3. n \in S
  <2> HIDE DEF S
  <2> QED
    BY <1>1, <1>2, UpTo
<1> QED
  BY <1>3

(* A price in images has one rule for a size and a quality, the most       *)
(* specific of those that match (ImageUnitCost), or the request is refused.*)
THEOREM MostSpecificRulePrices ==
  ASSUME NEW p, p.images \in Seq(Range(p.images)), NEW size, NEW quality,
         ImageUnitCost(p, size, quality) # None
  PROVE  \E rule \in Range(p.images) :
           /\ Selects(rule, size, quality) /\ ImageUnitCost(p, size, quality) = rule.charge
           /\ \A other \in Range(p.images) \ {rule} :
                Selects(other, size, quality) => Score(other) < Score(rule)
<1>1. PICK f : /\ Found(f, p.images, size, quality)
               /\ ImageUnitCost(p, size, quality) =
                    IF f[Len(p.images)].matches = 1 THEN f[Len(p.images)].value ELSE None
  BY ImageUnitCostIsFound
<1> DEFINE n == Len(p.images)
<1>2. n \in Nat /\ DOMAIN p.images = 1 .. n
  OBVIOUS
<1>3. BestOf(f[n], p.images, n, size, quality)
  <2>1. f[0] = NoRule /\ \A m \in 1 .. n : f[m] = Better(f[m - 1], p.images[m], size, quality)
    BY <1>1 DEF Found
  <2> HIDE DEF n
  <2> QED
    BY <1>2, <2>1, FoundIsBest
<1>4. f[n].matches = 1 /\ ImageUnitCost(p, size, quality) = f[n].value
  BY <1>1
<1>5. PICK i \in 1 .. n :
        /\ Selects(p.images[i], size, quality)
        /\ Score(p.images[i]) = f[n].best /\ p.images[i].charge = f[n].value
        /\ \A j \in (1 .. n) \ {i} :
             Selects(p.images[j], size, quality) => Score(p.images[j]) < f[n].best
  BY <1>3, <1>4 DEF BestOf
<1> HIDE DEF n
<1>6. \A other \in Range(p.images) \ {p.images[i]} :
        \E j \in (1 .. n) \ {i} : other = p.images[j]
  BY <1>2 DEF Range
<1>7. p.images[i] \in Range(p.images)
  BY <1>2 DEF Range
<1> QED
  BY <1>4, <1>5, <1>6, <1>7

----------------------------------------------------------------------------
(* The wire.                                                               *)

IsBody(body) ==
  /\ body \in Seq(Range(body))
  /\ \A k \in DOMAIN body : body[k].size \in Nat

LEMMA EndsFacts ==
  ASSUME NEW body, IsBody(body)
  PROVE  /\ Len(body) \in Nat /\ DOMAIN body = 1 .. Len(body)
         /\ Ends(body) \in [0 .. Len(body) -> Int]
         /\ Ends(body)[0] = -1
         /\ \A k \in 1 .. Len(body) : Ends(body)[k] = Ends(body)[k - 1] + 1 + body[k].size
<1> DEFINE n == Len(body)
           size == [k \in 1 .. n |-> body[k].size]
           F == [x \in Int \X (1 .. n) |-> x[1] + 1 + size[x[2]]]
           Rec(g) == g = [k \in 0 .. n |-> IF k = 0 THEN -1 ELSE g[k - 1] + 1 + body[k].size]
           end == CHOOSE g : Rec(g)
<1>1. n \in Nat /\ DOMAIN body = 1 .. n
  BY DEF IsBody
<1>2. size \in [1 .. n -> Nat] /\ \A k \in 1 .. n : size[k] = body[k].size
  BY <1>1 DEF IsBody
<1> HIDE DEF size
<1>3. F \in [Int \X (1 .. n) -> Int]
  BY <1>2
<1>4. HasFold(n, Int, -1, F)
  <2>1. -1 \in Int
    OBVIOUS
  <2> HIDE DEF F, n
  <2> QED
    BY <1>1, <1>3, <2>1, FoldExists
<1>5. PICK f \in [SUBSET (1 .. n) -> Int] : IsFold(f, n, -1, F)
  BY <1>4 DEF HasFold
<1>6. f[1 .. 0] = -1 /\ \A m \in 1 .. n : f[1 .. m] = F[<<f[1 .. m - 1], m>>]
  <2> HIDE DEF F, n
  <2>1. AddsLast(f, n, -1, F)
    BY <1>1, <1>5, FoldPrefixes
  <2> QED
    BY <2>1 DEF AddsLast
<1> DEFINE g == [m \in 0 .. n |-> f[1 .. m]]
<1>7. \A m \in 0 .. n : 1 .. m \in SUBSET (1 .. n) /\ f[1 .. m] \in Int
  BY <1>1, <1>5
<1>8. g \in [0 .. n -> Int] /\ g[0] = -1
  BY <1>1, <1>6, <1>7
<1>9. \A m \in 1 .. n : g[m] = g[m - 1] + 1 + body[m].size
  <2>1. SUFFICES ASSUME NEW m \in 1 .. n
                 PROVE  g[m] = g[m - 1] + 1 + body[m].size
    OBVIOUS
  <2>2. m \in 0 .. n /\ m - 1 \in 0 .. n
    BY <1>1
  <2>3. f[1 .. m] = F[<<f[1 .. m - 1], m>>] /\ f[1 .. m - 1] \in Int
    BY <1>6, <1>7, <2>2
  <2> QED
    BY <1>2, <2>2, <2>3
<1> HIDE DEF g, F
<1>10. Rec(g)
  BY <1>1, <1>8, <1>9
<1>11. Rec(end)
  <2> HIDE DEF Rec
  <2> QED
    BY <1>10
<1>12. Ends(body) = end
  BY DEF Ends
<1> HIDE DEF end
<1>13. end = g
  <2> DEFINE S == {m \in 0 .. n : end[m] = g[m]}
  <2>1. 0 \in S
    BY <1>1, <1>8, <1>11
  <2>2. ASSUME NEW m \in 0 .. n - 1, m \in S
        PROVE  m + 1 \in S
    <3>1. m + 1 \in 1 .. n /\ m + 1 \in 0 .. n /\ (m + 1) - 1 = m
      BY <1>1
    <3> QED
      BY <1>9, <1>11, <2>2, <3>1
  <2>3. 0 .. n \subseteq S
    <3> HIDE DEF S
    <3> QED
      BY <1>1, <2>1, <2>2, UpTo
  <2>4. \A m \in 0 .. n : end[m] = g[m]
    BY <2>3
  <2>5. DOMAIN end = 0 .. n /\ end = [m \in 0 .. n |-> end[m]]
    BY <1>11
  <2> QED
    BY <1>8, <2>4, <2>5
<1> QED
  BY <1>1, <1>8, <1>9, <1>12, <1>13

LEMMA EndsRise ==
  ASSUME NEW body, IsBody(body), NEW j \in 0 .. Len(body), NEW k \in 0 .. Len(body), j < k
  PROVE  Ends(body)[j] < Ends(body)[k]
<1> DEFINE n == Len(body)
           e == Ends(body)
           S == {m \in 0 .. n : j < m => e[j] < e[m]}
<1>1. n \in Nat /\ e \in [0 .. n -> Int]
      /\ \A m \in 1 .. n : e[m] = e[m - 1] + 1 + body[m].size /\ body[m].size \in Nat
  BY EndsFacts DEF IsBody
<1> HIDE DEF e
<1>2. 0 \in S
  BY <1>1
<1>3. ASSUME NEW m \in 0 .. n - 1, m \in S
      PROVE  m + 1 \in S
  <2>1. m + 1 \in 1 .. n /\ m + 1 \in 0 .. n /\ (m + 1) - 1 = m /\ m \in 0 .. n
    BY <1>1
  <2>2. e[m + 1] = e[m] + 1 + body[m + 1].size /\ body[m + 1].size \in Nat
    BY <1>1, <2>1
  <2>3. e[m] \in Int /\ e[m + 1] \in Int /\ e[j] \in Int
    BY <1>1, <2>1
  <2>4. e[m] < e[m + 1]
    BY <2>2, <2>3
  <2>5. j < m + 1 => j = m \/ j < m
    BY <2>1
  <2> QED
    BY <1>3, <2>1, <2>3, <2>4, <2>5
<1>4. 0 .. n \subseteq S
  <2> HIDE DEF S
  <2> QED
    BY <1>1, <1>2, <1>3, UpTo
<1> QED
  BY <1>4 DEF e

LEMMA WireLength ==
  ASSUME NEW body, IsBody(body)
  PROVE  /\ Len(Wire(body)) \in Nat /\ DOMAIN Wire(body) = 1 .. Len(Wire(body))
         /\ Len(body) = 0 => Len(Wire(body)) = 0
         /\ Len(body) > 0 => Len(Wire(body)) = Ends(body)[Len(body)]
<1> DEFINE n == Len(body)
           e == Ends(body)
           w == Wire(body)
<1>1. n \in Nat /\ e \in [0 .. n -> Int] /\ e[0] = -1
  BY EndsFacts
<1>2. n > 0 => e[n] \in Nat
  BY <1>1, EndsRise
<1>3. \E h : w = [i \in 1 .. e[n] |-> h[i]]
  <2> DEFINE h == [i \in 1 .. e[n] |->
                     IF \E k \in DOMAIN body : i = e[k] + 1 THEN 0
                     ELSE CHOOSE k \in DOMAIN body : i \in e[k - 1] + 2 .. e[k]]
  <2>1. w = h
    BY DEF Wire
  <2>2. h = [i \in 1 .. e[n] |-> h[i]]
    OBVIOUS
  <2> QED
    BY <2>1, <2>2
<1> HIDE DEF w, e
<1>4. CASE n = 0
  <2>1. 1 .. e[n] = {}
    BY <1>1, <1>4
  <2>2. w = << >>
    BY <1>3, <2>1
  <2> QED
    BY <1>4, <2>2 DEF w
<1>5. CASE n > 0
  <2>1. DOMAIN w = 1 .. e[n] /\ e[n] \in Nat
    BY <1>2, <1>3, <1>5
  <2>2. Len(w) = e[n]
    BY <1>3, <2>1
  <2> QED
    BY <1>5, <2>1, <2>2 DEF w, e
<1> QED
  BY <1>1, <1>4, <1>5

LEMMA WireUnits ==
  ASSUME NEW body, IsBody(body), NEW i \in 1 .. Len(Wire(body))
  PROVE  /\ \A c \in 0 .. Len(body) - 1 :
              i \in Ends(body)[c] + 2 .. Ends(body)[c + 1] => Wire(body)[i] = c + 1
         /\ \A c \in 1 .. Len(body) : i = Ends(body)[c] + 1 => Wire(body)[i] = 0
<1> DEFINE n == Len(body)
           e == Ends(body)
           unit == IF \E k \in DOMAIN body : i = e[k] + 1 THEN 0
                   ELSE CHOOSE k \in DOMAIN body : i \in e[k - 1] + 2 .. e[k]
<1>1. n \in Nat /\ e \in [0 .. n -> Int] /\ e[0] = -1 /\ DOMAIN body = 1 .. n
  BY EndsFacts
<1>2. \A j, k \in 0 .. n : j < k => e[j] < e[k]
  BY EndsRise
<1>3. Wire(body)[i] = unit /\ i \in Nat
  <2>1. n # 0
    BY <1>1, WireLength
  <2>2. i \in 1 .. e[n]
    BY <1>1, <2>1, WireLength
  <2> QED
    BY <2>2 DEF Wire
<1> HIDE DEF e
<1>4. ASSUME NEW c \in 0 .. n - 1, i \in e[c] + 2 .. e[c + 1]
      PROVE  unit = c + 1
  <2>1. c + 1 \in 1 .. n /\ c \in 0 .. n /\ (c + 1) - 1 = c /\ e[c] \in Int /\ e[c + 1] \in Int
    BY <1>1
  <2>2. ASSUME NEW k \in 1 .. n
        PROVE  /\ i # e[k] + 1
               /\ i \in e[k - 1] + 2 .. e[k] => k = c + 1
    <3>1. k \in 0 .. n /\ k - 1 \in 0 .. n /\ e[k] \in Int /\ e[k - 1] \in Int
      BY <1>1
    <3>2. CASE k < c + 1
      <4>1. e[k] <= e[c]
        BY <1>2, <2>1, <3>1, <3>2
      <4> QED
        BY <1>4, <2>1, <3>1, <4>1
    <3>3. CASE k > c + 1
      <4>1. c + 1 < k /\ (c + 1 = k - 1 \/ c + 1 < k - 1)
        BY <2>1, <3>1, <3>3
      <4>2. e[c + 1] <= e[k - 1] /\ e[c + 1] < e[k]
        BY <1>2, <2>1, <3>1, <4>1
      <4>3. i <= e[c + 1] /\ i \in Int /\ e[c + 1] \in Int
        BY <1>4, <2>1
      <4> QED
        BY <3>1, <4>2, <4>3
    <3>4. CASE k = c + 1
      BY <1>4, <2>1, <3>1, <3>4
    <3> QED
      BY <2>1, <3>2, <3>3, <3>4
  <2>3. c + 1 \in DOMAIN body /\ i \in e[(c + 1) - 1] + 2 .. e[c + 1]
    BY <1>1, <1>4, <2>1
  <2>4. unit = CHOOSE k \in DOMAIN body : i \in e[k - 1] + 2 .. e[k]
    BY <1>1, <2>2
  <2> HIDE DEF unit
  <2> QED
    BY <1>1, <2>2, <2>3, <2>4
<1>5. ASSUME NEW c \in 1 .. n, i = e[c] + 1
      PROVE  unit = 0
  BY <1>1, <1>5
<1> HIDE DEF unit
<1> QED
  BY <1>3, <1>4, <1>5 DEF e

----------------------------------------------------------------------------
(* The text of a set of events.                                            *)

IsSum(f, a, events, kinds) ==
  /\ f \in [0 .. Len(a.body) -> Nat] /\ f[0] = 0
  /\ \A m \in 1 .. Len(a.body) :
       f[m] = IF m \in events /\ a.body[m].kind \in kinds THEN f[m - 1] + a.body[m].weight
              ELSE f[m - 1]

LEMMA TextIsSum ==
  ASSUME NEW a, a.body \in Seq(Range(a.body)),
         \A k \in DOMAIN a.body : a.body[k].weight \in Nat,
         NEW events, NEW kinds
  PROVE  \E f : IsSum(f, a, events, kinds) /\ Text(a, events, kinds) = f[Len(a.body)]
<1> DEFINE n == Len(a.body)
           Adds(sum, k) == IF k \in events /\ a.body[k].kind \in kinds
                           THEN sum + a.body[k].weight ELSE sum
           seq == [k \in DOMAIN a.body |-> k]
           F == [x \in Nat \X (1 .. n) |-> Adds(x[1], x[2])]
           folded == FoldLeft(LAMBDA sum, k : Adds(sum, k), 0, seq)
<1>1. /\ n \in Nat /\ DOMAIN a.body = 1 .. n /\ DOMAIN seq = 1 .. n
      /\ \A k \in 1 .. n : seq[k] = k /\ a.body[k].weight \in Nat
  OBVIOUS
<1>2. \A sum \in Nat, k \in 1 .. n : Adds(sum, k) \in Nat
  BY <1>1
<1>3. Text(a, events, kinds) = folded
  BY DEF Text
<1> HIDE DEF Adds, seq
<1>4. F \in [Nat \X (1 .. n) -> Nat]
  BY <1>2
<1>5. HasFold(n, Nat, 0, F)
  <2> HIDE DEF F, n
  <2> QED
    BY <1>1, <1>4, FoldExists
<1>6. PICK f \in [SUBSET (1 .. n) -> Nat] : IsFold(f, n, 0, F)
  BY <1>5 DEF HasFold
<1> DEFINE Folds(g) == g = [s \in SUBSET DOMAIN seq |->
                              IF s = {} THEN 0 ELSE Adds(g[s \ {Max(s)}], seq[Max(s)])]
           iter == CHOOSE g : Folds(g)
<1>7. Folds(f)
  <2>1. ASSUME NEW s \in SUBSET (1 .. n), s # {}
        PROVE  f[s] = Adds(f[s \ {Max(s)}], seq[Max(s)])
    <3>1. Max(s) \in 1 .. n /\ s \ {Max(s)} \in SUBSET (1 .. n)
      <4> HIDE DEF n
      <4> QED
        BY <1>1, <2>1, MaxFacts
    <3>2. f[s \ {Max(s)}] \in Nat /\ seq[Max(s)] = Max(s)
      BY <1>1, <3>1
    <3> QED
      BY <1>6, <2>1, <3>1, <3>2 DEF IsFold
  <2>2. f[{}] = 0
    BY <1>6 DEF IsFold
  <2> HIDE DEF F
  <2> QED
    BY <1>1, <2>1, <2>2
<1>8. Folds(iter)
  <2> HIDE DEF Folds
  <2> QED
    BY <1>7
<1>9. folded = iter[1 .. n]
  BY <1>1 DEF FoldLeft, MapThenFoldSet
<1> DEFINE g == [m \in 0 .. n |-> iter[1 .. m]]
<1> HIDE DEF iter
<1>10. 0 \in 0 .. n /\ n \in 0 .. n
  BY <1>1
<1>11. g[0] = 0 /\ g[n] = folded
  <2>1. 1 .. 0 = {} /\ {} \in SUBSET DOMAIN seq
    OBVIOUS
  <2>2. iter[{}] = 0
    BY <1>8, <2>1
  <2> QED
    BY <1>9, <1>10, <2>1, <2>2
<1>12. ASSUME NEW m \in 1 .. n
       PROVE  g[m] = Adds(g[m - 1], m)
  <2>1. m \in 0 .. n /\ m - 1 \in 0 .. n
    BY <1>1
  <2>2. 1 .. m \in SUBSET DOMAIN seq /\ 1 .. m # {} /\ (1 .. m) \ {m} = 1 .. m - 1
    BY <1>1
  <2>3. Max(1 .. m) = m
    <3>1. 1 .. m \subseteq Int /\ m \in 1 .. m /\ \A x \in 1 .. m : x <= m
      OBVIOUS
    <3> QED
      BY <3>1, MaxIs
  <2>4. iter[1 .. m] = Adds(iter[1 .. m - 1], seq[m])
    BY <1>8, <2>2, <2>3
  <2> QED
    BY <1>1, <2>1, <2>4
<1> HIDE DEF g, folded
<1>13. \A m \in 0 .. n : g[m] \in Nat
  <2> DEFINE S == {m \in 0 .. n : g[m] \in Nat}
  <2>1. 0 \in S
    BY <1>10, <1>11
  <2>2. ASSUME NEW m \in 0 .. n - 1, m \in S
        PROVE  m + 1 \in S
    <3>1. m + 1 \in 1 .. n /\ m + 1 \in 0 .. n /\ (m + 1) - 1 = m
      BY <1>1
    <3>2. g[m + 1] = Adds(g[m], m + 1)
      BY <1>12, <3>1
    <3> QED
      BY <1>2, <2>2, <3>1, <3>2
  <2> HIDE DEF S
  <2>3. 0 .. n \subseteq S
    BY <1>1, <2>1, <2>2, UpTo
  <2> QED
    BY <2>3 DEF S
<1>14. g = [m \in 0 .. n |-> g[m]]
  BY DEF g
<1>15. IsSum(g, a, events, kinds)
  BY <1>11, <1>12, <1>13, <1>14 DEF IsSum, Adds
<1> QED
  BY <1>3, <1>11, <1>15

LEMMA TextFacts ==
  ASSUME NEW a, a.body \in Seq(Range(a.body)),
         \A k \in DOMAIN a.body : a.body[k].weight \in Nat,
         NEW events, NEW kinds
  PROVE  /\ Text(a, events, kinds) \in Nat
         /\ Text(a, {}, kinds) = 0
         /\ \A k \in DOMAIN a.body \ events :
              Text(a, events \cup {k}, kinds) =
                Text(a, events, kinds) + IF a.body[k].kind \in kinds THEN a.body[k].weight ELSE 0
<1> DEFINE n == Len(a.body)
<1>1. n \in Nat /\ DOMAIN a.body = 1 .. n /\ n \in 0 .. n /\ 0 \in 0 .. n
  OBVIOUS
<1>2. PICK f : IsSum(f, a, events, kinds) /\ Text(a, events, kinds) = f[n]
  BY TextIsSum
<1>3. PICK z : IsSum(z, a, {}, kinds) /\ Text(a, {}, kinds) = z[n]
  BY TextIsSum
<1>4. z[n] = 0
  <2> DEFINE S == {m \in 0 .. n : z[m] = 0}
  <2>1. 0 \in S
    BY <1>1, <1>3 DEF IsSum
  <2>2. ASSUME NEW m \in 0 .. n - 1, m \in S
        PROVE  m + 1 \in S
    <3>1. m + 1 \in 1 .. n /\ m + 1 \in 0 .. n /\ (m + 1) - 1 = m
      BY <1>1
    <3>2. z[m + 1] = z[m]
      BY <1>3, <3>1 DEF IsSum
    <3> QED
      BY <2>2, <3>1, <3>2
  <2>3. n \in S
    <3> HIDE DEF S, n
    <3> QED
      BY <1>1, <2>1, <2>2, UpTo
  <2> QED
    BY <2>3
<1>5. ASSUME NEW k \in DOMAIN a.body \ events
      PROVE  Text(a, events \cup {k}, kinds) =
               Text(a, events, kinds) + IF a.body[k].kind \in kinds THEN a.body[k].weight ELSE 0
  <2>1. PICK g : IsSum(g, a, events \cup {k}, kinds) /\ Text(a, events \cup {k}, kinds) = g[n]
    BY TextIsSum
  <2> DEFINE more == IF a.body[k].kind \in kinds THEN a.body[k].weight ELSE 0
             S == {m \in 0 .. n : g[m] = f[m] + IF k <= m THEN more ELSE 0}
  <2>2. more \in Nat /\ k \in 1 .. n
    BY <1>1
  <2>3. 0 \in S
    BY <1>1, <1>2, <2>1, <2>2 DEF IsSum
  <2>4. ASSUME NEW m \in 0 .. n - 1, m \in S
        PROVE  m + 1 \in S
    <3>1. m + 1 \in 1 .. n /\ m + 1 \in 0 .. n /\ (m + 1) - 1 = m /\ m \in 0 .. n
      BY <1>1
    <3>2. f[m] \in Nat /\ g[m] \in Nat /\ a.body[m + 1].weight \in Nat
      BY <1>1, <1>2, <2>1, <3>1 DEF IsSum
    <3>3. /\ f[m + 1] = IF m + 1 \in events /\ a.body[m + 1].kind \in kinds
                        THEN f[m] + a.body[m + 1].weight ELSE f[m]
          /\ g[m + 1] = IF m + 1 \in events \cup {k} /\ a.body[m + 1].kind \in kinds
                        THEN g[m] + a.body[m + 1].weight ELSE g[m]
      BY <1>2, <2>1, <3>1 DEF IsSum
    <3>4. g[m] = f[m] + IF k <= m THEN more ELSE 0
      BY <2>4
    <3>5. g[m + 1] = f[m + 1] + IF k <= m + 1 THEN more ELSE 0
      <4>1. CASE m + 1 = k
        <5>1. m + 1 \notin events /\ ~ (k <= m) /\ k <= m + 1
          BY <3>1, <4>1
        <5>2. f[m + 1] = f[m] /\ g[m] = f[m]
          BY <3>2, <3>3, <3>4, <5>1
        <5>3. g[m + 1] = g[m] + more
          BY <3>2, <3>3, <4>1
        <5> QED
          BY <5>1, <5>2, <5>3
      <4>2. CASE m + 1 # k
        <5>1. m + 1 \in events \cup {k} <=> m + 1 \in events
          BY <4>2
        <5>2. k <= m + 1 <=> k <= m
          BY <2>2, <3>1, <4>2
        <5> HIDE DEF more
        <5> QED
          BY <2>2, <3>2, <3>3, <3>4, <5>1, <5>2
      <4> QED
        BY <4>1, <4>2
    <3> QED
      BY <3>1, <3>5
  <2>5. n \in S
    <3> HIDE DEF S, n
    <3> QED
      BY <1>1, <2>3, <2>4, UpTo
  <2>6. k <= n
    BY <1>1, <2>2
  <2> QED
    BY <1>2, <2>1, <2>5, <2>6
<1> QED
  BY <1>1, <1>2, <1>3, <1>4, <1>5 DEF IsSum

----------------------------------------------------------------------------
(* What an event adds to what was observed.                                *)

IsAnswer(a) ==
  /\ a.body \in Seq(Range(a.body)) /\ \A k \in DOMAIN a.body : IsEvent(a.body[k])
  /\ a.stream \in BOOLEAN
  /\ ~a.stream => Len(a.body) <= 1 /\ \A k \in DOMAIN a.body : a.body[k].size > 0

IsParser(p) ==
  p = [pending |-> p.pending, dropping |-> p.dropping, truncated |-> p.truncated,
       decoded |-> p.decoded, sawUsage |-> p.sawUsage, sawNonZero |-> p.sawNonZero, obs |-> p.obs]

LEMMA ExtractTyped ==
  ASSUME NEW a, NEW usage, usage # None => \A c \in DOMAIN usage : usage[c] \in Nat,
         extract(a, usage) # None
  PROVE  extract(a, usage) \in TokenCounts
<1> DEFINE present == IF usage = None THEN {} ELSE DOMAIN usage \cap Apply(a)
           count == [c \in Counters |-> IF c \in present THEN usage[c] ELSE 0]
           cached == count["hit"] + count["miss"]
           given == count["input"]
                    + (IF InputExcludesCache(a) THEN count["hit"] + count["write"] ELSE 0)
           input == IF "input" \notin present /\ cached > 0 THEN cached ELSE given
           onlyTotal == "total" \in present /\ present \cap {"input", "output"} = {}
           counters == [request |-> IF onlyTotal /\ a.endpoint = "embeddings"
                                    THEN count["total"] ELSE input,
                        response |-> IF onlyTotal /\ a.endpoint # "embeddings"
                                     THEN count["total"] ELSE count["output"],
                        hit |-> count["hit"], miss |-> count["miss"], write |-> count["write"]]
<1>1. \A c \in Counters : count[c] \in Nat
  <2>1. \A c \in present : usage[c] \in Nat
    OBVIOUS
  <2> HIDE DEF present
  <2> QED
    BY <2>1
<1>2. {"input", "output", "total", "hit", "miss", "write"} = Counters
  BY DEF Counters
<1>3. extract(a, usage) = IF present = {} THEN None ELSE counters
  BY DEF extract
<1> HIDE DEF count, present
<1>4. counters \in TokenCounts
  <2>1. input \in Nat
    BY <1>1, <1>2
  <2> HIDE DEF input, onlyTotal
  <2> QED
    BY <1>1, <1>2, <2>1 DEF TokenCounts
<1> QED
  BY <1>3, <1>4

Counted(a, events) == {k \in WithUsage(a, events) : nonZero(extract(a, a.body[k].usage))}
StartOrDelta(a, events) == {k \in WithUsage(a, events) : a.body[k].kind \in {"start", "delta"}}
Inputs(a, events) ==
  {k \in StartOrDelta(a, events) : \/ a.body[k].kind = "start"
                                   \/ extract(a, a.body[k].usage).request > 0}

Below(events, k) == \A j \in events : j \in Int /\ j < k

LEMMA LastTokens ==
  ASSUME NEW a, NEW k \in Int, NEW events, Below(events, k)
  PROVE  TokensOf(a, events \cup {k}) = extract(a, a.body[k].usage)
<1>1. Max(events \cup {k}) = k
  <2> DEFINE S == events \cup {k}
  <2>1. k \in S /\ S \subseteq Int /\ \A x \in S : x <= k
    BY DEF Below
  <2> HIDE DEF S
  <2>2. Max(S) = k
    BY <2>1, MaxIs
  <2> QED
    BY <2>2 DEF S
<1> QED
  BY <1>1 DEF TokensOf

LEMMA TokensTyped ==
  ASSUME NEW a, IsAnswer(a), NEW events \in SUBSET DOMAIN a.body
  PROVE  TokensOf(a, WithUsage(a, events)) \in TokenCounts
         /\ \A some \in SUBSET WithUsage(a, events) : TokensOf(a, some) \in TokenCounts
<1>1. NoTokens \in TokenCounts
  BY DEF NoTokens, TokenCounts
<1>2. Len(a.body) \in Nat /\ DOMAIN a.body = 1 .. Len(a.body)
  BY DEF IsAnswer
<1>3. ASSUME NEW some \in SUBSET WithUsage(a, events)
      PROVE  TokensOf(a, some) \in TokenCounts
  <2>1. CASE some = {}
    BY <1>1, <2>1 DEF TokensOf
  <2>2. CASE some # {}
    <3>1. some \in SUBSET (1 .. Len(a.body))
      BY <1>2 DEF WithUsage
    <3>2. Max(some) \in some
      BY <1>2, <2>2, <3>1, MaxFacts
    <3> DEFINE usage == a.body[Max(some)].usage
    <3>3. extract(a, usage) # None
      BY <3>2 DEF WithUsage
    <3>4. usage # None => \A c \in DOMAIN usage : usage[c] \in Nat
      BY <1>2, <3>1, <3>2 DEF IsAnswer, IsEvent
    <3>5. TokensOf(a, some) = extract(a, usage)
      BY <2>2 DEF TokensOf
    <3> HIDE DEF usage
    <3> QED
      BY <3>3, <3>4, <3>5, ExtractTyped
  <2> QED
    BY <2>1, <2>2
<1> QED
  BY <1>3

MoreUsage(a, events, k) ==
  /\ extract(a, a.body[k].usage) = None =>
       /\ WithUsage(a, events \cup {k}) = WithUsage(a, events)
       /\ Counted(a, events \cup {k}) = Counted(a, events)
       /\ StartOrDelta(a, events \cup {k}) = StartOrDelta(a, events)
       /\ Inputs(a, events \cup {k}) = Inputs(a, events)
  /\ extract(a, a.body[k].usage) # None =>
       /\ WithUsage(a, events \cup {k}) = WithUsage(a, events) \cup {k}
       /\ Counted(a, events \cup {k}) =
            IF nonZero(extract(a, a.body[k].usage)) THEN Counted(a, events) \cup {k}
            ELSE Counted(a, events)
       /\ StartOrDelta(a, events \cup {k}) =
            IF a.body[k].kind \in {"start", "delta"} THEN StartOrDelta(a, events) \cup {k}
            ELSE StartOrDelta(a, events)
       /\ Inputs(a, events \cup {k}) =
            IF \/ a.body[k].kind = "start"
               \/ a.body[k].kind = "delta" /\ extract(a, a.body[k].usage).request > 0
            THEN Inputs(a, events) \cup {k} ELSE Inputs(a, events)

LEMMA UsageOfMore ==
  ASSUME NEW a, NEW events, NEW k
  PROVE  MoreUsage(a, events, k)
<1> DEFINE tokens(j) == extract(a, a.body[j].usage)
<1>1. \A j : j \in WithUsage(a, events \cup {k}) <=>
               j \in WithUsage(a, events) \/ (j = k /\ tokens(k) # None)
  BY DEF WithUsage
<1>2. \A j : j \in StartOrDelta(a, events \cup {k}) <=>
               \/ j \in StartOrDelta(a, events)
               \/ j = k /\ tokens(k) # None /\ a.body[k].kind \in {"start", "delta"}
  BY <1>1 DEF StartOrDelta
<1>3. \A j : j \in Counted(a, events \cup {k}) <=>
               j \in Counted(a, events) \/ (j = k /\ tokens(k) # None /\ nonZero(tokens(k)))
  BY <1>1 DEF Counted
<1>4. \A j : j \in Inputs(a, events \cup {k}) <=>
               \/ j \in Inputs(a, events)
               \/ /\ j = k /\ tokens(k) # None /\ a.body[k].kind \in {"start", "delta"}
                  /\ a.body[k].kind = "start" \/ tokens(k).request > 0
  BY <1>2 DEF Inputs
<1>5. CASE tokens(k) = None
  BY <1>1, <1>2, <1>3, <1>4, <1>5 DEF MoreUsage
<1>6. CASE tokens(k) # None
  <2>1. WithUsage(a, events \cup {k}) = WithUsage(a, events) \cup {k}
    BY <1>1, <1>6
  <2>2. Counted(a, events \cup {k}) =
          IF nonZero(tokens(k)) THEN Counted(a, events) \cup {k} ELSE Counted(a, events)
    BY <1>3, <1>6
  <2>3. StartOrDelta(a, events \cup {k}) =
          IF a.body[k].kind \in {"start", "delta"} THEN StartOrDelta(a, events) \cup {k}
          ELSE StartOrDelta(a, events)
    BY <1>2, <1>6
  <2>4. Inputs(a, events \cup {k}) =
          IF \/ a.body[k].kind = "start"
             \/ a.body[k].kind = "delta" /\ tokens(k).request > 0
          THEN Inputs(a, events) \cup {k} ELSE Inputs(a, events)
    BY <1>4, <1>6
  <2> QED
    BY <1>6, <2>1, <2>2, <2>3, <2>4 DEF MoreUsage
<1> QED
  BY <1>5, <1>6

(* What a parser has observed that has read these events of a stream.      *)
HasRead(a, p, events) ==
  /\ IsParser(p)
  /\ a.endpoint = "responses" => p.obs = ResponsesReference(a, events)
  /\ a.endpoint = "anthropic" => p.obs = AnthropicReference(a, events)
  /\ a.endpoint \notin {"responses", "anthropic"} =>
       /\ p.obs = [ChatReference(a, events, FALSE) EXCEPT !.final = FALSE]
       /\ p.sawUsage = (WithUsage(a, events) # {})
       /\ p.sawNonZero = (Counted(a, events) # {})

SameLine(p, q) ==
  /\ q.pending = p.pending /\ q.dropping = p.dropping
  /\ q.truncated = p.truncated /\ q.decoded = p.decoded

Observation(tokens, final, errored, weight) ==
  [tokens |-> tokens, final |-> final, errored |-> errored, weight |-> weight,
   characters |-> 0, code |-> "none"]

IsObservation(o) ==
  o = [tokens |-> o.tokens, final |-> o.final, errored |-> o.errored, weight |-> o.weight,
       characters |-> o.characters, code |-> o.code]

ObservedOfChat(a, events, final) ==
  Observation(TokensOf(a, Counted(a, events)), final,
              Has(a, events, {"error"}), Text(a, events, Kinds(a)))

ObservedOfResponses(a, events) ==
  Observation(TokensOf(a, WithUsage(a, events)),
              Has(a, WithUsage(a, events), {"completed", "incomplete", "failed"}),
              Has(a, events, {"error", "failed"}), Text(a, events, {"delta"}))

ObservedOfAnthropic(a, events) ==
  Observation([TokensOf(a, Inputs(a, events)) EXCEPT
                 !.response = TokensOf(a, StartOrDelta(a, events)).response],
              Has(a, StartOrDelta(a, events), {"delta"}),
              Has(a, events, {"error"}), Text(a, events, {"content"}))

LEMMA References ==
  ASSUME NEW a, NEW events
  PROVE  /\ \A complete : ChatReference(a, events, complete) =
              ObservedOfChat(a, events,
                             Counted(a, events) # {} \/ (WithUsage(a, events) # {} /\ complete))
         /\ [ChatReference(a, events, FALSE) EXCEPT !.final = FALSE] =
              ObservedOfChat(a, events, FALSE)
         /\ ResponsesReference(a, events) = ObservedOfResponses(a, events)
         /\ AnthropicReference(a, events) = ObservedOfAnthropic(a, events)
<1>1. IsObservation(NoObservation) /\ NoObservation.characters = 0 /\ NoObservation.code = "none"
  BY DEF IsObservation, NoObservation
<1>2. ASSUME NEW complete, NEW o, o = ChatReference(a, events, complete)
      PROVE  o = ObservedOfChat(a, events,
                                Counted(a, events) # {} \/ (WithUsage(a, events) # {} /\ complete))
  BY <1>1, <1>2 DEF ChatReference, ObservedOfChat, Observation, IsObservation, Counted
<1>3. ASSUME NEW o, NEW final, NEW x, o = ObservedOfChat(a, events, final), x = [o EXCEPT !.final = FALSE]
      PROVE  x = ObservedOfChat(a, events, FALSE)
  BY <1>3 DEF ObservedOfChat, Observation
<1>4. ASSUME NEW o, o = ResponsesReference(a, events)
      PROVE  o = ObservedOfResponses(a, events)
  BY <1>1, <1>4 DEF ResponsesReference, ObservedOfResponses, Observation, IsObservation
<1>5. ASSUME NEW o, o = AnthropicReference(a, events)
      PROVE  o = ObservedOfAnthropic(a, events)
  BY <1>1, <1>5 DEF AnthropicReference, ObservedOfAnthropic, Observation, IsObservation,
                    StartOrDelta, Inputs
<1>6. \A complete : ChatReference(a, events, complete) =
        ObservedOfChat(a, events,
                       Counted(a, events) # {} \/ (WithUsage(a, events) # {} /\ complete))
  BY <1>2
<1>7. [ChatReference(a, events, FALSE) EXCEPT !.final = FALSE] = ObservedOfChat(a, events, FALSE)
  BY <1>3, <1>6
<1>8. ResponsesReference(a, events) = ObservedOfResponses(a, events)
      /\ AnthropicReference(a, events) = ObservedOfAnthropic(a, events)
  BY <1>4, <1>5
<1> QED
  BY <1>6, <1>7, <1>8

LEMMA HasBoolean ==
  ASSUME NEW a, NEW events, NEW kinds
  PROVE  Has(a, events, kinds) \in BOOLEAN
BY DEF Has

(* What one more event adds to the text of some kinds.                     *)
Share(event, kinds) == IF event.kind \in kinds THEN event.weight ELSE 0

LEMMA TextOfMore ==
  ASSUME NEW a, IsAnswer(a), NEW events, NEW kinds, NEW k \in DOMAIN a.body \ events
  PROVE  Text(a, events \cup {k}, kinds) = Text(a, events, kinds) + Share(a.body[k], kinds)
<1>1. a.body \in Seq(Range(a.body)) /\ \A j \in DOMAIN a.body : a.body[j].weight \in Nat
  BY DEF IsAnswer, IsEvent
<1> QED
  BY <1>1, TextFacts DEF Share

LEMMA ChatReads ==
  ASSUME NEW a, IsAnswer(a), a.endpoint \notin {"responses", "anthropic"},
         NEW p, NEW k \in DOMAIN a.body, NEW events \in SUBSET (1 .. k - 1), HasRead(a, p, events)
  PROVE  /\ HasRead(a, chatEvent(a, p, a.body[k]), events \cup {k})
         /\ SameLine(p, chatEvent(a, p, a.body[k]))
<1> DEFINE event == a.body[k]
           tokens == extract(a, event.usage)
           q == chatEvent(a, p, event)
           more == events \cup {k}
           errored == p.obs.errored \/ event.kind = "error"
           weight == p.obs.weight + event.weight
<1>1. Len(a.body) \in Nat /\ DOMAIN a.body = 1 .. Len(a.body) /\ k \in Nat /\ k \notin events
  BY DEF IsAnswer
<1>2. Text(a, more, Kinds(a)) = Text(a, events, Kinds(a)) + event.weight
  <2>1. event.kind \in Kinds(a) /\ k \in DOMAIN a.body \ events
    BY <1>1 DEF Kinds
  <2> QED
    BY <2>1, TextOfMore DEF Share
<1>3. Has(a, more, {"error"}) = (Has(a, events, {"error"}) \/ event.kind = "error")
  BY DEF Has
<1>4. /\ p.obs = Observation(TokensOf(a, Counted(a, events)), FALSE, Has(a, events, {"error"}),
                             Text(a, events, Kinds(a)))
      /\ p.sawUsage = (WithUsage(a, events) # {}) /\ p.sawNonZero = (Counted(a, events) # {})
      /\ IsParser(p)
  BY References DEF HasRead, ObservedOfChat
<1>5. /\ p.obs.tokens = TokensOf(a, Counted(a, events)) /\ p.obs.final = FALSE
      /\ p.obs.characters = 0 /\ p.obs.code = "none" /\ IsObservation(p.obs)
  BY <1>4 DEF Observation, IsObservation
<1>6. errored = Has(a, more, {"error"}) /\ weight = Text(a, more, Kinds(a))
  BY <1>2, <1>3, <1>4 DEF Observation
<1>7. MoreUsage(a, events, k) /\ Below(Counted(a, events), k)
  <2>1. MoreUsage(a, events, k)
    BY UsageOfMore
  <2>2. \A j \in events : j \in Int /\ j < k
    BY <1>1
  <2> QED
    BY <2>1, <2>2 DEF Below, Counted, WithUsage
<1> HIDE DEF q
<1>8. ASSUME tokens = None
      PROVE  /\ IsParser(q) /\ SameLine(p, q)
             /\ q.obs = Observation(TokensOf(a, Counted(a, more)), FALSE, errored, weight)
             /\ q.sawUsage = (WithUsage(a, more) # {}) /\ q.sawNonZero = (Counted(a, more) # {})
  <2>1. q = [p EXCEPT !.obs.errored = @ \/ event.kind = "error", !.obs.weight = @ + event.weight]
    BY <1>8 DEF chatEvent, q
  <2>2. Counted(a, more) = Counted(a, events) /\ WithUsage(a, more) = WithUsage(a, events)
    BY <1>7, <1>8 DEF MoreUsage
  <2> HIDE DEF event
  <2>3. /\ IsParser(q) /\ SameLine(p, q)
        /\ q.sawUsage = p.sawUsage /\ q.sawNonZero = p.sawNonZero
    BY <1>4, <2>1 DEF IsParser, SameLine
  <2>4. q.obs = [p.obs EXCEPT !.errored = errored, !.weight = weight]
    BY <1>4, <2>1 DEF IsParser
  <2>5. q.obs = Observation(p.obs.tokens, FALSE, errored, weight)
    BY <1>5, <2>4 DEF Observation, IsObservation
  <2> QED
    BY <1>4, <1>5, <2>2, <2>3, <2>5
<1>9. ASSUME tokens # None
      PROVE  /\ IsParser(q) /\ SameLine(p, q)
             /\ q.obs = Observation(TokensOf(a, Counted(a, more)), FALSE, errored, weight)
             /\ q.sawUsage = (WithUsage(a, more) # {}) /\ q.sawNonZero = (Counted(a, more) # {})
  <2> DEFINE seen == IF nonZero(tokens) \/ ~p.sawNonZero THEN tokens ELSE p.obs.tokens
  <2>1. q = [[p EXCEPT !.sawUsage = TRUE, !.sawNonZero = @ \/ nonZero(tokens), !.obs.tokens = seen]
             EXCEPT !.obs.errored = @ \/ event.kind = "error", !.obs.weight = @ + event.weight]
    BY <1>9 DEF chatEvent, q
  <2>2. Counted(a, more) = (IF nonZero(tokens) THEN Counted(a, events) \cup {k} ELSE Counted(a, events))
        /\ WithUsage(a, more) = WithUsage(a, events) \cup {k}
    BY <1>7, <1>9 DEF MoreUsage
  <2>3. seen = TokensOf(a, Counted(a, more))
    <3>1. CASE nonZero(tokens)
      <4>1. TokensOf(a, Counted(a, events) \cup {k}) = tokens
        BY <1>1, <1>7, LastTokens
      <4> QED
        BY <2>2, <3>1, <4>1
    <3>2. CASE ~nonZero(tokens) /\ ~p.sawNonZero
      <4>1. tokens = NoTokens
        BY <3>2 DEF nonZero
      <4>2. Counted(a, more) = {}
        BY <1>4, <2>2, <3>2
      <4> QED
        BY <3>2, <4>1, <4>2 DEF TokensOf
    <3>3. CASE ~nonZero(tokens) /\ p.sawNonZero
      BY <1>5, <2>2, <3>3
    <3> QED
      BY <3>1, <3>2, <3>3
  <2>4. TRUE = (WithUsage(a, more) # {})
        /\ (p.sawNonZero \/ nonZero(tokens)) = (Counted(a, more) # {})
    BY <1>4, <2>2
  <2> HIDE DEF seen, event, tokens
  <2>5. PICK x : x = [p EXCEPT !.sawUsage = TRUE, !.sawNonZero = @ \/ nonZero(tokens),
                               !.obs.tokens = seen]
    OBVIOUS
  <2>6. /\ IsParser(x) /\ SameLine(p, x) /\ x.obs = [p.obs EXCEPT !.tokens = seen]
        /\ x.sawUsage = TRUE /\ x.sawNonZero = (p.sawNonZero \/ nonZero(tokens))
    BY <1>4, <2>5 DEF IsParser, SameLine
  <2>7. /\ IsObservation(x.obs) /\ x.obs.tokens = seen /\ x.obs.final = FALSE
        /\ x.obs.errored = p.obs.errored /\ x.obs.weight = p.obs.weight
        /\ x.obs.characters = 0 /\ x.obs.code = "none"
    BY <1>5, <2>6 DEF IsObservation
  <2>8. q = [x EXCEPT !.obs.errored = @ \/ event.kind = "error", !.obs.weight = @ + event.weight]
    BY <2>1, <2>5
  <2>9. /\ IsParser(q) /\ SameLine(x, q)
        /\ q.sawUsage = x.sawUsage /\ q.sawNonZero = x.sawNonZero
    BY <2>6, <2>8 DEF IsParser, SameLine
  <2>10. q.obs = [x.obs EXCEPT !.errored = errored, !.weight = weight]
    BY <2>6, <2>7, <2>8 DEF IsParser
  <2>11. q.obs = Observation(seen, FALSE, errored, weight)
    BY <2>7, <2>10 DEF Observation, IsObservation
  <2>12. SameLine(p, q)
    BY <2>6, <2>9 DEF SameLine
  <2> QED
    BY <2>3, <2>4, <2>6, <2>9, <2>11, <2>12
<1> HIDE DEF errored, weight
<1>10. HasRead(a, q, more)
  BY <1>6, <1>8, <1>9, References DEF HasRead, ObservedOfChat
<1> QED
  BY <1>8, <1>9, <1>10 DEF q

LEMMA ResponsesReads ==
  ASSUME NEW a, IsAnswer(a), a.endpoint = "responses",
         NEW p, NEW k \in DOMAIN a.body, NEW events \in SUBSET (1 .. k - 1), HasRead(a, p, events)
  PROVE  /\ HasRead(a, responsesEvent(a, p, a.body[k]), events \cup {k})
         /\ SameLine(p, responsesEvent(a, p, a.body[k]))
<1> DEFINE event == a.body[k]
           tokens == extract(a, event.usage)
           q == responsesEvent(a, p, event)
           more == events \cup {k}
           ends == {"completed", "incomplete", "failed"}
           seen == IF tokens = None THEN p.obs.tokens ELSE tokens
           final == IF tokens = None THEN p.obs.final ELSE p.obs.final \/ event.kind \in ends
           errored == p.obs.errored \/ event.kind \in {"error", "failed"}
           weight == p.obs.weight + (IF event.kind = "delta" THEN event.weight ELSE 0)
<1>1. Len(a.body) \in Nat /\ DOMAIN a.body = 1 .. Len(a.body) /\ k \in Nat /\ k \notin events
  BY DEF IsAnswer
<1>2. Text(a, more, {"delta"}) =
        Text(a, events, {"delta"}) + IF event.kind = "delta" THEN event.weight ELSE 0
  <2>1. k \in DOMAIN a.body \ events
    BY <1>1
  <2>2. Text(a, more, {"delta"}) = Text(a, events, {"delta"}) + Share(event, {"delta"})
    BY <2>1, TextOfMore
  <2>3. event.kind \in {"delta"} <=> event.kind = "delta"
    <3> HIDE DEF event
    <3> QED
      OBVIOUS
  <2> HIDE DEF more, event
  <2> QED
    BY <2>2, <2>3 DEF Share
<1>3. Has(a, more, {"error", "failed"}) =
        (Has(a, events, {"error", "failed"}) \/ event.kind \in {"error", "failed"})
  BY DEF Has
<1>4. /\ p.obs = Observation(TokensOf(a, WithUsage(a, events)), Has(a, WithUsage(a, events), ends),
                             Has(a, events, {"error", "failed"}), Text(a, events, {"delta"}))
      /\ IsParser(p)
  BY References DEF HasRead, ObservedOfResponses
<1>5. /\ p.obs.tokens = TokensOf(a, WithUsage(a, events))
      /\ p.obs.final = Has(a, WithUsage(a, events), ends)
      /\ p.obs.characters = 0 /\ p.obs.code = "none" /\ IsObservation(p.obs)
  BY <1>4 DEF Observation, IsObservation
<1>6. errored = Has(a, more, {"error", "failed"}) /\ weight = Text(a, more, {"delta"})
  BY <1>2, <1>3, <1>4 DEF Observation
<1>7. MoreUsage(a, events, k) /\ Below(WithUsage(a, events), k)
  <2>1. MoreUsage(a, events, k)
    BY UsageOfMore
  <2>2. \A j \in events : j \in Int /\ j < k
    BY <1>1
  <2> QED
    BY <2>1, <2>2 DEF Below, WithUsage
<1>8. seen = TokensOf(a, WithUsage(a, more)) /\ final = Has(a, WithUsage(a, more), ends)
  <2>1. CASE tokens = None
    <3>1. WithUsage(a, more) = WithUsage(a, events)
      BY <1>7, <2>1 DEF MoreUsage
    <3> QED
      BY <1>5, <2>1, <3>1
  <2>2. CASE tokens # None
    <3>1. WithUsage(a, more) = WithUsage(a, events) \cup {k}
      BY <1>7, <2>2 DEF MoreUsage
    <3>2. TokensOf(a, WithUsage(a, events) \cup {k}) = tokens
      BY <1>1, <1>7, LastTokens
    <3>3. Has(a, WithUsage(a, events) \cup {k}, ends) =
            (Has(a, WithUsage(a, events), ends) \/ event.kind \in ends)
      BY DEF Has
    <3> QED
      BY <1>5, <2>2, <3>1, <3>2, <3>3
  <2> QED
    BY <2>1, <2>2
<1> HIDE DEF q
<1>9. PICK x : x = IF tokens = None THEN p
                   ELSE [p EXCEPT !.obs.tokens = tokens, !.obs.final = @ \/ event.kind \in ends]
  OBVIOUS
<1>10. q = [x EXCEPT !.obs.errored = @ \/ event.kind \in {"error", "failed"},
                     !.obs.weight = @ + (IF event.kind = "delta" THEN event.weight ELSE 0)]
  BY <1>9 DEF responsesEvent, q
<1> HIDE DEF event, tokens, ends
<1>11. /\ IsParser(x) /\ SameLine(p, x)
       /\ IsObservation(x.obs) /\ x.obs.tokens = seen /\ x.obs.final = final
       /\ x.obs.errored = p.obs.errored /\ x.obs.weight = p.obs.weight
       /\ x.obs.characters = 0 /\ x.obs.code = "none"
  <2>1. CASE tokens = None
    BY <1>4, <1>5, <1>9, <2>1 DEF SameLine
  <2>2. CASE tokens # None
    <3>1. x = [p EXCEPT !.obs.tokens = tokens, !.obs.final = @ \/ event.kind \in ends]
      BY <1>9, <2>2
    <3>2. IsParser(x) /\ SameLine(p, x)
      BY <1>4, <3>1 DEF IsParser, SameLine
    <3>3. x.obs = [p.obs EXCEPT !.tokens = seen, !.final = final]
      BY <1>4, <2>2, <3>1 DEF IsParser
    <3> HIDE DEF seen, final
    <3> QED
      BY <1>5, <3>2, <3>3 DEF IsObservation
  <2> QED
    BY <2>1, <2>2
<1>12. IsParser(q) /\ SameLine(x, q)
  BY <1>10, <1>11 DEF IsParser, SameLine
<1>13. q.obs = [x.obs EXCEPT !.errored = errored, !.weight = weight]
  BY <1>10, <1>11 DEF IsParser
<1> HIDE DEF errored, weight, seen, final
<1>14. q.obs = Observation(seen, final, errored, weight)
  BY <1>11, <1>13 DEF Observation, IsObservation
<1>15. SameLine(p, q)
  BY <1>11, <1>12 DEF SameLine
<1>16. q.obs = ObservedOfResponses(a, more)
  BY <1>6, <1>8, <1>14 DEF ObservedOfResponses, ends
<1>17. HasRead(a, q, more)
  BY <1>12, <1>16, References DEF HasRead
<1> QED
  BY <1>15, <1>17 DEF q, event

LEMMA AnthropicReads ==
  ASSUME NEW a, IsAnswer(a), a.endpoint = "anthropic",
         NEW p, NEW k \in DOMAIN a.body, NEW events \in SUBSET (1 .. k - 1), HasRead(a, p, events)
  PROVE  /\ HasRead(a, anthropicEvent(a, p, a.body[k]), events \cup {k})
         /\ SameLine(p, anthropicEvent(a, p, a.body[k]))
<1> DEFINE event == a.body[k]
           tokens == extract(a, event.usage)
           q == anthropicEvent(a, p, event)
           more == events \cup {k}
           inputs == Inputs(a, events)
           usages == StartOrDelta(a, events)
           counts == [TokensOf(a, inputs) EXCEPT !.response = TokensOf(a, usages).response]
           allCounts == [TokensOf(a, Inputs(a, more)) EXCEPT
                           !.response = TokensOf(a, StartOrDelta(a, more)).response]
<1>1. Len(a.body) \in Nat /\ DOMAIN a.body = 1 .. Len(a.body) /\ k \in Nat /\ k \notin events
  BY DEF IsAnswer
<1>2. Text(a, more, {"content"}) =
        Text(a, events, {"content"}) + (IF event.kind = "content" THEN event.weight ELSE 0)
      /\ Text(a, events, {"content"}) \in Nat
  <2>1. k \in DOMAIN a.body \ events
    BY <1>1
  <2>2. \A j \in DOMAIN a.body : a.body[j].weight \in Nat
    BY DEF IsAnswer, IsEvent
  <2>3. Text(a, more, {"content"}) = Text(a, events, {"content"}) + Share(event, {"content"})
    BY <2>1, TextOfMore
  <2>4. Text(a, events, {"content"}) \in Nat
    BY <2>2, TextFacts DEF IsAnswer
  <2>5. event.kind \in {"content"} <=> event.kind = "content"
    <3> HIDE DEF event
    <3> QED
      OBVIOUS
  <2> HIDE DEF more, event
  <2> QED
    BY <2>3, <2>4, <2>5 DEF Share
<1>3. Has(a, more, {"error"}) = (Has(a, events, {"error"}) \/ event.kind = "error")
  BY DEF Has
<1>4. /\ p.obs = Observation(counts, Has(a, usages, {"delta"}), Has(a, events, {"error"}),
                             Text(a, events, {"content"}))
      /\ IsParser(p)
  BY References DEF HasRead, ObservedOfAnthropic
<1>5. /\ p.obs.tokens = counts /\ p.obs.final = Has(a, usages, {"delta"})
      /\ p.obs.errored = Has(a, events, {"error"}) /\ p.obs.weight = Text(a, events, {"content"})
      /\ p.obs.characters = 0 /\ p.obs.code = "none" /\ IsObservation(p.obs)
  BY <1>4 DEF Observation, IsObservation
<1>6. MoreUsage(a, events, k) /\ Below(inputs, k) /\ Below(usages, k)
  <2>1. MoreUsage(a, events, k)
    BY UsageOfMore
  <2>2. \A j \in events : j \in Int /\ j < k
    BY <1>1
  <2> QED
    BY <2>1, <2>2 DEF Below, Inputs, StartOrDelta, WithUsage
<1>7. /\ TokensOf(a, inputs) \in TokenCounts /\ TokensOf(a, usages) \in TokenCounts
      /\ tokens # None => tokens \in TokenCounts
  <2>1. events \in SUBSET DOMAIN a.body
    BY <1>1
  <2>2. inputs \in SUBSET WithUsage(a, events) /\ usages \in SUBSET WithUsage(a, events)
    BY DEF Inputs, StartOrDelta
  <2>3. event.usage # None => \A c \in DOMAIN event.usage : event.usage[c] \in Nat
    BY DEF IsAnswer, IsEvent
  <2> HIDE DEF inputs, usages, event
  <2> QED
    BY <2>1, <2>2, <2>3, TokensTyped, ExtractTyped
<1>8. Has(a, StartOrDelta(a, more), {"delta"}) =
        (Has(a, usages, {"delta"}) \/ (tokens # None /\ event.kind = "delta"))
  <2>1. CASE tokens = None
    <3>1. StartOrDelta(a, more) = usages
      BY <1>6, <2>1 DEF MoreUsage
    <3> HIDE DEF usages, more
    <3> QED
      BY <2>1, <3>1, HasBoolean
  <2>2. CASE tokens # None
    <3>1. StartOrDelta(a, more) =
            IF event.kind \in {"start", "delta"} THEN usages \cup {k} ELSE usages
      BY <1>6, <2>2 DEF MoreUsage
    <3>2. Has(a, usages \cup {k}, {"delta"}) = (Has(a, usages, {"delta"}) \/ event.kind = "delta")
      BY DEF Has
    <3>3. Has(a, usages, {"delta"}) \in BOOLEAN
      BY HasBoolean
    <3> HIDE DEF usages, more, event
    <3> QED
      BY <2>2, <3>1, <3>2, <3>3
  <2> QED
    BY <2>1, <2>2
<1>9. /\ tokens = None \/ event.kind \notin {"start", "delta"} => allCounts = counts
      /\ tokens # None /\ (event.kind = "start" \/ (event.kind = "delta" /\ tokens.request > 0)) =>
           allCounts = tokens
      /\ tokens # None /\ event.kind = "delta" /\ ~ (tokens.request > 0) =>
           allCounts = [counts EXCEPT !.response = tokens.response]
  <2>1. CASE tokens = None \/ event.kind \notin {"start", "delta"}
    <3>1. Inputs(a, more) = inputs /\ StartOrDelta(a, more) = usages
      BY <1>6, <2>1 DEF MoreUsage
    <3>2. allCounts = counts
      BY <3>1
    <3> HIDE DEF allCounts, counts
    <3> QED
      BY <2>1, <3>2
  <2>2. CASE tokens # None /\ (event.kind = "start" \/ (event.kind = "delta" /\ tokens.request > 0))
    <3>1. Inputs(a, more) = inputs \cup {k} /\ StartOrDelta(a, more) = usages \cup {k}
      BY <1>6, <2>2 DEF MoreUsage
    <3>2. TokensOf(a, inputs \cup {k}) = tokens /\ TokensOf(a, usages \cup {k}) = tokens
      BY <1>1, <1>6, LastTokens
    <3>3. allCounts = [tokens EXCEPT !.response = tokens.response]
      BY <3>1, <3>2
    <3> HIDE DEF allCounts, counts, tokens
    <3>4. allCounts = tokens
      BY <1>7, <2>2, <3>3 DEF TokenCounts
    <3> QED
      BY <2>2, <3>4
  <2>3. CASE tokens # None /\ event.kind = "delta" /\ ~ (tokens.request > 0)
    <3>1. Inputs(a, more) = inputs /\ StartOrDelta(a, more) = usages \cup {k}
      BY <1>6, <2>3 DEF MoreUsage
    <3>2. TokensOf(a, usages \cup {k}) = tokens
      BY <1>1, <1>6, LastTokens
    <3>3. allCounts = [TokensOf(a, inputs) EXCEPT !.response = tokens.response]
      BY <3>1, <3>2
    <3> HIDE DEF inputs, usages, tokens
    <3>4. allCounts = [counts EXCEPT !.response = tokens.response]
      BY <1>7, <2>3, <3>3 DEF TokenCounts
    <3> HIDE DEF allCounts, counts
    <3> QED
      BY <2>3, <3>4
  <2> QED
    BY <2>1, <2>2, <2>3
<1> HIDE DEF q, event, tokens, counts, allCounts, usages
<1> DEFINE New(o) == /\ IsObservation(o) /\ o.characters = 0 /\ o.code = "none"
                     /\ o.tokens = allCounts /\ o.final = Has(a, StartOrDelta(a, more), {"delta"})
                     /\ o.errored = Has(a, more, {"error"})
                     /\ o.weight = Text(a, more, {"content"})
           Done == IsParser(q) /\ SameLine(p, q) /\ New(q.obs)
<1>10. ASSUME event.kind = "error"
       PROVE  Done
  <2>1. q = [p EXCEPT !.obs.errored = TRUE]
    BY <1>10 DEF anthropicEvent, q
  <2>2. IsParser(q) /\ SameLine(p, q) /\ q.obs = [p.obs EXCEPT !.errored = TRUE]
    BY <1>4, <2>1 DEF IsParser, SameLine
  <2>3. allCounts = counts
    BY <1>9, <1>10
  <2>4. Has(a, StartOrDelta(a, more), {"delta"}) = Has(a, usages, {"delta"})
        /\ Has(a, more, {"error"}) = TRUE /\ Text(a, more, {"content"}) = Text(a, events, {"content"})
    BY <1>2, <1>3, <1>8, <1>10, HasBoolean
  <2>5. New(q.obs)
    BY <1>5, <2>2, <2>3, <2>4 DEF IsObservation
  <2> QED
    BY <2>2, <2>5
<1>11. ASSUME event.kind = "start", tokens # None
       PROVE  Done
  <2>1. q = [p EXCEPT !.obs.tokens = tokens]
    BY <1>11 DEF anthropicEvent, q, tokens
  <2>2. IsParser(q) /\ SameLine(p, q) /\ q.obs = [p.obs EXCEPT !.tokens = tokens]
    BY <1>4, <2>1 DEF IsParser, SameLine
  <2>3. allCounts = tokens
    BY <1>9, <1>11
  <2>4. Has(a, StartOrDelta(a, more), {"delta"}) = Has(a, usages, {"delta"})
        /\ Has(a, more, {"error"}) = Has(a, events, {"error"})
        /\ Text(a, more, {"content"}) = Text(a, events, {"content"})
    BY <1>2, <1>3, <1>8, <1>11, HasBoolean
  <2>5. New(q.obs)
    BY <1>5, <2>2, <2>3, <2>4 DEF IsObservation
  <2> QED
    BY <2>2, <2>5
<1>12. ASSUME event.kind = "delta", tokens # None
       PROVE  Done
  <2> DEFINE new == IF tokens.request > 0 THEN tokens ELSE [counts EXCEPT !.response = tokens.response]
  <2>1. q = [p EXCEPT !.obs.final = TRUE,
                      !.obs.tokens = IF tokens.request > 0 THEN tokens
                                     ELSE [p.obs.tokens EXCEPT !.response = tokens.response]]
    BY <1>12 DEF anthropicEvent, q, tokens
  <2>2. new = allCounts
    BY <1>9, <1>12
  <2>3. q = [p EXCEPT !.obs.final = TRUE, !.obs.tokens = new]
    BY <1>5, <2>1
  <2> HIDE DEF new
  <2>4. IsParser(q) /\ SameLine(p, q) /\ q.obs = [p.obs EXCEPT !.final = TRUE, !.tokens = new]
    BY <1>4, <2>3 DEF IsParser, SameLine
  <2>5. Has(a, StartOrDelta(a, more), {"delta"}) = TRUE
        /\ Has(a, more, {"error"}) = Has(a, events, {"error"})
        /\ Text(a, more, {"content"}) = Text(a, events, {"content"})
    BY <1>2, <1>3, <1>8, <1>12, HasBoolean
  <2>6. New(q.obs)
    BY <1>5, <2>2, <2>4, <2>5 DEF IsObservation
  <2> QED
    BY <2>4, <2>6
<1>13. ASSUME event.kind = "content"
       PROVE  Done
  <2>1. q = [p EXCEPT !.obs.weight = @ + event.weight]
    BY <1>13 DEF anthropicEvent, q
  <2>2. /\ IsParser(q) /\ SameLine(p, q)
        /\ q.obs = [p.obs EXCEPT !.weight = p.obs.weight + event.weight]
    BY <1>4, <2>1 DEF IsParser, SameLine
  <2>3. allCounts = counts
    BY <1>9, <1>13
  <2>4. Has(a, StartOrDelta(a, more), {"delta"}) = Has(a, usages, {"delta"})
        /\ Has(a, more, {"error"}) = Has(a, events, {"error"})
        /\ Text(a, more, {"content"}) = Text(a, events, {"content"}) + event.weight
    BY <1>2, <1>3, <1>8, <1>13, HasBoolean
  <2>5. New(q.obs)
    BY <1>5, <2>2, <2>3, <2>4 DEF IsObservation
  <2> QED
    BY <2>2, <2>5
<1>14. ASSUME event.kind \notin {"error", "content"},
              tokens = None \/ event.kind \notin {"start", "delta"}
       PROVE  Done
  <2>1. q = p
    BY <1>14 DEF anthropicEvent, q, tokens
  <2>2. allCounts = counts
    BY <1>9, <1>14
  <2>3. Has(a, StartOrDelta(a, more), {"delta"}) = Has(a, usages, {"delta"})
        /\ Has(a, more, {"error"}) = Has(a, events, {"error"})
        /\ Text(a, more, {"content"}) = Text(a, events, {"content"})
    BY <1>2, <1>3, <1>8, <1>14, HasBoolean
  <2>4. New(q.obs)
    BY <1>5, <2>1, <2>2, <2>3
  <2> QED
    BY <1>4, <2>1, <2>4 DEF SameLine
<1>15. Done
  <2> HIDE DEF Done
  <2> QED
    BY <1>10, <1>11, <1>12, <1>13, <1>14
<1>16. q.obs = ObservedOfAnthropic(a, more)
  BY <1>15 DEF ObservedOfAnthropic, Observation, IsObservation, allCounts
<1>17. HasRead(a, q, more)
  BY <1>15, <1>16, References DEF HasRead
<1> QED
  BY <1>15, <1>17 DEF q, event

----------------------------------------------------------------------------
(* A stream, line by line: l units of the line u have been read.           *)

Run(u, l) == [i \in 1 .. l |-> u]

LEMMA RunFacts ==
  ASSUME NEW u \in Nat, NEW l \in Nat
  PROVE  /\ Run(u, l) \in Seq(Nat) /\ Len(Run(u, l)) = l
         /\ Run(u, 0) = << >> /\ (Run(u, l) = << >> <=> l = 0)
         /\ \A m \in Nat : Run(u, l) \o Run(u, m) = Run(u, l + m)
<1>1. Run(u, l) \in Seq(Nat) /\ Len(Run(u, l)) = l
  BY DEF Run
<1>2. Run(u, 0) = << >>
  BY DEF Run
<1>3. Run(u, l) = << >> <=> l = 0
  BY <1>1, <1>2
<1>4. ASSUME NEW m \in Nat
      PROVE  Run(u, l) \o Run(u, m) = Run(u, l + m)
  BY DEF Run
<1> QED
  BY <1>1, <1>2, <1>3, <1>4

LEMMA RunEqual ==
  ASSUME NEW u, NEW l \in Nat, NEW v, NEW m \in Nat, Run(u, l) = Run(v, m)
  PROVE  l = m /\ (l > 0 => u = v)
<1>1. Len(Run(u, l)) = l /\ Len(Run(v, m)) = m
  BY DEF Run
<1>2. l > 0 => Run(u, l)[1] = u
  BY DEF Run
<1>3. m > 0 => Run(v, m)[1] = v
  BY DEF Run
<1> QED
  BY <1>1, <1>2, <1>3

LEMMA LineReads ==
  ASSUME NEW a, IsAnswer(a), NEW p, NEW k \in DOMAIN a.body, NEW l \in 0 .. a.body[k].size,
         NEW events \in SUBSET (1 .. k - 1), HasRead(a, p, events)
  PROVE  /\ SameLine(p, ReadLine(a, p, Run(k, l)))
         /\ HasRead(a, ReadLine(a, p, Run(k, l)),
                    IF l = a.body[k].size /\ l > 0 THEN events \cup {k} ELSE events)
<1> DEFINE line == Run(k, l)
           q == ReadLine(a, p, line)
           Step(j) == CASE a.endpoint = "responses" -> responsesEvent(a, p, a.body[j])
                        [] a.endpoint = "anthropic" -> anthropicEvent(a, p, a.body[j])
                        [] OTHER -> chatEvent(a, p, a.body[j])
<1>1. \A j \in DOMAIN a.body : j \in Nat /\ a.body[j].size \in Nat
  BY DEF IsAnswer, IsEvent
<1>2. \A j \in DOMAIN a.body : Line(a.body, j) = Run(j, a.body[j].size)
  BY DEF Line, Run
<1>3. l \in Nat /\ (line = << >> <=> l = 0)
  BY <1>1, RunFacts
<1>4. q = IF line = << >> \/ \A j \in DOMAIN a.body : line # Line(a.body, j) THEN p
          ELSE Step(CHOOSE j \in DOMAIN a.body : line = Line(a.body, j))
  BY DEF ReadLine
<1>5. CASE l = a.body[k].size /\ l > 0
  <2>1. \A j \in DOMAIN a.body : line = Line(a.body, j) <=> j = k
    <3>1. SUFFICES ASSUME NEW j \in DOMAIN a.body PROVE line = Line(a.body, j) <=> j = k
      OBVIOUS
    <3>2. line = Line(a.body, k)
      BY <1>2, <1>5
    <3>3. line = Line(a.body, j) => k = j
      BY <1>1, <1>2, <1>3, <1>5, RunEqual
    <3> QED
      BY <3>2, <3>3
  <2>2. (CHOOSE j \in DOMAIN a.body : line = Line(a.body, j)) = k
    BY <2>1
  <2>3. q = Step(k)
    <3>1. ~ (line = << >> \/ \A j \in DOMAIN a.body : line # Line(a.body, j))
      BY <1>3, <1>5, <2>1
    <3> HIDE DEF line, Step
    <3> QED
      BY <1>4, <2>2, <3>1
  <2>4. HasRead(a, q, events \cup {k}) /\ SameLine(p, q)
    <3>1. CASE a.endpoint = "responses"
      <4>1. q = responsesEvent(a, p, a.body[k])
        BY <2>3, <3>1
      <4> HIDE DEF q
      <4> QED
        BY <3>1, <4>1, ResponsesReads
    <3>2. CASE a.endpoint = "anthropic"
      <4>1. q = anthropicEvent(a, p, a.body[k])
        BY <2>3, <3>2
      <4> HIDE DEF q
      <4> QED
        BY <3>2, <4>1, AnthropicReads
    <3>3. CASE a.endpoint \notin {"responses", "anthropic"}
      <4>1. q = chatEvent(a, p, a.body[k])
        BY <2>3, <3>3
      <4> HIDE DEF q
      <4> QED
        BY <3>3, <4>1, ChatReads
    <3> QED
      BY <3>1, <3>2, <3>3
  <2> QED
    BY <1>5, <2>4
<1>6. CASE ~ (l = a.body[k].size /\ l > 0)
  <2>1. ASSUME NEW j \in DOMAIN a.body, l > 0
        PROVE  line # Line(a.body, j)
    BY <1>1, <1>2, <1>3, <1>6, <2>1, RunEqual
  <2>2. q = p
    <3>1. line = << >> \/ \A j \in DOMAIN a.body : line # Line(a.body, j)
      BY <1>3, <2>1
    <3> HIDE DEF line, Step
    <3> QED
      BY <1>4, <3>1
  <2> QED
    BY <1>6, <2>2 DEF SameLine
<1> QED
  BY <1>5, <1>6

Holds(p, u, l) ==
  /\ p.dropping = (l > MaxEventSize)
  /\ p.pending = IF l > MaxEventSize THEN << >> ELSE Run(u, l)

SameReading(p, q) ==
  /\ q.obs = p.obs /\ q.sawUsage = p.sawUsage /\ q.sawNonZero = p.sawNonZero
  /\ q.decoded = p.decoded /\ q.truncated = p.truncated

LEMMA KeptHolds ==
  ASSUME NEW p, IsParser(p), NEW u \in Nat, NEW l \in Nat, Holds(p, u, l), NEW m \in Nat
  PROVE  /\ IsParser(Kept(p, Run(u, m))) /\ SameReading(p, Kept(p, Run(u, m)))
         /\ Holds(Kept(p, Run(u, m)), u, l + m)
<1> DEFINE text == Run(u, m)
           q == Kept(p, text)
<1>1. MaxEventSize \in Nat
  BY ParserAssumption
<1>2. Len(text) = m /\ Run(u, l) \o text = Run(u, l + m) /\ Len(Run(u, l)) = l
  BY RunFacts
<1> HIDE DEF text, q
<1>3. CASE l > MaxEventSize
  <2>1. q = p
    BY <1>3 DEF Holds, Kept, q
  <2>2. l + m > MaxEventSize
    BY <1>1, <1>3
  <2> QED
    BY <1>3, <2>1, <2>2 DEF Holds, SameReading, q, text
<1>4. CASE ~ (l > MaxEventSize) /\ l + m > MaxEventSize
  <2>1. q = [p EXCEPT !.pending = << >>, !.dropping = TRUE]
    BY <1>2, <1>4 DEF Holds, Kept, q
  <2> QED
    BY <1>4, <2>1 DEF Holds, SameReading, q, text, IsParser
<1>5. CASE ~ (l + m > MaxEventSize)
  <2>1. ~ (l > MaxEventSize)
    BY <1>1, <1>5
  <2>2. q = [p EXCEPT !.pending = @ \o text]
    BY <1>2, <1>5, <2>1 DEF Holds, Kept, q
  <2>3. IsParser(q) /\ SameReading(p, q) /\ q.dropping = p.dropping /\ q.pending = p.pending \o text
    BY <2>2 DEF SameReading, IsParser
  <2>4. Holds(q, u, l + m)
    BY <1>2, <1>5, <2>1, <2>3 DEF Holds
  <2> QED
    BY <2>3, <2>4 DEF q, text
<1> QED
  BY <1>3, <1>4, <1>5

(* After n units, c lines have ended.                                      *)
At(body, n, c) ==
  /\ c \in 0 .. Len(body) /\ n \in Nat /\ Ends(body)[c] < n
  /\ c < Len(body) => n <= Ends(body)[c + 1]
  /\ c = Len(body) => n = 0

Lines(a, c) == {k \in 1 .. c : a.body[k].size \in 1 .. MaxEventSize}

Reads(a, p, n, c) ==
  /\ At(a.body, n, c)
  /\ HasRead(a, p, Lines(a, c))
  /\ Holds(p, c + 1, n - Ends(a.body)[c] - 1)

LEMMA AnswerBody ==
  ASSUME NEW a, IsAnswer(a)
  PROVE  /\ IsBody(a.body) /\ Len(a.body) \in Nat /\ DOMAIN a.body = 1 .. Len(a.body)
         /\ \A k \in 1 .. Len(a.body) : a.body[k].size \in Nat
BY DEF IsAnswer, IsEvent, IsBody

LEMMA HasReadSame ==
  ASSUME NEW a, NEW p, NEW q, NEW events, HasRead(a, p, events), IsParser(q), SameReading(p, q)
  PROVE  HasRead(a, q, events)
BY DEF HasRead, SameReading

LEMMA ReadSegmentIs ==
  ASSUME NEW a, NEW p, NEW text, NEW complete
  PROVE  ReadSegment(a, p, text, complete) =
           IF ~complete THEN Kept(p, text)
           ELSE [(IF Kept(p, text).dropping THEN Kept(p, text)
                  ELSE ReadLine(a, Kept(p, text), Kept(p, text).pending))
                 EXCEPT !.pending = << >>, !.dropping = FALSE]
<1> DEFINE Result(kept) == IF ~complete THEN kept
                           ELSE [(IF kept.dropping THEN kept ELSE ReadLine(a, kept, kept.pending))
                                 EXCEPT !.pending = << >>, !.dropping = FALSE]
<1>1. ReadSegment(a, p, text, complete) =
        CHOOSE next \in {Result(kept) : kept \in {Kept(p, text)}} : TRUE
  BY DEF ReadSegment
<1> HIDE DEF Result
<1>2. {Result(kept) : kept \in {Kept(p, text)}} = {Result(Kept(p, text))}
  OBVIOUS
<1>3. ReadSegment(a, p, text, complete) = Result(Kept(p, text))
  BY <1>1, <1>2
<1> QED
  BY <1>3 DEF Result

LEMMA RestOfLine ==
  ASSUME NEW a, IsAnswer(a), NEW n, NEW c \in 0 .. Len(a.body) - 1, At(a.body, n, c),
         NEW y \in n .. Ends(a.body)[c + 1]
  PROVE  /\ SubSeq(Wire(a.body), n + 1, y) = Run(c + 1, y - n)
         /\ y - n \in Nat /\ n - Ends(a.body)[c] - 1 \in Nat
         /\ Ends(a.body)[c] \in Int /\ Ends(a.body)[c + 1] \in Int /\ n \in Nat
         /\ Ends(a.body)[c + 1] <= Len(Wire(a.body))
<1> DEFINE e == Ends(a.body)
           w == Wire(a.body)
           N == Len(a.body)
<1>1. IsBody(a.body) /\ N \in Nat
  BY AnswerBody
<1>2. e \in [0 .. N -> Int]
  BY <1>1, EndsFacts
<1>3. Len(w) \in Nat /\ DOMAIN w = 1 .. Len(w) /\ Len(w) = e[N]
  BY <1>1, WireLength
<1>4. c \in 0 .. N /\ c + 1 \in 1 .. N /\ c + 1 \in 0 .. N /\ N \in 0 .. N
  BY <1>1
<1>5. e[c + 1] <= e[N]
  BY <1>1, <1>2, <1>4, EndsRise
<1>6. n \in Nat /\ e[c] \in Int /\ e[c + 1] \in Int /\ e[c] < n
  BY <1>2, <1>4 DEF At
<1>7. \A i \in n + 1 .. y : i \in 1 .. Len(w) /\ i \in e[c] + 2 .. e[c + 1]
  <2> DEFINE u == e[c]
             v == e[c + 1]
             z == e[N]
  <2>1. /\ u \in Int /\ v \in Int /\ z \in Int /\ v <= z /\ u < n /\ n \in Nat
        /\ z = Len(w) /\ y <= v /\ y \in Int
    BY <1>2, <1>3, <1>4, <1>5, <1>6
  <2> HIDE DEF u, v, z
  <2>2. \A i \in n + 1 .. y : i \in 1 .. z /\ i \in u + 2 .. v
    BY <2>1
  <2> QED
    BY <2>1, <2>2 DEF u, v
<1>8. \A i \in n + 1 .. y : w[i] = c + 1
  BY <1>1, <1>7, WireUnits
<1>9. y \in Int /\ y - n \in Nat
  BY <1>6
<1> HIDE DEF w, e
<1>10. SubSeq(w, n + 1, y) = [i \in 1 .. y - n |-> w[n + i]]
  BY <1>6, <1>9
<1>11. \A i \in 1 .. y - n : n + i \in n + 1 .. y
  BY <1>6, <1>9
<1>12. SubSeq(w, n + 1, y) = Run(c + 1, y - n)
  BY <1>8, <1>10, <1>11 DEF Run
<1>13. n - e[c] - 1 \in Nat
  <2> DEFINE u == e[c]
  <2>1. u \in Int /\ n \in Int /\ u < n
    BY <1>6
  <2> HIDE DEF u
  <2>2. n - u - 1 \in Nat
    BY <2>1
  <2> QED
    BY <2>2 DEF u
<1>14. e[c + 1] <= Len(w)
  BY <1>3, <1>5
<1> QED
  BY <1>6, <1>9, <1>12, <1>13, <1>14 DEF w, e

PartReads(a, p, n, c, y) ==
  LET q == ReadSegment(a, p, SubSeq(Wire(a.body), n + 1, y), FALSE)
  IN  Reads(a, q, y, c) /\ q.decoded = p.decoded

LEMMA PartRead ==
  ASSUME NEW a, IsAnswer(a), NEW p, NEW n, NEW c \in 0 .. Len(a.body) - 1, Reads(a, p, n, c),
         NEW y \in n .. Ends(a.body)[c + 1]
  PROVE  PartReads(a, p, n, c, y)
<1> DEFINE e == Ends(a.body)
           l == n - e[c] - 1
           text == Run(c + 1, y - n)
           q == Kept(p, text)
<1>1. At(a.body, n, c) /\ HasRead(a, p, Lines(a, c)) /\ Holds(p, c + 1, l) /\ IsParser(p)
  BY DEF Reads, HasRead
<1>2. /\ SubSeq(Wire(a.body), n + 1, y) = text /\ y - n \in Nat /\ l \in Nat
      /\ e[c] \in Int /\ e[c + 1] \in Int /\ n \in Nat
  BY <1>1, RestOfLine
<1>3. ReadSegment(a, p, text, FALSE) = q
  BY ReadSegmentIs
<1>4. c + 1 \in Nat /\ Len(a.body) \in Nat
  BY AnswerBody
<1>5. IsParser(q) /\ SameReading(p, q) /\ Holds(q, c + 1, l + (y - n))
  <2> HIDE DEF l
  <2> QED
    BY <1>1, <1>2, <1>4, KeptHolds
<1>6. l + (y - n) = y - e[c] - 1 /\ y \in Nat
  BY <1>2
<1>7. At(a.body, y, c)
  BY <1>1, <1>2, <1>4 DEF At
<1>8. HasRead(a, q, Lines(a, c)) /\ q.decoded = p.decoded
  BY <1>1, <1>5, HasReadSame DEF SameReading
<1> HIDE DEF q, text
<1>9. Reads(a, q, y, c)
  BY <1>5, <1>6, <1>7, <1>8 DEF Reads
<1> QED
  BY <1>2, <1>3, <1>8, <1>9 DEF PartReads

LEMMA LineRead ==
  ASSUME NEW a, IsAnswer(a), NEW p, NEW n, NEW c \in 0 .. Len(a.body) - 2, Reads(a, p, n, c)
  PROVE  LET q == ReadSegment(a, p, SubSeq(Wire(a.body), n + 1, Ends(a.body)[c + 1]), TRUE)
         IN  Reads(a, q, Ends(a.body)[c + 1] + 1, c + 1) /\ q.decoded = p.decoded
<1> DEFINE e == Ends(a.body)
           y == e[c + 1]
           l == n - e[c] - 1
           k == c + 1
           size == a.body[k].size
           text == Run(k, y - n)
           kept == Kept(p, text)
           read == IF kept.dropping THEN kept ELSE ReadLine(a, kept, kept.pending)
           q == [read EXCEPT !.pending = << >>, !.dropping = FALSE]
<1>1. At(a.body, n, c) /\ HasRead(a, p, Lines(a, c)) /\ Holds(p, k, l) /\ IsParser(p)
  BY DEF Reads, HasRead
<1>2. /\ Len(a.body) \in Nat /\ c \in 0 .. Len(a.body) - 1 /\ k \in 1 .. Len(a.body) /\ size \in Nat
      /\ k \in DOMAIN a.body /\ k + 1 \in 1 .. Len(a.body) /\ IsBody(a.body) /\ k \in Nat
      /\ a.body[k + 1].size \in Nat
  <2>1. Len(a.body) \in Nat /\ k \in 1 .. Len(a.body) /\ k + 1 \in 1 .. Len(a.body)
    BY AnswerBody
  <2> QED
    BY <2>1, AnswerBody
<1>3. e \in [0 .. Len(a.body) -> Int] /\ e[k] = e[c] + 1 + size /\ e[k + 1] = e[k] + 1 + a.body[k + 1].size
  <2>1. \A j \in 1 .. Len(a.body) : e[j] = e[j - 1] + 1 + a.body[j].size
    BY <1>2, EndsFacts
  <2>2. k - 1 = c /\ (k + 1) - 1 = k
    BY <1>2
  <2>3. e \in [0 .. Len(a.body) -> Int]
    BY <1>2, EndsFacts
  <2> HIDE DEF e
  <2> QED
    BY <1>2, <2>1, <2>2, <2>3
<1>4. n <= y /\ y \in Int /\ n \in Nat /\ e[c] \in Int
  <2>1. c \in 0 .. Len(a.body) /\ c < Len(a.body) /\ c + 1 \in 0 .. Len(a.body)
    BY <1>2
  <2>2. n <= e[c + 1] /\ n \in Nat
    BY <1>1, <2>1 DEF At
  <2> HIDE DEF e
  <2> QED
    BY <1>3, <2>1, <2>2
<1>5. /\ SubSeq(Wire(a.body), n + 1, y) = text /\ y - n \in Nat /\ l \in Nat
  <2>1. y \in n .. e[c + 1]
    BY <1>4
  <2> HIDE DEF y
  <2> QED
    BY <1>1, <1>2, <2>1, RestOfLine
<1>6. ReadSegment(a, p, text, TRUE) = q
  BY ReadSegmentIs
<1>7. l + (y - n) = size
  <2> DEFINE u == e[c]
  <2>1. /\ y = u + 1 + size
        /\ u \in Int /\ n \in Int
        /\ size \in Int
    <3>1. y = u + 1 + size
      BY <1>3
    <3>2. u \in Int /\ n \in Int
      BY <1>4
    <3>3. size \in Int
      BY <1>2
    <3> QED
      BY <3>1, <3>2, <3>3
  <2>2. l = n - u - 1
    OBVIOUS
  <2> HIDE DEF u, l, size, y
  <2> QED
    BY <2>1, <2>2
<1>8. IsParser(kept) /\ SameReading(p, kept) /\ Holds(kept, k, size)
  <2>1. Holds(kept, k, l + (y - n)) /\ IsParser(kept) /\ SameReading(p, kept)
    <3> HIDE DEF l, y, k
    <3> QED
      BY <1>1, <1>2, <1>5, KeptHolds
  <2> QED
    BY <1>7, <2>1
<1>9. HasRead(a, kept, Lines(a, c))
  BY <1>1, <1>8, HasReadSame
<1> HIDE DEF kept, text
<1>10. HasRead(a, read, Lines(a, k)) /\ read.decoded = p.decoded
  <2>1. Lines(a, k) = IF size \in 1 .. MaxEventSize THEN Lines(a, c) \cup {k} ELSE Lines(a, c)
    BY <1>2 DEF Lines
  <2>2. Lines(a, c) \in SUBSET (1 .. k - 1) /\ MaxEventSize \in Nat
    BY <1>2, ParserAssumption DEF Lines
  <2>3. CASE size > MaxEventSize
    <3>1. read = kept
      BY <1>8, <2>3 DEF Holds
    <3>2. Lines(a, k) = Lines(a, c)
      <4>1. size \notin 1 .. MaxEventSize
        BY <1>2, <2>2, <2>3
      <4> HIDE DEF size, k
      <4> QED
        BY <2>1, <4>1
    <3> QED
      BY <1>8, <1>9, <3>1, <3>2 DEF SameReading
  <2>4. CASE ~ (size > MaxEventSize)
    <3>1. read = ReadLine(a, kept, Run(k, size))
      BY <1>8, <2>4 DEF Holds
    <3>2. size \in 0 .. size
      BY <1>2
    <3> DEFINE some == Lines(a, c)
    <3> HIDE DEF read, k, some
    <3>3. /\ SameLine(kept, read)
          /\ HasRead(a, read, IF size = size /\ size > 0 THEN some \cup {k} ELSE some)
      BY <1>2, <1>9, <2>2, <3>1, <3>2, LineReads DEF some
    <3>4. Lines(a, k) = IF size > 0 THEN some \cup {k} ELSE some
      BY <1>2, <2>1, <2>2, <2>4 DEF some
    <3> QED
      BY <1>8, <3>3, <3>4 DEF SameReading, SameLine
  <2> QED
    BY <1>2, <2>2, <2>3, <2>4
<1>11. IsParser(read)
  BY <1>10 DEF HasRead
<1> HIDE DEF read
<1>12. IsParser(q) /\ SameReading(read, q) /\ q.pending = << >> /\ q.dropping = FALSE
  <2>1. q = [read EXCEPT !.pending = << >>, !.dropping = FALSE]
    OBVIOUS
  <2> HIDE DEF q
  <2> QED
    BY <1>11, <2>1 DEF IsParser, SameReading
<1> HIDE DEF q
<1>13. HasRead(a, q, Lines(a, k)) /\ q.decoded = p.decoded
  BY <1>10, <1>12, HasReadSame DEF SameReading
<1>14. At(a.body, y + 1, k)
  <2>1. k \in 0 .. Len(a.body) /\ k # Len(a.body)
    BY <1>2
  <2>2. y = e[k] /\ y + 1 \in Nat /\ y + 1 <= e[k + 1]
    <3> DEFINE s == a.body[k + 1].size
               z == e[k + 1]
    <3>1. n \in Nat /\ n <= y /\ y \in Int /\ s \in Nat /\ z = y + 1 + s
      BY <1>2, <1>3, <1>4
    <3>2. y = e[k]
      OBVIOUS
    <3> HIDE DEF y, s, z
    <3>3. y + 1 \in Nat /\ y + 1 <= z
      BY <3>1
    <3> QED
      BY <3>2, <3>3 DEF z
  <2> HIDE DEF y, k
  <2> QED
    BY <1>4, <2>1, <2>2 DEF At
<1>15. Holds(q, k + 1, (y + 1) - e[k] - 1)
  <2>1. (y + 1) - e[k] - 1 = 0 /\ ~ (0 > MaxEventSize)
    <3>1. y = e[k]
      OBVIOUS
    <3> HIDE DEF y, e, k
    <3> QED
      BY <1>4, <3>1, ParserAssumption
  <2>2. Run(k + 1, 0) = << >>
    BY <1>2, RunFacts
  <2>3. Holds(q, k + 1, 0)
    <3> DEFINE long == 0 > MaxEventSize
    <3>1. long = FALSE
      BY <2>1
    <3> HIDE DEF k
    <3>2. /\ Holds(q, k + 1, 0) <=> q.dropping = long
                               /\ q.pending = IF long THEN << >> ELSE Run(k + 1, 0)
      BY DEF Holds
    <3> HIDE DEF long
    <3> QED
      BY <1>12, <2>2, <3>1, <3>2
  <2> HIDE DEF y, e, k
  <2> QED
    BY <2>1, <2>3
<1> QED
  BY <1>5, <1>6, <1>13, <1>14, <1>15 DEF Reads

----------------------------------------------------------------------------
(* A chunk of a stream: the turns of the loop over its lines.              *)

LEMMA MinIs ==
  ASSUME NEW S, NEW m \in S, S \subseteq Int, \A x \in S : m <= x
  PROVE  Min(S) = m
<1>1. \E x \in S : \A y \in S : x <= y
  OBVIOUS
<1>2. Min(S) \in S /\ \A y \in S : Min(S) <= y
  BY <1>1 DEF Min
<1> DEFINE k == Min(S)
<1>3. k \in Int /\ m \in Int /\ k <= m /\ m <= k
  BY <1>2
<1> HIDE DEF k
<1>4. k = m
  BY <1>3
<1> QED
  BY <1>4 DEF k

LEMMA ReadNextIs ==
  ASSUME NEW a, NEW data, NEW t
  PROVE  ReadNext(a, data, t) =
           IF t.from > Len(data) THEN t
           ELSE [parser |-> ReadSegment(a, t.parser,
                                        SubSeq(data, t.from, NextNewline(data, t.from) - 1),
                                        NextNewline(data, t.from) <= Len(data)),
                 from |-> NextNewline(data, t.from) + 1]
<1> DEFINE After(u) == LET end == NextNewline(data, u.from)
                       IN IF u.from > Len(data) THEN u
                          ELSE [parser |-> ReadSegment(a, u.parser, SubSeq(data, u.from, end - 1),
                                                       end <= Len(data)),
                                from |-> end + 1]
<1>1. ReadNext(a, data, t) = CHOOSE next \in {After(u) : u \in {t}} : TRUE
  BY DEF ReadNext
<1> HIDE DEF After
<1>2. {After(u) : u \in {t}} = {After(t)}
  OBVIOUS
<1>3. ReadNext(a, data, t) = After(t)
  BY <1>1, <1>2
<1> QED
  BY <1>3 DEF After

(* g[j] is the turn after j rounds.                                        *)
IsTurns(g, a, p, data) ==
  /\ g[0] = [parser |-> p, from |-> 1]
  /\ \A j \in 1 .. Len(data) : g[j] = ReadNext(a, data, g[j - 1])
  /\ Parsed(a, p, data) = g[Len(data)].parser

IsRounds(f, n, a, t, data) ==
  f = [s \in SUBSET (1 .. n) |-> IF s = {} THEN t ELSE ReadNext(a, data, f[s \ {Max(s)}])]

LEMMA RoundsExist ==
  ASSUME NEW n \in Nat, NEW a, NEW t, NEW data
  PROVE  \E f : IsRounds(f, n, a, t, data)
<1> DEFINE After(u) == ReadNext(a, data, u)
           Folds(m, f) == f = [s \in SUBSET (1 .. m) |-> IF s = {} THEN t ELSE After(f[s \ {Max(s)}])]
           S == {m \in Nat : \E f : Folds(m, f)}
<1> HIDE DEF After
<1>1. 0 \in S
  <2> DEFINE f == [s \in SUBSET (1 .. 0) |-> t]
  <2>1. \A s \in SUBSET (1 .. 0) : s = {}
    OBVIOUS
  <2>2. Folds(0, f)
    BY <2>1
  <2> HIDE DEF Folds
  <2> QED
    BY <2>2
<1>2. ASSUME NEW m \in 0 .. n - 1, m \in S
      PROVE  m + 1 \in S
  <2>1. PICK f : Folds(m, f)
    <3> HIDE DEF Folds
    <3> QED
      BY <1>2
  <2> DEFINE g == [s \in SUBSET (1 .. m + 1) |->
                     IF m + 1 \in s THEN After(f[s \ {m + 1}]) ELSE f[s]]
  <2>2. \A s \in SUBSET (1 .. m + 1) :
          /\ m + 1 \notin s => s \in SUBSET (1 .. m)
          /\ s \ {m + 1} \in SUBSET (1 .. m) /\ s \ {m + 1} \in SUBSET (1 .. m + 1)
          /\ m + 1 \notin s \ {m + 1}
    OBVIOUS
  <2>3. ASSUME NEW s \in SUBSET (1 .. m + 1)
        PROVE  g[s] = IF s = {} THEN t ELSE After(g[s \ {Max(s)}])
    <3>1. CASE m + 1 \in s
      <4>1. Max(s) = m + 1
        <5>1. s \subseteq Int /\ \A x \in s : x <= m + 1
          OBVIOUS
        <5> QED
          BY <3>1, <5>1, MaxIs
      <4>2. g[s \ {m + 1}] = f[s \ {m + 1}] /\ g[s] = After(f[s \ {m + 1}]) /\ s # {}
        BY <2>2, <3>1
      <4> HIDE DEF g
      <4> QED
        BY <4>1, <4>2
    <3>2. CASE m + 1 \notin s
      <4>1. s \in SUBSET (1 .. m) /\ g[s] = f[s]
        BY <2>2, <3>2
      <4>2. CASE s = {}
        BY <2>1, <4>1, <4>2
      <4>3. CASE s # {}
        <5>1. s \ {Max(s)} \in SUBSET (1 .. m + 1) /\ m + 1 \notin s \ {Max(s)}
          BY <3>2
        <5>2. g[s \ {Max(s)}] = f[s \ {Max(s)}]
          BY <5>1
        <5>3. f[s] = After(f[s \ {Max(s)}])
          BY <2>1, <4>1, <4>3
        <5> HIDE DEF g
        <5> QED
          BY <4>1, <4>3, <5>2, <5>3
      <4> QED
        BY <4>2, <4>3
    <3> QED
      BY <3>1, <3>2
  <2>4. g = [s \in SUBSET (1 .. m + 1) |-> g[s]]
    OBVIOUS
  <2> HIDE DEF g
  <2>5. Folds(m + 1, g)
    BY <2>3, <2>4
  <2> HIDE DEF Folds
  <2> QED
    BY <2>5
<1>3. n \in S
  <2> HIDE DEF S
  <2> QED
    BY <1>1, <1>2, UpTo
<1>4. PICK f : Folds(n, f)
  <2> HIDE DEF Folds
  <2> QED
    BY <1>3
<1> QED
  BY <1>4 DEF IsRounds, After

LEMMA TurnsOfLoop ==
  ASSUME NEW a, a.stream, ~IsTTSEndpoint(a.endpoint), NEW p,
         NEW data, Len(data) \in Nat, DOMAIN data = 1 .. Len(data)
  PROVE  \E g : IsTurns(g, a, p, data)
<1> DEFINE n == Len(data)
           t == [parser |-> p, from |-> 1]
           Step(turn, unit) == ReadNext(a, data, turn)
           folded == FoldLeft(LAMBDA turn, unit : Step(turn, unit), t, data)
<1>1. n \in Nat /\ DOMAIN data = 1 .. n
  OBVIOUS
<1>2. Parsed(a, p, data) = folded.parser
  BY DEF Parsed
<1>3. PICK f : IsRounds(f, n, a, t, data)
  <2> HIDE DEF n, t
  <2> QED
    BY <1>1, RoundsExist
<1> DEFINE Folds(g) == g = [s \in SUBSET DOMAIN data |->
                              IF s = {} THEN t ELSE Step(g[s \ {Max(s)}], data[Max(s)])]
           iter == CHOOSE g : Folds(g)
<1>4. Folds(f)
  BY <1>1, <1>3 DEF IsRounds
<1>5. Folds(iter)
  <2> HIDE DEF Folds
  <2> QED
    BY <1>4
<1>6. folded = iter[1 .. n]
  BY <1>1 DEF FoldLeft, MapThenFoldSet
<1> DEFINE g == [m \in 0 .. n |-> iter[1 .. m]]
<1> HIDE DEF iter, folded
<1>7. 0 \in 0 .. n /\ n \in 0 .. n
  BY <1>1
<1>8. g[0] = t /\ g[n] = folded
  <2>1. 1 .. 0 = {} /\ {} \in SUBSET DOMAIN data
    OBVIOUS
  <2>2. iter[{}] = t
    BY <1>5, <2>1
  <2> QED
    BY <1>6, <1>7, <2>1, <2>2
<1>9. ASSUME NEW m \in 1 .. n
      PROVE  g[m] = ReadNext(a, data, g[m - 1])
  <2>1. m \in 0 .. n /\ m - 1 \in 0 .. n
    BY <1>1
  <2>2. 1 .. m \in SUBSET DOMAIN data /\ 1 .. m # {} /\ (1 .. m) \ {m} = 1 .. m - 1
    <3>1. m \in Int /\ 1 <= m /\ m <= n /\ n \in Int
      BY <1>1
    <3> HIDE DEF n
    <3>2. (1 .. m) \ {m} = 1 .. m - 1 /\ 1 .. m # {} /\ 1 .. m \subseteq 1 .. n
      BY <3>1
    <3> QED
      BY <1>1, <3>2
  <2>3. Max(1 .. m) = m
    <3>1. 1 .. m \subseteq Int /\ m \in 1 .. m /\ \A x \in 1 .. m : x <= m
      OBVIOUS
    <3> QED
      BY <3>1, MaxIs
  <2>4. iter[1 .. m] = ReadNext(a, data, iter[1 .. m - 1])
    BY <1>5, <2>2, <2>3
  <2> HIDE DEF n
  <2> QED
    BY <2>1, <2>4
<1> HIDE DEF g
<1> QED
  BY <1>2, <1>8, <1>9 DEF IsTurns

(* What is left of a chunk from here on: n units had been read before the  *)
(* chunk, which goes up to m.                                              *)
InChunk(n, m, from) == IF from > m - n THEN m ELSE n + from - 1

IsTurn(a, t, n, m, decoded) ==
  /\ t.from \in Nat \ {0} /\ t.parser.decoded = decoded
  /\ \E c \in 0 .. Len(a.body) : Reads(a, t.parser, InChunk(n, m, t.from), c)

LEMMA ChunkFacts ==
  ASSUME NEW a, IsAnswer(a), NEW n \in Nat, NEW m \in n .. Len(Wire(a.body))
  PROVE  LET data == SubSeq(Wire(a.body), n + 1, m)
         IN  /\ m \in Nat /\ Len(data) = m - n /\ Len(data) \in Nat /\ DOMAIN data = 1 .. Len(data)
             /\ \A i \in 1 .. m - n : data[i] = Wire(a.body)[n + i]
<1> DEFINE w == Wire(a.body)
<1>1. Len(w) \in Nat
  BY AnswerBody, WireLength
<1> HIDE DEF w
<1>2. m \in Nat /\ m - n \in Nat
  BY <1>1
<1>3. SubSeq(w, n + 1, m) = [i \in 1 .. m - n |-> w[n + i]]
  BY <1>2
<1> DEFINE data == SubSeq(w, n + 1, m)
<1>4. data = [i \in 1 .. m - n |-> w[n + i]]
  BY <1>3
<1> HIDE DEF data
<1>5. Len(data) = m - n /\ DOMAIN data = 1 .. m - n /\ \A i \in 1 .. m - n : data[i] = w[n + i]
  BY <1>2, <1>4
<1> QED
  BY <1>2, <1>5 DEF data, w

LEMMA UnitInWire ==
  ASSUME NEW n \in Nat, NEW m \in Int, NEW size \in Int, m <= size, NEW i \in 1 .. m - n
  PROVE  n + i \in 1 .. size
OBVIOUS

LEMMA TurnReads ==
  ASSUME NEW a, IsAnswer(a), NEW n \in Nat, NEW m \in n .. Len(Wire(a.body)),
         NEW decoded, NEW t, IsTurn(a, t, n, m, decoded)
  PROVE  LET next == ReadNext(a, SubSeq(Wire(a.body), n + 1, m), t)
         IN  /\ IsTurn(a, next, n, m, decoded)
             /\ next.from > t.from \/ (next = t /\ t.from > m - n)
<1> DEFINE w == Wire(a.body)
           e == Ends(a.body)
           N == Len(a.body)
           data == SubSeq(w, n + 1, m)
           next == ReadNext(a, data, t)
           from == t.from
           x == n + from - 1
           p == t.parser
<1>1. /\ m \in Nat /\ Len(data) = m - n /\ m - n \in Nat /\ m <= Len(w)
      /\ \A i \in 1 .. m - n : data[i] = w[n + i]
  BY ChunkFacts
<1>2. /\ IsBody(a.body) /\ N \in Nat /\ e \in [0 .. N -> Int]
      /\ Len(w) \in Nat /\ (N = 0 => Len(w) = 0) /\ (N > 0 => Len(w) = e[N])
  BY AnswerBody, EndsFacts, WireLength
<1>3. CASE from > m - n
  BY <1>1, <1>3, ReadNextIs
<1>4. CASE ~ (from > m - n)
  <2> DEFINE end == NextNewline(data, from)
             text == SubSeq(data, from, end - 1)
             q == ReadSegment(a, p, text, end <= m - n)
  <2>1. from \in 1 .. m - n /\ x \in Nat /\ x < m /\ from = x - n + 1
    <3>1. from \in Nat \ {0}
      BY DEF IsTurn
    <3> HIDE DEF from
    <3> QED
      BY <1>1, <1>4, <3>1
  <2>2. next = [parser |-> q, from |-> end + 1]
    BY <1>1, <1>4, ReadNextIs
  <2>3. PICK c \in 0 .. N : Reads(a, p, x, c) /\ p.decoded = decoded
    BY <1>4 DEF IsTurn, InChunk
  <2>4. At(a.body, x, c)
    BY <2>3 DEF Reads
  <2>5. c \in 0 .. N - 1 /\ e[c] \in Int /\ e[c + 1] \in Int /\ e[c] < x /\ x <= e[c + 1]
    <3>1. c # N
      <4>1. ASSUME c = N PROVE FALSE
        <5>1. N > 0
          BY <1>1, <1>2, <2>1
        <5>2. x > e[N] /\ e[N] = Len(w)
          BY <1>2, <2>4, <4>1, <5>1 DEF At
        <5> HIDE DEF x, w, e, N
        <5> QED
          BY <1>1, <1>2, <2>1, <5>2
      <4> QED
        BY <4>1
    <3>2. c < N /\ c \in 0 .. N - 1 /\ c \in 0 .. N /\ c + 1 \in 0 .. N
      BY <1>2, <3>1
    <3> QED
      BY <1>2, <2>4, <3>2 DEF At
  <2> HIDE DEF x, w, e, data, from, next, p, N
  <2>6. ASSUME NEW y \in x .. m
        PROVE  SubSeq(data, from, y - n) = SubSeq(w, x + 1, y)
    <3>1. y \in Nat /\ y - n \in Nat /\ from \in Nat /\ x \in Nat /\ from - 1 = x - n
      BY <1>1, <2>1
    <3>2. SubSeq(data, from, y - n) = [i \in 1 .. y - x |-> data[i + from - 1]]
      <4>1. SubSeq(data, from, y - n) = [i \in 1 .. (1 + (y - n)) - from |-> data[(i + from) - 1]]
        BY <3>1
      <4>2. (1 + (y - n)) - from = y - x /\ y - x \in Int
        BY <2>1, <3>1
      <4>3. \A i \in 1 .. y - x : (i + from) - 1 = i + from - 1
        BY <3>1, <4>2
      <4>4. 1 .. (1 + (y - n)) - from = 1 .. y - x
        BY <4>2
      <4> QED
        BY <4>1, <4>3, <4>4
    <3>3. SubSeq(w, x + 1, y) = [i \in 1 .. y - x |-> w[i + x]]
      BY <3>1
    <3>4. ASSUME NEW i \in 1 .. y - x
          PROVE  data[i + from - 1] = w[i + x]
      <4>1. i + from - 1 \in 1 .. m - n /\ n + (i + from - 1) = i + x
        BY <1>1, <2>1, <3>1
      <4> QED
        BY <1>1, <4>1
    <3> QED
      BY <3>2, <3>3, <3>4
  <2>7. \A z \in x + 1 .. e[c + 1] : z \in 1 .. Len(w) => w[z] = c + 1
    <3>1. SUFFICES ASSUME NEW z \in x + 1 .. e[c + 1], z \in 1 .. Len(w) PROVE w[z] = c + 1
      OBVIOUS
    <3>2. z \in e[c] + 2 .. e[c + 1]
      BY <2>1, <2>5
    <3> QED
      BY <1>2, <2>5, <3>1, <3>2, WireUnits DEF w, e, N
  <2>8. CASE e[c + 1] < m
    <3> DEFINE y == e[c + 1]
    <3>1. c \in 0 .. N - 2
      <4>1. c + 1 # N
        BY <1>1, <1>2, <2>5, <2>8
      <4> QED
        BY <1>2, <2>5, <4>1
    <3>2. w[y + 1] = 0
      <4>1. c + 1 \in 1 .. N /\ y + 1 \in 1 .. Len(w)
        BY <1>1, <1>2, <2>1, <2>5, <2>8
      <4> QED
        BY <1>2, <4>1, WireUnits DEF w, e, N
    <3>3. end = y + 1 - n
      <4> DEFINE newlines == {i \in from .. Len(data) : data[i] = 0} \cup {Len(data) + 1}
      <4>1. y + 1 - n \in newlines
        <5>1. /\ m \in Int /\ n \in Int /\ x \in Int /\ from \in Int /\ y \in Int
              /\ 1 <= from /\ from = x - n + 1 /\ x <= y /\ y < m
          BY <1>1, <2>1, <2>5, <2>8
        <5>2. y + 1 - n \in from .. m - n /\ y + 1 - n \in 1 .. m - n /\ n + (y + 1 - n) = y + 1
          <6> HIDE DEF y
          <6> QED
            BY <5>1
        <5> QED
          BY <1>1, <3>2, <5>2
      <4>2. newlines \subseteq Int
        BY <1>1, <2>1
      <4>3. ASSUME NEW i \in newlines PROVE y + 1 - n <= i
        <5>1. CASE i = Len(data) + 1
          BY <1>1, <2>1, <2>5, <2>8, <5>1
        <5>2. CASE i \in from .. m - n /\ data[i] = 0
          <6>1. /\ m \in Int /\ n \in Int /\ i \in Int /\ x \in Int /\ from \in Int
                /\ 1 <= from /\ from <= i /\ i <= m - n /\ from = x - n + 1
            BY <1>1, <2>1, <5>2
          <6>2. i \in 1 .. m - n /\ n + i \in x + 1 .. m
            BY <6>1
          <6>3. i \in 1 .. m - n /\ w[n + i] = 0 /\ n + i \in x + 1 .. m /\ i \in Int
            BY <1>1, <5>2, <6>1, <6>2
          <6>4. n + i \in 1 .. Len(w)
            <7>1. m \in Int /\ Len(w) \in Int /\ m <= Len(w) /\ i \in 1 .. m - n
              BY <1>1, <1>2, <6>3
            <7> QED
              BY <7>1, UnitInWire
          <6>5. c + 1 # 0
            BY <2>5
          <6>6. n + i \notin x + 1 .. e[c + 1]
            BY <2>7, <6>3, <6>4, <6>5
          <6> QED
            BY <2>1, <2>5, <6>3, <6>6
        <5> QED
          BY <1>1, <5>1, <5>2
      <4>4. end = Min(newlines)
        BY DEF NextNewline
      <4> HIDE DEF newlines, end
      <4> QED
        BY <4>1, <4>2, <4>3, <4>4, MinIs
    <3>4. end <= m - n /\ y \in x .. m /\ end - 1 = y - n /\ end + 1 \in Nat /\ y + 1 \in Nat /\ end >= from
          /\ end \in Int
      <4> HIDE DEF end, y
      <4>1. y \in Int /\ x <= y /\ y < m
        BY <2>5, <2>8 DEF y
      <4> QED
        BY <1>1, <2>1, <3>3, <4>1
    <3>5. text = SubSeq(w, x + 1, y)
      BY <2>6, <3>4
    <3>6. Reads(a, q, y + 1, c + 1) /\ q.decoded = p.decoded
      <4>1. q = ReadSegment(a, p, SubSeq(w, x + 1, y), TRUE)
        BY <3>4, <3>5
      <4> HIDE DEF q
      <4> QED
        BY <2>3, <3>1, <4>1, LineRead DEF e, w, N
    <3>7. InChunk(n, m, end + 1) = y + 1
      <4> HIDE DEF end, y
      <4>1. y \in Int /\ x <= y /\ y < m
        BY <2>5, <2>8 DEF y
      <4>2. end + 1 > m - n => m = y + 1
        BY <1>1, <2>1, <3>3, <3>4, <4>1
      <4>3. n + (end + 1) - 1 = y + 1
        BY <1>1, <2>1, <3>3, <4>1
      <4> QED
        BY <4>2, <4>3 DEF InChunk
    <3>8. c + 1 \in 0 .. N /\ next.from = end + 1 /\ next.parser = q /\ end + 1 \in Nat \ {0}
          /\ end + 1 > from
      <4> HIDE DEF q, end, y
      <4> QED
        BY <1>2, <2>1, <2>2, <3>1, <3>4
    <3> HIDE DEF q, end, y
    <3> QED
      BY <2>3, <3>6, <3>7, <3>8 DEF IsTurn, next, data, w, from, N
  <2>9. CASE ~ (e[c + 1] < m)
    <3>1. end = m - n + 1
      <4> DEFINE newlines == {i \in from .. Len(data) : data[i] = 0} \cup {Len(data) + 1}
      <4>1. newlines = {m - n + 1}
        <5>1. ASSUME NEW i \in from .. m - n, data[i] = 0 PROVE FALSE
          <6> DEFINE y == e[c + 1]
          <6>1. /\ m \in Int /\ n \in Int /\ i \in Int /\ x \in Int /\ y \in Int /\ from \in Int
                /\ 1 <= from /\ from <= i /\ i <= m - n /\ from = x - n + 1 /\ ~ (y < m)
            BY <1>1, <2>1, <2>5, <2>9, <5>1
          <6> HIDE DEF y
          <6>2. i \in 1 .. m - n /\ n + i \in x + 1 .. y
            BY <6>1
          <6>3. i \in 1 .. m - n /\ w[n + i] = 0 /\ n + i \in x + 1 .. e[c + 1]
            BY <1>1, <5>1, <6>2 DEF y
          <6>4. n + i \in 1 .. Len(w)
            <7>1. m \in Int /\ Len(w) \in Int /\ m <= Len(w) /\ i \in 1 .. m - n
              BY <1>1, <1>2, <6>3
            <7> QED
              BY <7>1, UnitInWire
          <6>5. c + 1 # 0
            BY <2>5
          <6> QED
            BY <2>7, <6>3, <6>4, <6>5
        <5> QED
          BY <1>1, <5>1
      <4>2. end = Min(newlines)
        BY DEF NextNewline
      <4>3. m - n + 1 \in newlines /\ newlines \subseteq Int /\ \A i \in newlines : m - n + 1 <= i
        <5>1. m - n + 1 \in Int
          BY <1>1
        <5> HIDE DEF newlines
        <5> QED
          BY <4>1, <5>1
      <4> HIDE DEF newlines, end
      <4>4. Min(newlines) = m - n + 1
        BY <4>3, MinIs
      <4> QED
        BY <4>2, <4>4
    <3>2. ~ (end <= m - n) /\ m \in x .. e[c + 1] /\ m \in x .. m /\ end - 1 = m - n /\ end + 1 \in Nat \ {0}
          /\ end + 1 > from /\ end + 1 > m - n
      <4> HIDE DEF end
      <4>1. m \in x .. e[c + 1] /\ m \in x .. m
        <5> DEFINE y == e[c + 1]
        <5>1. m \in Int /\ x \in Int /\ x < m
          BY <1>1, <2>1
        <5>2. y \in Int /\ ~ (y < m)
          BY <2>5, <2>9
        <5> HIDE DEF y
        <5>3. m \in x .. y /\ m \in x .. m
          BY <5>1, <5>2
        <5> QED
          BY <5>3 DEF y
      <4>2. m - n \in Nat /\ from \in 1 .. m - n
        BY <1>1, <2>1
      <4>3. ~ (end <= m - n) /\ end - 1 = m - n /\ end + 1 \in Nat \ {0} /\ end + 1 > from
            /\ end + 1 > m - n
        <5> DEFINE room == m - n
        <5>1. room \in Nat /\ from \in 1 .. room /\ end = room + 1
          BY <3>1, <4>2
        <5> HIDE DEF room
        <5>2. ~ (end <= room) /\ end - 1 = room /\ end + 1 \in Nat \ {0} /\ end + 1 > from
              /\ end + 1 > room
          BY <5>1
        <5> QED
          BY <5>2 DEF room
      <4> QED
        BY <4>1, <4>3
    <3>3. text = SubSeq(w, x + 1, m)
      BY <2>6, <3>2
    <3>4. Reads(a, q, m, c) /\ q.decoded = p.decoded
      <4> DEFINE whole == end <= m - n
      <4>1. whole = FALSE
        BY <3>2
      <4>2. q = ReadSegment(a, p, text, whole)
        OBVIOUS
      <4> HIDE DEF whole, text, q
      <4>3. q = ReadSegment(a, p, SubSeq(w, x + 1, m), FALSE)
        BY <3>3, <4>1, <4>2
      <4>4. c \in 0 .. Len(a.body) - 1 /\ m \in x .. Ends(a.body)[c + 1]
        BY <2>5, <3>2 DEF e, N
      <4> QED
        <5>1. PartReads(a, p, x, c, m)
          BY <2>3, <4>4, PartRead
        <5> QED
          BY <4>3, <5>1 DEF PartReads, w
    <3>5. InChunk(n, m, end + 1) = m
      BY <3>2 DEF InChunk
    <3>6. next.from = end + 1 /\ next.parser = q
      BY <2>2
    <3> HIDE DEF q, end
    <3> QED
      BY <2>3, <3>2, <3>4, <3>5, <3>6 DEF IsTurn, next, data, w, from, N
  <2> QED
    BY <2>8, <2>9
<1> QED
  BY <1>3, <1>4

(* A parser of a stream that was given its first n units.                  *)
Streamed(a, p, n) ==
  /\ n \in Nat /\ p.decoded = n
  /\ \E c \in 0 .. Len(a.body) : Reads(a, p, n, c)

IsStream(a) == IsAnswer(a) /\ a.stream /\ ~IsTTSEndpoint(a.endpoint)

LEMMA ParsedReads ==
  ASSUME NEW a, IsStream(a), NEW p, NEW n \in Nat,
         NEW m \in n .. Len(Wire(a.body)), NEW c \in 0 .. Len(a.body), Reads(a, p, n, c)
  PROVE  LET q == Parsed(a, p, SubSeq(Wire(a.body), n + 1, m))
         IN  \E d \in 0 .. Len(a.body) : Reads(a, q, m, d) /\ q.decoded = p.decoded
<1> DEFINE data == SubSeq(Wire(a.body), n + 1, m)
           q == Parsed(a, p, data)
           N == Len(data)
<1>1. /\ m \in Nat /\ N = m - n /\ N \in Nat /\ DOMAIN data = 1 .. N
      /\ IsAnswer(a) /\ a.stream /\ ~IsTTSEndpoint(a.endpoint)
  BY ChunkFacts DEF IsStream
<1>2. PICK g : IsTurns(g, a, p, data)
  <2> HIDE DEF data
  <2> QED
    BY <1>1, TurnsOfLoop
<1> DEFINE S == {j \in 0 .. N : IsTurn(a, g[j], n, m, p.decoded) /\ g[j].from > j}
<1>3. 0 \in S
  <2>1. g[0] = [parser |-> p, from |-> 1]
    BY <1>2 DEF IsTurns
  <2>2. g[0].from = 1 /\ g[0].parser = p
    BY <2>1
  <2>3. InChunk(n, m, 1) = n
    BY <1>1 DEF InChunk
  <2>4. IsTurn(a, g[0], n, m, p.decoded)
    BY <2>2, <2>3 DEF IsTurn
  <2> QED
    BY <1>1, <2>2, <2>4
<1>4. ASSUME NEW j \in 0 .. N - 1, j \in S
      PROVE  j + 1 \in S
  <2>1. j + 1 \in 1 .. N /\ (j + 1) - 1 = j /\ j + 1 \in 0 .. N /\ j \in Nat
    BY <1>1
  <2>2. g[j + 1] = ReadNext(a, data, g[j])
    <3> HIDE DEF data, N
    <3>1. g[j + 1] = ReadNext(a, data, g[(j + 1) - 1])
      BY <1>2, <2>1 DEF IsTurns, N
    <3> QED
      BY <2>1, <3>1
  <2>3. IsTurn(a, g[j], n, m, p.decoded) /\ g[j].from > j /\ g[j].from \in Nat
    BY <1>4 DEF IsTurn
  <2> DEFINE t == g[j]
             next == g[j + 1]
  <2>4. IsTurn(a, next, n, m, p.decoded) /\ (next.from > t.from \/ (next = t /\ t.from > m - n))
    <3>1. next = ReadNext(a, SubSeq(Wire(a.body), n + 1, m), t) /\ IsTurn(a, t, n, m, p.decoded)
      BY <2>2, <2>3
    <3> HIDE DEF next, t
    <3> QED
      BY <1>1, <3>1, TurnReads
  <2>5. next.from \in Nat
    BY <2>4 DEF IsTurn
  <2>6. next.from > j + 1
    <3> HIDE DEF N
    <3>1. t.from > j /\ t.from \in Nat /\ j < m - n
      BY <1>1, <2>1, <2>3
    <3> HIDE DEF next, t
    <3> QED
      BY <1>1, <2>1, <2>4, <2>5, <3>1
  <2> HIDE DEF N
  <2> QED
    BY <2>1, <2>4, <2>6
<1>5. N \in S
  <2> HIDE DEF S, N
  <2>1. 0 .. N \subseteq S
    BY <1>1, <1>3, <1>4, UpTo
  <2> QED
    BY <1>1, <2>1
<1>6. IsTurn(a, g[N], n, m, p.decoded) /\ g[N].from > m - n
  BY <1>1, <1>5
<1>7. q = g[N].parser
  BY <1>2 DEF IsTurns
<1>8. InChunk(n, m, g[N].from) = m
  <2> HIDE DEF N
  <2> QED
    BY <1>6 DEF InChunk
<1> HIDE DEF N, q
<1> QED
  BY <1>6, <1>7, <1>8 DEF IsTurn, q

LEMMA WriteIs ==
  ASSUME NEW a, NEW p, NEW data
  PROVE  Write(a, p, data) = Parsed(a, [p EXCEPT !.decoded = @ + Len(data)], data)
<1> DEFINE After(d) == Parsed(a, [p EXCEPT !.decoded = @ + Len(d)], d)
<1>1. Write(a, p, data) = CHOOSE next \in {After(d) : d \in {data}} : TRUE
  BY DEF Write
<1> HIDE DEF After
<1>2. {After(d) : d \in {data}} = {After(data)}
  OBVIOUS
<1>3. Write(a, p, data) = After(data)
  BY <1>1, <1>2
<1> QED
  BY <1>3 DEF After

LEMMA StreamWritten ==
  ASSUME NEW a, IsStream(a), NEW p, NEW n, Streamed(a, p, n), NEW m \in n .. Len(Wire(a.body))
  PROVE  Streamed(a, Write(a, p, SubSeq(Wire(a.body), n + 1, m)), m)
<1> DEFINE data == SubSeq(Wire(a.body), n + 1, m)
           counted == [p EXCEPT !.decoded = @ + Len(data)]
           q == Parsed(a, counted, data)
<1>1. PICK c \in 0 .. Len(a.body) : Reads(a, p, n, c)
  BY DEF Streamed
<1>2. n \in Nat /\ p.decoded = n /\ IsAnswer(a)
  BY DEF Streamed, IsStream
<1>3. m \in Nat /\ Len(data) = m - n
  BY <1>2, ChunkFacts
<1>4. IsParser(p) /\ HasRead(a, p, Lines(a, c)) /\ Holds(p, c + 1, n - Ends(a.body)[c] - 1)
  BY <1>1 DEF Reads, HasRead
<1>5. PICK x : x = counted
  OBVIOUS
<1> HIDE DEF data
<1>6. /\ x.pending = p.pending /\ x.dropping = p.dropping /\ x.obs = p.obs /\ IsParser(x)
      /\ x.sawUsage = p.sawUsage /\ x.sawNonZero = p.sawNonZero
  BY <1>4, <1>5 DEF IsParser
<1>7. x.decoded = m
  BY <1>2, <1>3, <1>4, <1>5 DEF IsParser
<1>8. HasRead(a, x, Lines(a, c))
  BY <1>4, <1>6 DEF HasRead
<1>9. Holds(x, c + 1, n - Ends(a.body)[c] - 1)
  BY <1>4, <1>6 DEF Holds
<1>10. Reads(a, x, n, c)
  BY <1>1, <1>8, <1>9 DEF Reads
<1>11. PICK d \in 0 .. Len(a.body) : Reads(a, q, m, d) /\ q.decoded = x.decoded
  <2>1. \E d \in 0 .. Len(a.body) :
          /\ Reads(a, Parsed(a, x, SubSeq(Wire(a.body), n + 1, m)), m, d)
          /\ Parsed(a, x, SubSeq(Wire(a.body), n + 1, m)).decoded = x.decoded
    BY <1>2, <1>10, ParsedReads
  <2>2. Parsed(a, x, data) = q
    BY <1>5
  <2> HIDE DEF q
  <2> QED
    BY <2>1, <2>2 DEF data
<1>12. Write(a, p, data) = q
  BY WriteIs
<1> HIDE DEF q
<1> QED
  BY <1>3, <1>7, <1>11, <1>12 DEF Streamed, data

LEMMA StreamStarts ==
  ASSUME NEW a, IsStream(a)
  PROVE  Streamed(a, NewParser, 0)
<1> DEFINE p == NewParser
           e == Ends(a.body)
<1>1. /\ IsAnswer(a) /\ Len(a.body) \in Nat /\ IsBody(a.body)
      /\ e \in [0 .. Len(a.body) -> Int] /\ e[0] = -1
      /\ \A k \in 1 .. Len(a.body) : e[k] = e[k - 1] + 1 + a.body[k].size /\ a.body[k].size \in Nat
  BY AnswerBody, EndsFacts DEF IsStream
<1>2. At(a.body, 0, 0)
  <2>1. 0 < Len(a.body) => 0 <= e[0 + 1]
    <3>1. SUFFICES ASSUME 0 < Len(a.body) PROVE 0 <= e[0 + 1]
      OBVIOUS
    <3>2. 1 \in 1 .. Len(a.body) /\ 1 - 1 = 0 /\ 0 + 1 = 1
      BY <1>1, <3>1
    <3>3. e[1] = e[1 - 1] + 1 + a.body[1].size /\ a.body[1].size \in Nat
      BY <1>1, <3>2
    <3> QED
      BY <1>1, <3>2, <3>3
  <2> QED
    BY <1>1, <2>1 DEF At
<1>3. Lines(a, 0) = {}
  BY DEF Lines
<1>4. /\ IsParser(p) /\ p.obs = NoObservation /\ p.sawUsage = FALSE /\ p.sawNonZero = FALSE
      /\ p.pending = << >> /\ p.dropping = FALSE /\ p.decoded = 0
  BY DEF NewParser, IsParser
<1>5. HasRead(a, p, {})
  <2> DEFINE usages == WithUsage(a, {})
  <2>1. /\ usages = {} /\ Counted(a, {}) = {} /\ StartOrDelta(a, {}) = {} /\ Inputs(a, {}) = {}
    BY DEF WithUsage, Counted, StartOrDelta, Inputs
  <2>2. /\ \A kinds : ~ Has(a, {}, kinds) /\ Has(a, {}, kinds) = FALSE
    BY HasBoolean DEF Has
  <2>3. \A kinds : Text(a, {}, kinds) = 0
    <3>1. a.body \in Seq(Range(a.body)) /\ \A k \in DOMAIN a.body : a.body[k].weight \in Nat
      BY <1>1 DEF IsAnswer, IsEvent
    <3> QED
      BY <3>1, TextFacts
  <2>4. TokensOf(a, {}) = NoTokens /\ [NoTokens EXCEPT !.response = NoTokens.response] = NoTokens
    BY DEF TokensOf, NoTokens
  <2>5. Observation(NoTokens, FALSE, FALSE, 0) = NoObservation
    BY DEF Observation, NoObservation
  <2>6. ObservedOfChat(a, {}, FALSE) = NoObservation
    BY <2>1, <2>2, <2>3, <2>4, <2>5 DEF ObservedOfChat
  <2>7. ObservedOfResponses(a, {}) = NoObservation
    <3> DEFINE ends == {"completed", "incomplete", "failed"}
    <3>1. Has(a, {}, ends) = FALSE /\ Has(a, {}, {"error", "failed"}) = FALSE
      BY <2>2, Zenon
    <3>2. Text(a, {}, {"delta"}) = 0 /\ TokensOf(a, usages) = NoTokens
      BY <2>1, <2>3, <2>4, Zenon
    <3> QED
      BY <2>1, <2>5, <3>1, <3>2, Zenon DEF ObservedOfResponses
  <2>8. ObservedOfAnthropic(a, {}) = NoObservation
    <3>1. Has(a, {}, {"delta"}) = FALSE /\ Has(a, {}, {"error"}) = FALSE
      BY <2>2, Zenon
    <3>2. /\ Text(a, {}, {"content"}) = 0
          /\ [TokensOf(a, {}) EXCEPT !.response = TokensOf(a, {}).response] = NoTokens
      BY <2>3, <2>4, Zenon
    <3> QED
      BY <2>1, <2>5, <3>1, <3>2, Zenon DEF ObservedOfAnthropic
  <2>9. /\ [ChatReference(a, {}, FALSE) EXCEPT !.final = FALSE] = NoObservation
        /\ ResponsesReference(a, {}) = NoObservation /\ AnthropicReference(a, {}) = NoObservation
    BY <2>6, <2>7, <2>8, References
  <2> HIDE DEF p
  <2> QED
    BY <1>4, <2>1, <2>9 DEF HasRead
<1> HIDE DEF p
<1>6. Holds(p, 0 + 1, 0 - e[0] - 1)
  <2>1. 0 - e[0] - 1 = 0 /\ (0 > MaxEventSize) = FALSE /\ 0 + 1 \in Nat
    BY <1>1, ParserAssumption
  <2>2. Run(0 + 1, 0) = << >>
    BY <2>1, RunFacts
  <2>3. Holds(p, 0 + 1, 0)
    <3> DEFINE long == 0 > MaxEventSize
    <3>1. long = FALSE
      BY <2>1
    <3>2. Holds(p, 0 + 1, 0) <=> /\ p.dropping = long
                                 /\ p.pending = IF long THEN << >> ELSE Run(0 + 1, 0)
      BY DEF Holds
    <3> HIDE DEF long
    <3> QED
      BY <1>4, <2>2, <3>1, <3>2
  <2> HIDE DEF e
  <2> QED
    BY <2>1, <2>3
<1>7. Reads(a, p, 0, 0)
  BY <1>2, <1>3, <1>5, <1>6 DEF Reads
<1> QED
  BY <1>1, <1>4, <1>7 DEF Streamed, p

(* The line that the end of the body or of the client ends is read too.    *)
LEMMA LastLineRead ==
  ASSUME NEW a, IsStream(a), NEW p, NEW n, Streamed(a, p, n)
  PROVE  HasRead(a, IF p.dropping THEN p ELSE ReadLine(a, p, p.pending), Whole(a, n))
<1> DEFINE e == Ends(a.body)
           N == Len(a.body)
           last == IF p.dropping THEN p ELSE ReadLine(a, p, p.pending)
<1>1. PICK c \in 0 .. N : Reads(a, p, n, c)
  BY DEF Streamed
<1> DEFINE l == n - e[c] - 1
           k == c + 1
<1>2. At(a.body, n, c) /\ HasRead(a, p, Lines(a, c)) /\ Holds(p, k, l)
  BY <1>1 DEF Reads
<1>3. IsAnswer(a) /\ IsBody(a.body) /\ N \in Nat /\ DOMAIN a.body = 1 .. N /\ MaxEventSize \in Nat
  BY AnswerBody, ParserAssumption DEF IsStream
<1>4. e \in [0 .. N -> Int] /\ \A j \in 1 .. N : e[j] = e[j - 1] + 1 + a.body[j].size
  BY <1>3, EndsFacts
<1>5. \A i, j \in 0 .. N : i < j => e[i] < e[j]
  BY <1>3, EndsRise
<1>6. n \in Nat /\ e[c] \in Int /\ e[c] < n /\ c \in Nat /\ l \in Nat
  BY <1>2, <1>3, <1>4 DEF At
<1>7. \A j \in 1 .. c : e[j] <= n
  <2>1. SUFFICES ASSUME NEW j \in 1 .. c PROVE e[j] <= n
    OBVIOUS
  <2>2. j \in 0 .. N /\ e[j] \in Int /\ (j = c \/ j < c)
    <3> HIDE DEF e, N
    <3>1. j \in 0 .. N /\ (j = c \/ j < c)
      BY <1>3, <1>6
    <3> QED
      BY <1>4, <3>1
  <2> HIDE DEF e, N
  <2> QED
    BY <1>5, <1>6, <2>2
<1> HIDE DEF e
<1>8. CASE c = N
  <2>1. n = 0 /\ l = 0
    <3>1. N = 0
      <4>1. SUFFICES ASSUME N > 0 PROVE FALSE
        BY <1>3
      <4>2. 0 \in 0 .. N /\ e[0] = -1 /\ e[0] < e[N] /\ n = 0
        BY <1>2, <1>3, <1>5, <1>8, <4>1, EndsFacts DEF At, e
      <4> HIDE DEF N
      <4> QED
        BY <1>6, <1>8, <4>2
    <3>2. e[0] = -1 /\ n = 0
      BY <1>2, <1>3, <1>8, EndsFacts DEF At, e
    <3> QED
      BY <1>8, <3>1, <3>2
  <2>2. p.dropping = FALSE /\ p.pending = << >>
    <3> DEFINE long == 0 > MaxEventSize
    <3>1. long = FALSE
      BY <1>3
    <3> HIDE DEF l
    <3>2. p.dropping = long /\ p.pending = IF long THEN << >> ELSE Run(k, 0)
      BY <1>2, <2>1 DEF Holds
    <3> HIDE DEF long
    <3>3. Run(k, 0) = << >>
      BY <1>6, RunFacts
    <3> QED
      BY <3>1, <3>2, <3>3
  <2>3. last = p
    BY <2>2 DEF ReadLine
  <2>4. Whole(a, n) = Lines(a, c)
    BY <1>3, <1>7, <1>8 DEF Whole, Lines, e
  <2> QED
    BY <1>2, <2>3, <2>4
<1>9. CASE c # N
  <2> DEFINE size == a.body[k].size
  <2>1. k \in 1 .. N /\ k \in 0 .. N /\ k - 1 = c /\ size \in Nat /\ k \in DOMAIN a.body
        /\ c < N /\ k \in Nat
    <3>1. k \in 1 .. N /\ c < N
      BY <1>3, <1>6, <1>9
    <3> QED
      BY <1>3, <3>1, AnswerBody
  <2>2. e[k] = e[c] + 1 + size /\ n <= e[k] /\ e[k] \in Int
    BY <1>2, <1>4, <2>1 DEF At, e
  <2> HIDE DEF k, size
  <2>3. l \in 0 .. size /\ (l = size <=> n = e[k])
    <3> DEFINE u == e[c]
               z == e[k]
    <3>1. u \in Int /\ n \in Int /\ size \in Int /\ z = u + 1 + size /\ n <= z /\ l = n - u - 1
      BY <1>6, <2>1, <2>2
    <3> HIDE DEF u, z, l
    <3>2. l <= size
      BY <3>1
    <3>3. l = size => n = z
      BY <3>1
    <3>4. n = z => l = size
      BY <3>1
    <3> USE DEF z
    <3> QED
      BY <1>6, <2>1, <3>2, <3>3, <3>4
  <2>4. \A j \in 1 .. N : e[j] <= n <=> j <= c \/ (j = k /\ l = size)
    <3>1. SUFFICES ASSUME NEW j \in 1 .. N PROVE e[j] <= n <=> j <= c \/ (j = k /\ l = size)
      OBVIOUS
    <3>2. j \in 0 .. N /\ e[j] \in Int /\ (j \in 1 .. c \/ j = k \/ k < j) /\ ~ (k <= c)
      <4> HIDE DEF N
      <4>1. j \in 0 .. N /\ j \in Int /\ k = c + 1
        BY <1>3 DEF k
      <4>2. (j \in 1 .. c \/ j = k \/ k < j) /\ ~ (k <= c)
        BY <1>3, <1>6, <4>1
      <4> QED
        BY <1>4, <4>1, <4>2 DEF e
    <3>3. CASE j \in 1 .. c
      BY <1>7, <3>3
    <3>4. CASE j = k
      BY <1>6, <2>2, <2>3, <3>2, <3>4
    <3>5. CASE k < j
      <4>1. e[k] < e[j]
        BY <1>5, <2>1, <3>2, <3>5
      <4>2. ~ (e[j] <= n) /\ ~ (j <= c) /\ j # k
        <5>1. ~ (e[j] <= n)
          BY <1>6, <2>2, <3>2, <4>1
        <5>2. j \in Int /\ ~ (j <= c) /\ j # k
          BY <1>6, <2>1, <3>5 DEF k
        <5> QED
          BY <5>1, <5>2
      <4> QED
        BY <4>2
    <3> QED
      BY <3>2, <3>3, <3>4, <3>5
  <2>5. Whole(a, n) = IF l = size /\ size \in 1 .. MaxEventSize THEN Lines(a, c) \cup {k}
                      ELSE Lines(a, c)
    <3>1. \A j : j \in Whole(a, n) <=>
                   j \in 1 .. N /\ a.body[j].size \in 1 .. MaxEventSize /\ e[j] <= n
      BY <1>3 DEF Whole, e
    <3>2. \A j : j \in Lines(a, c) <=> j \in 1 .. N /\ j <= c /\ a.body[j].size \in 1 .. MaxEventSize
      BY <1>3, <1>6, <2>1 DEF Lines
    <3>3. \A j : j \in Whole(a, n) <=>
                   j \in Lines(a, c) \/ (j = k /\ l = size /\ size \in 1 .. MaxEventSize)
      BY <2>1, <2>4, <3>1, <3>2 DEF size
    <3> HIDE DEF l
    <3> QED
      BY <3>3
  <2>6. Lines(a, c) \in SUBSET (1 .. k - 1)
    BY <1>6, <2>1 DEF Lines
  <2> HIDE DEF l
  <2>7. CASE l > MaxEventSize
    <3>1. last = p
      BY <1>2, <2>7 DEF Holds
    <3>2. Whole(a, n) = Lines(a, c)
      <4>1. ~ (l = size /\ size \in 1 .. MaxEventSize)
        BY <1>3, <1>6, <2>7
      <4> QED
        BY <2>5, <4>1
    <3> QED
      BY <1>2, <3>1, <3>2
  <2>8. CASE ~ (l > MaxEventSize)
    <3>1. last = ReadLine(a, p, Run(k, l))
      BY <1>2, <2>8 DEF Holds
    <3> DEFINE some == Lines(a, c)
    <3> HIDE DEF last, some
    <3>2. l \in 0 .. a.body[k].size
      BY <2>3 DEF size
    <3>3. HasRead(a, last, IF l = size /\ l > 0 THEN some \cup {k} ELSE some)
      BY <1>2, <1>3, <2>1, <2>6, <3>1, <3>2, LineReads DEF some, size
    <3>4. Whole(a, n) = IF l = size /\ l > 0 THEN some \cup {k} ELSE some
      <4>1. l = size => (size \in 1 .. MaxEventSize <=> l > 0)
        BY <1>3, <1>6, <2>1, <2>8
      <4> QED
        BY <2>5, <4>1 DEF some
    <3> QED
      BY <3>3, <3>4 DEF last
  <2> QED
    BY <2>7, <2>8
<1> QED
  BY <1>8, <1>9

LEMMA StreamObserved ==
  ASSUME NEW a, IsStream(a), NEW p, NEW n, Streamed(a, p, n), NEW complete \in BOOLEAN
  PROVE  Finish(a, p, complete) = Reference(a, n, complete)
<1> DEFINE last == IF p.dropping THEN p ELSE ReadLine(a, p, p.pending)
           events == Whole(a, n)
           stream == a.endpoint \in {"responses", "anthropic"}
           final == last.sawNonZero \/ (last.sawUsage /\ complete)
           counted == Counted(a, events) # {} \/ (WithUsage(a, events) # {} /\ complete)
<1>1. HasRead(a, last, events)
  BY LastLineRead
<1>2. Finish(a, p, complete) = IF stream THEN last.obs ELSE [last.obs EXCEPT !.final = final]
  BY DEF Finish, FinishStream, IsStream
<1>3. /\ a.endpoint = "responses" => Reference(a, n, complete) = ResponsesReference(a, events)
      /\ a.endpoint = "anthropic" => Reference(a, n, complete) = AnthropicReference(a, events)
      /\ ~stream => Reference(a, n, complete) = ChatReference(a, events, complete)
  BY DEF Reference, IsStream
<1> HIDE DEF last, events
<1>4. CASE stream
  BY <1>1, <1>2, <1>3, <1>4 DEF HasRead
<1>5. CASE ~stream
  <2>1. /\ last.obs = ObservedOfChat(a, events, FALSE)
        /\ last.sawUsage = (WithUsage(a, events) # {})
        /\ last.sawNonZero = (Counted(a, events) # {})
    BY <1>1, <1>5, References DEF HasRead
  <2>2. final = counted
    BY <2>1
  <2>3. ChatReference(a, events, complete) = ObservedOfChat(a, events, counted)
    BY References
  <2>4. PICK o : o = last.obs
    OBVIOUS
  <2> HIDE DEF final, counted
  <2>5. [o EXCEPT !.final = counted] = ObservedOfChat(a, events, counted)
    BY <2>1, <2>4 DEF ObservedOfChat, Observation
  <2> QED
    BY <1>2, <1>3, <1>5, <2>2, <2>3, <2>4, <2>5
<1> QED
  BY <1>4, <1>5

----------------------------------------------------------------------------
(* An answer that is one JSON document, and that of a speech provider.     *)

IsDocument(a) == IsAnswer(a) /\ ~a.stream /\ ~IsTTSEndpoint(a.endpoint)

Buffers(a, p, n) ==
  /\ n \in Nat /\ p.decoded = n /\ IsParser(p) /\ p.truncated \in BOOLEAN
  /\ Len(p.pending) <= MaxEventSize
  /\ p.truncated => n > MaxEventSize
  /\ ~p.truncated => p.pending = SubSeq(Wire(a.body), 1, n) /\ n <= MaxEventSize

LEMMA DocumentFacts ==
  ASSUME NEW a, IsAnswer(a), ~a.stream
  PROVE  /\ a.body = << >> => Len(Wire(a.body)) = 0
         /\ a.body # << >> =>
              /\ Len(a.body) = 1 /\ 1 \in DOMAIN a.body /\ DOMAIN a.body = {1}
              /\ a.body[1].size \in Nat \ {0} /\ IsEvent(a.body[1])
              /\ Len(Wire(a.body)) = a.body[1].size /\ Wire(a.body) = Line(a.body, 1)
              /\ Ends(a.body)[1] = a.body[1].size
<1> DEFINE w == Wire(a.body)
           size == a.body[1].size
<1>1. /\ IsBody(a.body) /\ Len(a.body) \in Nat /\ DOMAIN a.body = 1 .. Len(a.body)
      /\ Len(a.body) <= 1 /\ (a.body = << >> <=> Len(a.body) = 0)
      /\ \A k \in DOMAIN a.body : a.body[k].size > 0 /\ a.body[k].size \in Nat /\ IsEvent(a.body[k])
  BY AnswerBody DEF IsAnswer
<1>2. CASE a.body = << >>
  BY <1>1, <1>2, WireLength
<1>3. CASE a.body # << >>
  <2>1. Len(a.body) = 1 /\ 1 \in DOMAIN a.body /\ DOMAIN a.body = {1}
    <3> DEFINE N == Len(a.body)
    <3>1. N \in Nat /\ N # 0 /\ N <= 1
      BY <1>1, <1>3
    <3> HIDE DEF N
    <3>2. N = 1 /\ 1 .. 1 = {1}
      BY <3>1
    <3> QED
      BY <1>1, <3>2 DEF N
  <2>2. size \in Nat \ {0} /\ IsEvent(a.body[1])
    BY <1>1, <2>1
  <2>3. Ends(a.body)[0] = -1 /\ Ends(a.body)[1] = Ends(a.body)[1 - 1] + 1 + size
    BY <1>1, <2>1, EndsFacts
  <2>4. Ends(a.body)[1] = size
    BY <2>2, <2>3
  <2>5. Len(w) = size /\ DOMAIN w = 1 .. size
    <3>1. Len(w) = Ends(a.body)[Len(a.body)] /\ DOMAIN w = 1 .. Len(w)
      <4>1. Len(a.body) > 0
        BY <2>1
      <4> QED
        BY <1>1, <4>1, WireLength, Zenon
    <3> HIDE DEF w, size
    <3> QED
      BY <2>1, <2>4, <3>1
  <2>6. ASSUME NEW i \in 1 .. size
        PROVE  w[i] = 1
    <3>1. i \in 1 .. Len(w) /\ i \in Ends(a.body)[0] + 2 .. Ends(a.body)[0 + 1] /\ 0 \in 0 .. Len(a.body) - 1
      BY <2>1, <2>2, <2>3, <2>4, <2>5
    <3>2. w[i] = 0 + 1
      BY <1>1, <3>1, WireUnits
    <3> QED
      BY <3>2
  <2>7. w = [i \in 1 .. size |-> w[i]]
    <3>1. w = [i \in DOMAIN w |-> w[i]]
      BY DEF Wire
    <3> QED
      BY <2>5, <3>1
  <2>8. w = Line(a.body, 1)
    <3> HIDE DEF w
    <3> QED
      BY <2>6, <2>7 DEF Line
  <2> QED
    BY <1>3, <2>1, <2>2, <2>4, <2>5, <2>8
<1> QED
  BY <1>2, <1>3

LEMMA DocumentStarts ==
  ASSUME NEW a
  PROVE  Buffers(a, NewParser, 0)
<1>1. SubSeq(Wire(a.body), 1, 0) = << >> /\ 0 <= MaxEventSize /\ Len(<< >>) = 0
  BY ParserAssumption
<1> QED
  BY <1>1 DEF Buffers, NewParser, IsParser

LEMMA DocumentWritten ==
  ASSUME NEW a, IsDocument(a), NEW p, NEW n, Buffers(a, p, n), NEW m \in n .. Len(Wire(a.body))
  PROVE  Buffers(a, Write(a, p, SubSeq(Wire(a.body), n + 1, m)), m)
<1> DEFINE w == Wire(a.body)
           data == SubSeq(w, n + 1, m)
           counted == [p EXCEPT !.decoded = @ + Len(data)]
           q == Buffered(a, counted, data)
<1>1. IsAnswer(a) /\ n \in Nat /\ p.decoded = n /\ IsParser(p) /\ MaxEventSize \in Nat
  BY ParserAssumption DEF Buffers, IsDocument
<1>2. m \in Nat /\ Len(data) = m - n /\ m <= Len(w) /\ Len(w) \in Nat /\ m - n \in Nat
  <2>1. Len(w) \in Nat
    BY <1>1, AnswerBody, WireLength
  <2> QED
    BY <1>1, <2>1, ChunkFacts
<1>3. Write(a, p, data) = q
  BY WriteIs DEF Parsed, IsDocument
<1>4. PICK x : x = counted
  OBVIOUS
<1> HIDE DEF data
<1>5. /\ x.pending = p.pending /\ x.truncated = p.truncated /\ IsParser(x)
  BY <1>1, <1>4 DEF IsParser
<1>6. x.decoded = m
  BY <1>1, <1>2, <1>4 DEF IsParser
<1>7. PICK y : y = q
  OBVIOUS
<1>8. CASE p.truncated
  <2>1. y = x
    BY <1>4, <1>5, <1>7, <1>8 DEF Buffered
  <2>2. m > MaxEventSize
    BY <1>1, <1>2, <1>8 DEF Buffers
  <2>3. Buffers(a, y, m)
    BY <1>2, <1>5, <1>6, <1>8, <2>1, <2>2 DEF Buffers
  <2> QED
    BY <1>3, <1>7, <2>3 DEF data
<1>9. CASE ~p.truncated
  <2>1. p.pending = SubSeq(w, 1, n) /\ n <= MaxEventSize
    BY <1>9 DEF Buffers
  <2>2. Len(p.pending) = n
    <3> HIDE DEF w
    <3> QED
      BY <1>1, <1>2, <2>1
  <2>3. CASE n + (m - n) > MaxEventSize
    <3>1. y = [x EXCEPT !.truncated = TRUE]
      BY <1>2, <1>4, <1>5, <1>7, <1>9, <2>2, <2>3 DEF Buffered, IsDocument
    <3>2. /\ y.truncated = TRUE /\ y.decoded = m /\ IsParser(y)
          /\ y.pending = p.pending /\ Len(p.pending) <= MaxEventSize
      BY <1>5, <1>6, <3>1 DEF IsParser, Buffers
    <3>3. m > MaxEventSize
      BY <1>1, <1>2, <2>3
    <3>4. Buffers(a, y, m)
      BY <1>2, <3>2, <3>3 DEF Buffers
    <3> QED
      BY <1>3, <1>7, <3>4 DEF data
  <2>4. CASE ~ (n + (m - n) > MaxEventSize)
    <3>1. y = [x EXCEPT !.pending = @ \o data]
      BY <1>2, <1>4, <1>5, <1>7, <1>9, <2>2, <2>4 DEF Buffered, IsDocument
    <3>2. y.truncated = FALSE /\ y.decoded = m /\ IsParser(y) /\ y.pending = p.pending \o data
      BY <1>5, <1>6, <1>9, <3>1 DEF IsParser, Buffers
    <3>3. p.pending \o data = SubSeq(w, 1, m)
      <4>1. SubSeq(w, 1, n) \o SubSeq(w, n + 1, m) = SubSeq(w, 1, m)
        <5> HIDE DEF w
        <5> QED
          BY <1>1, <1>2
      <4> QED
        BY <2>1, <4>1 DEF data
    <3>4. m <= MaxEventSize
      BY <1>1, <1>2, <2>4
    <3>5. Len(y.pending) <= MaxEventSize
      <4>1. Len(SubSeq(w, 1, m)) = m
        <5> HIDE DEF w
        <5> QED
          BY <1>2
      <4> QED
        BY <3>2, <3>3, <3>4, <4>1
    <3>6. Buffers(a, y, m)
      BY <1>2, <3>2, <3>3, <3>4, <3>5 DEF Buffers
    <3> QED
      BY <1>3, <1>7, <3>6 DEF data
  <2> QED
    BY <2>3, <2>4
<1> QED
  BY <1>8, <1>9

(* What is kept of a body that is no stream is its document exactly when   *)
(* all of it was kept.                                                     *)
LEMMA DocumentKept ==
  ASSUME NEW a, IsAnswer(a), ~a.stream, NEW p, NEW n, Buffers(a, p, n), n <= Len(Wire(a.body))
  PROVE  JSONBody(a, p) =
           IF n # Len(Wire(a.body)) \/ 1 \notin Whole(a, n) \/ a.body[1].kind = "malformed"
           THEN None ELSE a.body[1]
<1> DEFINE w == Wire(a.body)
           size == a.body[1].size
<1>1. n \in Nat /\ MaxEventSize \in Nat
  BY ParserAssumption DEF Buffers
<1>2. CASE a.body = << >>
  <2>1. Whole(a, n) = {}
    BY <1>2 DEF Whole
  <2> QED
    BY <1>2, <2>1 DEF JSONBody
<1>3. CASE a.body # << >>
  <2>1. /\ Len(a.body) = 1 /\ DOMAIN a.body = {1} /\ size \in Nat \ {0}
        /\ Len(w) = size /\ w = Line(a.body, 1) /\ Ends(a.body)[1] = size
    BY <1>3, DocumentFacts
  <2> HIDE DEF w, size
  <2>2. 1 \in Whole(a, n) <=> size \in 1 .. MaxEventSize /\ size <= n
    BY <2>1 DEF Whole, size
  <2>3. CASE p.truncated
    <3>1. n > MaxEventSize /\ n <= size
      BY <2>1, <2>3 DEF Buffers, w
    <3>2. 1 \notin Whole(a, n)
      BY <1>1, <2>1, <2>2, <3>1
    <3> QED
      BY <2>3, <3>2 DEF JSONBody
  <2>4. CASE ~p.truncated
    <3>1. p.pending = SubSeq(w, 1, n) /\ n <= MaxEventSize /\ n <= size
      BY <2>1, <2>4 DEF Buffers, w
    <3>2. Line(a.body, 1) = [i \in 1 .. size |-> 1]
      BY DEF Line, size
    <3>3. p.pending = [i \in 1 .. n |-> 1]
      <4>1. SubSeq(w, 1, n) = [i \in 1 .. n |-> w[i]]
        BY <1>1
      <4>2. \A i \in 1 .. n : i \in 1 .. size
        BY <1>1, <2>1, <3>1
      <4> QED
        BY <2>1, <3>1, <3>2, <4>1, <4>2
    <3>4. p.pending = Line(a.body, 1) <=> n = size
      <4>1. Len(p.pending) = n
        BY <1>1, <3>3
      <4>2. Len(Line(a.body, 1)) = size
        BY <2>1, <3>2
      <4> QED
        BY <3>2, <3>3, <4>1, <4>2
    <3>5. n # Len(w) \/ 1 \notin Whole(a, n) <=> n # size
      BY <1>1, <2>1, <2>2, <3>1
    <3> QED
      BY <1>3, <2>4, <3>4, <3>5 DEF JSONBody, w
  <2> QED
    BY <2>3, <2>4
<1> QED
  BY <1>2, <1>3

LEMMA DocumentObserved ==
  ASSUME NEW a, IsDocument(a), NEW p, NEW n, Buffers(a, p, n), n <= Len(Wire(a.body)),
         NEW complete \in BOOLEAN
  PROVE  Finish(a, p, complete) = Reference(a, n, complete)
<1> DEFINE event == JSONBody(a, p)
           tokens == extract(a, event.usage)
           all == n = Len(Wire(a.body))
           cut == n # Len(Wire(a.body)) \/ 1 \notin Whole(a, n) \/ a.body[1].kind = "malformed"
           usages == WithUsage(a, {1})
<1>1. event = IF cut THEN None ELSE a.body[1]
  BY DocumentKept DEF IsDocument
<1>2. Finish(a, p, complete) =
        IF event = None THEN NoObservation
        ELSE [NoObservation EXCEPT !.errored = event.kind = "error", !.final = tokens # None,
                                   !.tokens = Or(tokens, NoTokens), !.weight = event.weight]
  BY DEF Finish, FinishJSON, IsDocument
<1>3. Reference(a, n, complete) =
        IF cut THEN NoObservation
        ELSE [NoObservation EXCEPT
                !.tokens = TokensOf(a, usages), !.final = usages # {},
                !.errored = a.body[1].kind = "error", !.weight = a.body[1].weight]
  BY DEF Reference, JSONReference, IsDocument
<1> HIDE DEF event, cut
<1>4. CASE cut
  BY <1>1, <1>2, <1>3, <1>4
<1>5. CASE ~cut
  <2>1. event = a.body[1] /\ event # None
    <3>1. a.body # << >>
      BY <1>5 DEF cut, Whole
    <3> QED
      BY <1>1, <1>5, <3>1, DocumentFacts DEF IsDocument, IsEvent
  <2>2. usages = IF tokens # None THEN {1} ELSE {}
    BY <2>1 DEF WithUsage
  <2>3. TokensOf(a, usages) = Or(tokens, NoTokens)
    <3>1. Max({1}) = 1
      BY MaxIs
    <3>2. tokens # None => TokensOf(a, usages) = tokens
      BY <2>1, <2>2, <3>1 DEF TokensOf
    <3>3. tokens = None => TokensOf(a, usages) = NoTokens
      BY <2>2 DEF TokensOf
    <3> QED
      BY <3>2, <3>3 DEF Or
  <2>4. (usages # {}) = (tokens # None)
    BY <2>2
  <2> DEFINE Told(told, final) ==
               [NoObservation EXCEPT !.errored = event.kind = "error", !.final = final,
                                     !.tokens = told, !.weight = event.weight]
  <2>5. Finish(a, p, complete) = Told(Or(tokens, NoTokens), tokens # None)
    BY <1>2, <2>1
  <2>6. Reference(a, n, complete) = Told(TokensOf(a, usages), usages # {})
    BY <1>3, <1>5, <2>1
  <2> HIDE DEF usages, tokens, Told
  <2> QED
    BY <2>3, <2>4, <2>5, <2>6
<1> QED
  BY <1>4, <1>5

----------------------------------------------------------------------------
(* Any answer: its parser was given the first n units of it.               *)

Fed(a, p, n) ==
  /\ n \in Nat /\ n <= Len(Wire(a.body)) /\ p.decoded = n /\ IsParser(p)
  /\ IsStream(a) => Streamed(a, p, n)
  /\ IsDocument(a) => Buffers(a, p, n)

LEMMA StreamParser ==
  ASSUME NEW a, IsStream(a), NEW p, NEW n, Streamed(a, p, n)
  PROVE  IsParser(p) /\ Len(p.pending) <= MaxEventSize
<1>1. PICK c \in 0 .. Len(a.body) : Reads(a, p, n, c)
  BY DEF Streamed
<1> DEFINE l == n - Ends(a.body)[c] - 1
<1>2. IsParser(p) /\ Holds(p, c + 1, l) /\ At(a.body, n, c)
  BY <1>1 DEF Reads, HasRead
<1>3. l \in Nat /\ c + 1 \in Nat /\ MaxEventSize \in Nat
  <2>1. /\ IsBody(a.body) /\ Len(a.body) \in Nat /\ Ends(a.body) \in [0 .. Len(a.body) -> Int]
    BY AnswerBody, EndsFacts DEF IsStream
  <2> QED
    BY <1>2, <2>1, ParserAssumption DEF At
<1> HIDE DEF l
<1>4. Len(Run(c + 1, l)) = l /\ Len(<< >>) = 0
  BY <1>3, RunFacts
<1>5. p.pending = IF l > MaxEventSize THEN << >> ELSE Run(c + 1, l)
  BY <1>2 DEF Holds
<1> QED
  BY <1>2, <1>3, <1>4, <1>5

LEMMA FedStarts ==
  ASSUME NEW a, IsAnswer(a)
  PROVE  Fed(a, NewParser, 0)
<1>1. Len(Wire(a.body)) \in Nat
  BY AnswerBody, WireLength
<1>2. NewParser.decoded = 0 /\ IsParser(NewParser)
  BY DEF NewParser, IsParser
<1>3. 0 <= Len(Wire(a.body))
  BY <1>1
<1> QED
  BY <1>2, <1>3, StreamStarts, DocumentStarts DEF Fed

LEMMA FedWritten ==
  ASSUME NEW a, IsAnswer(a), NEW p, NEW n, Fed(a, p, n), NEW m \in n .. Len(Wire(a.body))
  PROVE  Fed(a, Write(a, p, SubSeq(Wire(a.body), n + 1, m)), m)
<1> DEFINE data == SubSeq(Wire(a.body), n + 1, m)
           q == Write(a, p, data)
<1>1. n \in Nat /\ p.decoded = n /\ IsParser(p)
  BY DEF Fed
<1>2. m \in Nat /\ Len(data) = m - n /\ m <= Len(Wire(a.body))
  <2>1. Len(Wire(a.body)) \in Nat
    BY AnswerBody, WireLength
  <2> QED
    BY <1>1, <2>1, ChunkFacts
<1>3. IsStream(a) => Streamed(a, q, m)
  BY StreamWritten DEF Fed
<1>4. IsDocument(a) => Buffers(a, q, m)
  BY DocumentWritten DEF Fed
<1>5. q.decoded = m /\ IsParser(q)
  <2>1. CASE IsStream(a)
    BY <1>3, <2>1, StreamParser DEF Streamed
  <2>2. CASE ~IsStream(a)
    <3>1. q = Buffered(a, [p EXCEPT !.decoded = @ + Len(data)], data)
      BY <2>2, WriteIs DEF Parsed, IsStream
    <3>2. PICK x : x = [p EXCEPT !.decoded = @ + Len(data)]
      OBVIOUS
    <3>3. PICK y : y = q
      OBVIOUS
    <3> HIDE DEF data, q
    <3>4. x.decoded = m /\ IsParser(x)
      BY <1>1, <1>2, <3>2 DEF IsParser
    <3>5. y = Buffered(a, x, data)
      BY <3>1, <3>2, <3>3
    <3>6. \/ y = x
          \/ y = [x EXCEPT !.truncated = TRUE]
          \/ y = [x EXCEPT !.pending = @ \o data]
      BY <3>5 DEF Buffered
    <3>7. y.decoded = m /\ IsParser(y)
      BY <3>4, <3>6 DEF IsParser
    <3> QED
      BY <3>3, <3>7
  <2> QED
    BY <2>1, <2>2
<1> HIDE DEF q
<1> QED
  BY <1>2, <1>3, <1>4, <1>5 DEF Fed, q

LEMMA FedFacts ==
  ASSUME NEW a, IsAnswer(a), NEW p, NEW n, Fed(a, p, n)
  PROVE  /\ Len(p.pending) <= MaxEventSize \/ IsTTSEndpoint(a.endpoint)
         /\ \A complete \in BOOLEAN : ~IsTTSEndpoint(a.endpoint) =>
              Finish(a, p, complete) = Reference(a, n, complete)
<1>1. IsStream(a) \/ IsDocument(a) \/ IsTTSEndpoint(a.endpoint)
  BY DEF IsStream, IsDocument, IsAnswer
<1>2. CASE IsStream(a)
  BY <1>2, StreamParser, StreamObserved DEF Fed
<1>3. CASE IsDocument(a)
  BY <1>3, DocumentObserved DEF Fed, Buffers
<1> QED
  BY <1>1, <1>2, <1>3

----------------------------------------------------------------------------
(* How much of an answer there is, and how much of what has arrived of it  *)
(* can be decoded.                                                         *)

Plain(a) == Len(Wire(a.body))
TotalOf(a) == IF a.encoding = "gzip" THEN Plain(a) + 1 ELSE Plain(a)
DecodableOf(a, n) ==
  IF a.encoding = "other" THEN 0
  ELSE IF n <= Plain(a) /\ (a.encoding = "gzip" => n < a.bad) THEN n
  ELSE IF a.encoding = "gzip" => Plain(a) < a.bad THEN Plain(a)
  ELSE a.bad - 1

LEMMA OfAnswers ==
  ASSUME NEW a \in Answers
  PROVE  /\ IsAnswer(a) /\ a.bad \in Nat \ {0} /\ a.bytes \in Nat /\ a.n \in Nat \cup {None}
         /\ a.type = "tts" <=> IsTTSEndpoint(a.endpoint)
         /\ a.price # None => /\ a.price.images \in Seq(Range(a.price.images))
                              /\ \A rule \in Range(a.price.images) : rule.charge \in Int
         /\ Plain(a) \in Nat
<1>1. /\ IsAnswer(a) /\ a.bad \in Nat \ {0} /\ a.bytes \in Nat /\ a.n \in Nat \cup {None}
      /\ a.type = "tts" <=> IsTTSEndpoint(a.endpoint)
      /\ a.price # None => /\ a.price.images \in Seq(Range(a.price.images))
                           /\ \A rule \in Range(a.price.images) : rule.charge \in Int
  BY AnswersAssumption DEF IsAnswer
<1>2. Plain(a) \in Nat
  BY <1>1, AnswerBody, WireLength DEF Plain
<1> QED
  BY <1>1, <1>2

LEMMA DecodableIs ==
  ASSUME r \in Answers, NEW n \in Nat
  PROVE  Decodable(n) = DecodableOf(r, n) /\ Total = TotalOf(r)
<1> DEFINE N == Plain(r)
           d == r.bad - 1
<1>1. N \in Nat /\ d \in Nat /\ r.bad \in Nat /\ d = r.bad - 1
  BY OfAnswers
<1>2. Total = TotalOf(r)
  BY <1>1 DEF Total, TotalOf, Plain, Decoded
<1>3. CASE r.encoding = "other"
  BY <1>2, <1>3 DEF Decodable, DecodableOf, Unsupported
<1>4. CASE r.encoding \notin {"other", "gzip"}
  <2>1. Decodable(n) = Min({n, N})
    <3>1. {n, N} \cup {} = {n, N}
      OBVIOUS
    <3> QED
      BY <1>4, <3>1 DEF Decodable, Unsupported, Decoded, Plain
  <2> HIDE DEF N
  <2>2. Min({n, N}) = IF n <= N THEN n ELSE N
    BY <1>1, MinOfTwo
  <2> QED
    BY <1>2, <1>4, <2>1, <2>2 DEF DecodableOf, N
<1>5. CASE r.encoding = "gzip"
  <2> DEFINE m == IF n <= N /\ n < r.bad THEN n ELSE IF N < r.bad THEN N ELSE d
             S == {n, N} \cup {d}
  <2>1. Decodable(n) = Min(S)
    BY <1>5 DEF Decodable, Unsupported, Decoded, Plain
  <2> HIDE DEF N, d
  <2>2. Min(S) = m
    <3>1. m \in S /\ S \subseteq Int /\ \A x \in S : m <= x
      BY <1>1
    <3> HIDE DEF m, S
    <3> QED
      BY <3>1, MinIs
  <2>3. DecodableOf(r, n) = m
    BY <1>1, <1>5 DEF DecodableOf, N
  <2> HIDE DEF m
  <2> QED
    BY <1>2, <2>1, <2>2, <2>3
<1> QED
  BY <1>3, <1>4, <1>5

LEMMA DecodableFacts ==
  ASSUME NEW a \in Answers, NEW n \in Nat
  PROVE  /\ TotalOf(a) \in Nat /\ Plain(a) \in Nat /\ Plain(a) <= TotalOf(a)
         /\ DecodableOf(a, n) \in Nat /\ DecodableOf(a, n) <= n /\ DecodableOf(a, n) <= Plain(a)
         /\ a.encoding = "other" => DecodableOf(a, n) = 0
         /\ a.encoding \notin {"other", "gzip"} /\ n <= TotalOf(a) => DecodableOf(a, n) = n
         /\ \A m \in Nat : m >= n => DecodableOf(a, n) <= DecodableOf(a, m)
         /\ \A m \in Nat : m >= n /\ a.encoding = "gzip" /\ n >= a.bad =>
              DecodableOf(a, n) = DecodableOf(a, m)
<1>1. Plain(a) \in Nat /\ a.bad \in Nat \ {0}
  BY OfAnswers
<1>2. a.encoding = "gzip" => a.encoding # "other"
  OBVIOUS
<1> QED
  BY <1>1, <1>2 DEF DecodableOf, TotalOf

----------------------------------------------------------------------------
(* The inductive invariant of the tap: how far the copy and the decoder    *)
(* are of each other, and that the parser was given exactly so much.       *)

Copies == [from : Nat, to : Nat, written : Nat, ended : {"no", "eof", "failed"}]
Decoders == [state : {"none", "decoding", "draining", "drained", "ended", "failed"},
             taken : Nat, decoded : Nat]
Phases == {"arrived", "rejected", "reading", "tapping", "writing", "closing", "closed", "recorded"}
Before == {"arrived", "rejected"}
Over == {"closing", "closed", "recorded"}
Stopped == {"draining", "drained", "ended", "failed"}

Units ==
  IF r.encoding = "other" THEN 0
  ELSE IF r.encoding = "gzip" THEN decoder.decoded
  ELSE IF pc = "tapping" THEN copy.from ELSE copy.to

CopyInv ==
  /\ r \in Answers /\ Stored(r.price) /\ pc \in Phases /\ copy \in Copies
  /\ copy.written <= copy.to /\ copy.from <= copy.to /\ copy.to <= TotalOf(r)
  /\ copy.ended = "eof" => copy.to = TotalOf(r)
  /\ pc \notin Before => ~PriceRefused(r, r.price) /\ ~BillingRefused(r, r.price)

DecoderInv ==
  /\ decoder \in Decoders
  /\ decoder.decoded <= decoder.taken /\ decoder.taken <= copy.to
  /\ decoder.decoded <= DecodableOf(r, decoder.taken)
  /\ pc \in Before => decoder.state = "none"
  /\ pc \notin Before => (decoder.state = "none" <=> r.encoding # "gzip")
  /\ r.encoding = "gzip" /\ pc # "tapping" => decoder.taken = copy.to
  /\ decoder.state \in Stopped =>
       /\ decoder.decoded = DecodableOf(r, copy.to)
       /\ decoder.taken >= r.bad \/ copy.to = TotalOf(r) \/ pc \in Over
  /\ pc \in {"closed", "recorded"} => decoder.state \in {"none", "ended", "failed"}

ParserInv == Fed(r, parser, Units)

ResultInv ==
  pc \in {"closed", "recorded"} =>
    result = [obs |-> Finish(r, parser, copy.ended = "eof"), complete |-> copy.ended = "eof",
              undecodable |-> \/ r.encoding = "other"
                              \/ copy.ended = "eof" /\ decoder.state = "failed",
              failed |-> ~ (copy.ended = "eof")]

TapInv == CopyInv /\ DecoderInv /\ ParserInv /\ ResultInv

LEMMA TapStarts ==
  ASSUME Init
  PROVE  TapInv
<1>1. /\ r \in Answers /\ Stored(r.price) /\ pc = "arrived" /\ parser = NewParser
      /\ copy = [from |-> 0, to |-> 0, written |-> 0, ended |-> "no"]
      /\ decoder = [state |-> "none", taken |-> 0, decoded |-> 0]
  BY DEF Init
<1>2. TotalOf(r) \in Nat /\ DecodableOf(r, 0) \in Nat
  BY <1>1, DecodableFacts
<1>3. CopyInv
  BY <1>1, <1>2 DEF CopyInv, Copies, Phases, Before
<1>4. DecoderInv
  BY <1>1, <1>2 DEF DecoderInv, Decoders, Before, Stopped
<1>5. ParserInv
  <2>1. Units = 0
    BY <1>1 DEF Units
  <2>2. Fed(r, NewParser, 0)
    BY <1>1, OfAnswers, FedStarts
  <2> QED
    BY <1>1, <2>1, <2>2 DEF ParserInv
<1>6. ResultInv
  BY <1>1 DEF ResultInv
<1> QED
  BY <1>3, <1>4, <1>5, <1>6 DEF TapInv

(* A step that gives the parser nothing leaves it where it was.            *)
LEMMA ParserStays ==
  ASSUME ParserInv, UNCHANGED <<r, parser>>, Units' = Units
  PROVE  ParserInv'
BY DEF ParserInv

LEMMA CopySteps ==
  ASSUME TapInv, CopyStep
  PROVE  TapInv'
<1> USE DEF TapInv
<1>1. r \in Answers /\ TotalOf(r) \in Nat /\ Total = TotalOf(r) /\ copy \in Copies /\ decoder \in Decoders
  <2>1. r \in Answers
    BY DEF CopyInv
  <2>2. TotalOf(r) \in Nat /\ Total = TotalOf(r)
    BY <2>1, DecodableFacts, DecodableIs
  <2> QED
    BY <2>1, <2>2 DEF CopyInv, DecoderInv
<1>2. ASSUME NEW to \in copy.to .. Total, NEW ended \in {"no", "eof", "failed"}, ReadBody(to, ended)
      PROVE  TapInv'
  <2>1. /\ pc = "reading" /\ UNCHANGED <<r, decoder, parser, result, entry>>
        /\ copy' = [copy EXCEPT !.from = copy.to, !.to = to, !.ended = ended]
        /\ pc' = (IF to > copy.to THEN "tapping" ELSE "closing")
        /\ ended = "eof" => to = TotalOf(r)
        /\ copy.to \in Nat /\ to \in Nat /\ to <= TotalOf(r) /\ copy.to <= to
    BY <1>1, <1>2 DEF ReadBody, Copies
  <2>2. /\ copy' \in Copies /\ copy'.from = copy.to /\ copy'.to = to /\ copy'.ended = ended
        /\ copy'.written = copy.written
    BY <1>1, <1>2, <2>1 DEF Copies
  <2>3. CopyInv'
    <3>1. copy'.written <= copy'.to
      BY <1>1, <2>1, <2>2 DEF CopyInv, Copies
    <3> QED
      BY <2>1, <2>2, <3>1 DEF CopyInv, Phases, Before
  <2>4. pc' \notin Before /\ pc \notin Before /\ pc' \notin {"closed", "recorded"}
    BY <2>1 DEF Before
  <2>5. decoder.state \in Stopped =>
          /\ decoder.decoded = DecodableOf(r, to)
          /\ decoder.taken >= r.bad \/ to = TotalOf(r)
    <3>1. SUFFICES ASSUME decoder.state \in Stopped
                   PROVE  /\ decoder.decoded = DecodableOf(r, to)
                          /\ decoder.taken >= r.bad \/ to = TotalOf(r)
      OBVIOUS
    <3>2. /\ decoder.decoded = DecodableOf(r, copy.to) /\ decoder.taken <= copy.to
          /\ decoder.taken >= r.bad \/ copy.to = TotalOf(r)
          /\ decoder.taken \in Nat /\ r.encoding = "gzip" /\ r.bad \in Nat
      BY <1>1, <2>1, <2>4, <3>1, OfAnswers DEF DecoderInv, Over, Stopped, Decoders
    <3>3. CASE decoder.taken >= r.bad
      <4>1. copy.to >= r.bad /\ to >= copy.to
        BY <2>1, <3>2, <3>3
      <4>2. DecodableOf(r, copy.to) = DecodableOf(r, to)
        BY <1>1, <2>1, <3>2, <4>1, DecodableFacts
      <4> QED
        BY <3>2, <3>3, <4>2
    <3>4. CASE copy.to = TotalOf(r)
      BY <1>1, <2>1, <3>2, <3>4
    <3> QED
      BY <3>2, <3>3, <3>4
  <2>6. DecoderInv'
    <3>1. decoder.taken <= to
      BY <1>1, <2>1 DEF DecoderInv, Decoders
    <3>2. r.encoding = "gzip" /\ pc' # "tapping" => decoder.taken = to
      BY <2>1 DEF DecoderInv
    <3> QED
      BY <2>1, <2>2, <2>4, <2>5, <3>1, <3>2 DEF DecoderInv
  <2>7. ParserInv'
    <3>1. Units' = Units
      BY <2>1, <2>2 DEF Units
    <3> QED
      BY <2>1, <3>1, ParserStays
  <2>8. ResultInv'
    BY <2>4 DEF ResultInv
  <2> QED
    BY <2>3, <2>6, <2>7, <2>8
<1>3. ASSUME NEW ok \in BOOLEAN, WriteClient(ok)
      PROVE  TapInv'
  <2>1. /\ pc = "writing" /\ UNCHANGED <<r, decoder, parser, result, entry>>
        /\ copy' = [copy EXCEPT !.written = IF ok THEN copy.to ELSE @,
                                !.ended = IF ok THEN @ ELSE "failed"]
        /\ pc' \in {"reading", "closing"}
    BY <1>3 DEF WriteClient
  <2>2. /\ copy' \in Copies /\ copy'.from = copy.from /\ copy'.to = copy.to
        /\ copy'.ended \in {copy.ended, "failed"} /\ copy'.written \in {copy.written, copy.to}
    BY <1>1, <2>1 DEF Copies
  <2>3. CopyInv'
    <3>1. copy'.written <= copy'.to
      BY <1>1, <2>2 DEF CopyInv, Copies
    <3> QED
      BY <2>1, <2>2, <3>1 DEF CopyInv, Phases, Before
  <2>4. DecoderInv'
    BY <2>1, <2>2 DEF DecoderInv, Before, Over, Stopped
  <2>5. ParserInv'
    <3>1. Units' = Units
      BY <2>1, <2>2 DEF Units
    <3> QED
      BY <2>1, <3>1, ParserStays
  <2>6. ResultInv'
    BY <2>1 DEF ResultInv
  <2> QED
    BY <2>3, <2>4, <2>5, <2>6
<1> QED
  BY <1>2, <1>3 DEF CopyStep

LEMMA HandlerSteps ==
  ASSUME TapInv, HandlerStep
  PROVE  TapInv'
<1> USE DEF TapInv
<1>1. r \in Answers /\ TotalOf(r) \in Nat /\ Total = TotalOf(r) /\ copy \in Copies /\ decoder \in Decoders
  <2>1. r \in Answers
    BY DEF CopyInv
  <2>2. TotalOf(r) \in Nat /\ Total = TotalOf(r)
    BY <2>1, DecodableFacts, DecodableIs DEF CopyInv
  <2> QED
    BY <2>1, <2>2 DEF CopyInv, DecoderInv
<1>2. ASSUME Reject PROVE TapInv'
  <2>1. pc = "arrived" /\ pc' = "rejected" /\ UNCHANGED <<r, copy, decoder, parser, result, entry>>
    BY <1>2 DEF Reject
  <2>2. CopyInv' /\ DecoderInv' /\ ResultInv'
    BY <2>1 DEF CopyInv, DecoderInv, ResultInv, Phases, Before, Over, Stopped
  <2>3. Units' = Units
    BY <2>1 DEF Units
  <2> QED
    BY <2>1, <2>2, <2>3, ParserStays
<1>3. ASSUME newDecodingTap PROVE TapInv'
  <2>1. /\ pc = "arrived" /\ pc' = "reading" /\ UNCHANGED <<r, copy, parser, result, entry>>
        /\ ~PriceRefused(r, r.price) /\ ~BillingRefused(r, r.price)
        /\ decoder' = [decoder EXCEPT !.state = IF r.encoding = "gzip" THEN "decoding" ELSE "none"]
    BY <1>3 DEF newDecodingTap, Decoded
  <2>2. /\ decoder' \in Decoders /\ decoder'.taken = decoder.taken /\ decoder'.decoded = decoder.decoded
        /\ decoder'.state = IF r.encoding = "gzip" THEN "decoding" ELSE "none"
    BY <1>1, <2>1 DEF Decoders
  <2>3. CopyInv' /\ ResultInv'
    BY <2>1 DEF CopyInv, ResultInv, Phases, Before
  <2>4. DecoderInv'
    BY <2>1, <2>2 DEF DecoderInv, Before, Over, Stopped
  <2>5. Units' = Units
    BY <2>1, <2>2 DEF Units
  <2> QED
    BY <2>1, <2>3, <2>4, <2>5, ParserStays
<1>4. ASSUME TapWrite PROVE TapInv'
  <2>1. /\ pc = "tapping" /\ pc' = "writing" /\ UNCHANGED <<r, copy, decoder, result, entry>>
        /\ r.encoding # "gzip"
        /\ parser' = IF r.encoding = "other" THEN parser
                     ELSE Write(r, parser, SubSeq(Wire(r.body), copy.from + 1, copy.to))
    BY <1>4 DEF TapWrite, Decoded, Unsupported
  <2>2. CopyInv' /\ DecoderInv' /\ ResultInv'
    BY <2>1 DEF CopyInv, DecoderInv, ResultInv, Phases, Before, Over, Stopped
  <2>3. CASE r.encoding = "other"
    <3>1. Units' = Units /\ parser' = parser
      BY <2>1, <2>3 DEF Units
    <3> QED
      BY <2>1, <2>2, <3>1, ParserStays
  <2>4. CASE r.encoding # "other"
    <3>1. Units = copy.from /\ Units' = copy.to
      BY <2>1, <2>4 DEF Units
    <3>2. copy.to \in copy.from .. Len(Wire(r.body))
      BY <1>1, <2>1 DEF CopyInv, Copies, TotalOf, Plain
    <3>3. Fed(r, parser, copy.from) /\ IsAnswer(r)
      BY <1>1, <3>1, OfAnswers DEF ParserInv
    <3>4. Fed(r, Write(r, parser, SubSeq(Wire(r.body), copy.from + 1, copy.to)), copy.to)
      BY <3>2, <3>3, FedWritten
    <3>5. ParserInv'
      BY <2>1, <2>4, <3>1, <3>4 DEF ParserInv
    <3> QED
      BY <2>2, <3>5
  <2> QED
    BY <2>3, <2>4
<1>5. ASSUME PipeWritten PROVE TapInv'
  <2>1. /\ pc = "tapping" /\ pc' = "writing" /\ UNCHANGED <<r, copy, decoder, parser, result, entry>>
        /\ r.encoding = "gzip" /\ decoder.taken = copy.to
    BY <1>5 DEF PipeWritten, Decoded
  <2>2. CopyInv' /\ DecoderInv' /\ ResultInv'
    BY <2>1 DEF CopyInv, DecoderInv, ResultInv, Phases, Before, Over, Stopped
  <2>3. Units' = Units
    BY <2>1 DEF Units
  <2> QED
    BY <2>1, <2>2, <2>3, ParserStays
<1>6. ASSUME Close PROVE TapInv'
  <2>1. /\ pc = "closing" /\ pc' = "closed" /\ UNCHANGED <<r, copy, decoder, parser, entry>>
        /\ decoder.state \in {"none", "ended", "failed"}
        /\ result' = [obs |-> Finish(r, parser, copy.ended = "eof"), complete |-> copy.ended = "eof",
                      undecodable |-> \/ r.encoding = "other"
                                      \/ copy.ended = "eof" /\ decoder.state = "failed",
                      failed |-> ~ (copy.ended = "eof")]
    BY <1>6 DEF Close, Unsupported
  <2>2. CopyInv' /\ DecoderInv'
    BY <2>1 DEF CopyInv, DecoderInv, Phases, Before, Over, Stopped
  <2>3. ResultInv'
    BY <2>1 DEF ResultInv
  <2>4. Units' = Units
    BY <2>1 DEF Units
  <2> QED
    BY <2>1, <2>2, <2>3, <2>4, ParserStays
<1>7. ASSUME Complete PROVE TapInv'
  <2>1. pc = "closed" /\ pc' = "recorded" /\ UNCHANGED <<r, copy, decoder, parser, result>>
    BY <1>7 DEF Complete
  <2>2. CopyInv' /\ DecoderInv'
    BY <2>1 DEF CopyInv, DecoderInv, Phases, Before, Over, Stopped
  <2>3. ResultInv'
    BY <2>1 DEF ResultInv
  <2>4. Units' = Units
    BY <2>1 DEF Units
  <2> QED
    BY <2>1, <2>2, <2>3, <2>4, ParserStays
<1> QED
  BY <1>2, <1>3, <1>4, <1>5, <1>6, <1>7 DEF HandlerStep

LEMMA DecoderSteps ==
  ASSUME TapInv, DecoderStep
  PROVE  TapInv'
<1> USE DEF TapInv
<1>1. /\ r \in Answers /\ TotalOf(r) \in Nat /\ Total = TotalOf(r) /\ copy \in Copies
      /\ decoder \in Decoders /\ copy.to \in Nat /\ decoder.taken \in Nat /\ decoder.decoded \in Nat
      /\ r.bad \in Nat \ {0} /\ Decodable(decoder.taken) = DecodableOf(r, decoder.taken)
  <2>1. r \in Answers /\ copy \in Copies /\ decoder \in Decoders
    BY DEF CopyInv, DecoderInv
  <2>2. copy.to \in Nat /\ decoder.taken \in Nat /\ decoder.decoded \in Nat
    BY <2>1 DEF Copies, Decoders
  <2> QED
    BY <2>1, <2>2, DecodableFacts, DecodableIs, OfAnswers
<1>2. decoder.state \in {"decoding", "draining", "drained"} =>
        /\ pc \notin Before /\ pc \notin {"closed", "recorded"} /\ r.encoding = "gzip"
  BY DEF DecoderInv, Before
<1>3. ASSUME NEW to \in 1 .. Total, Take(to) PROVE TapInv'
  <2>1. /\ decoder.state = "decoding" /\ pc = "tapping" /\ UNCHANGED <<r, pc, copy, parser, result, entry>>
        /\ decoder.taken < to /\ to <= copy.to /\ decoder' = [decoder EXCEPT !.taken = to] /\ to \in Nat
    BY <1>1, <1>3 DEF Take
  <2>2. /\ decoder' \in Decoders /\ decoder'.taken = to /\ decoder'.decoded = decoder.decoded
        /\ decoder'.state = "decoding"
    BY <1>1, <2>1 DEF Decoders
  <2>3. CopyInv' /\ ResultInv'
    BY <2>1 DEF CopyInv, ResultInv
  <2>4. DecoderInv'
    <3>1. decoder.decoded <= to
      BY <1>1, <2>1 DEF DecoderInv
    <3>2. decoder.decoded <= DecodableOf(r, to)
      <4>1. DecodableOf(r, decoder.taken) <= DecodableOf(r, to)
        BY <1>1, <2>1, DecodableFacts
      <4>2. DecodableOf(r, decoder.taken) \in Nat /\ DecodableOf(r, to) \in Nat
        BY <1>1, <2>1, DecodableFacts
      <4>3. decoder.decoded <= DecodableOf(r, decoder.taken)
        BY DEF DecoderInv
      <4> QED
        BY <1>1, <4>1, <4>2, <4>3
    <3> QED
      BY <1>2, <2>1, <2>2, <3>1, <3>2 DEF DecoderInv, Stopped
  <2>5. Units' = Units
    BY <2>1, <2>2 DEF Units
  <2> QED
    BY <2>1, <2>3, <2>4, <2>5, ParserStays
<1>4. ASSUME NEW to \in 1 .. Total, Sink(to) PROVE TapInv'
  <2>1. /\ decoder.state = "decoding" /\ UNCHANGED <<r, pc, copy, result, entry>>
        /\ decoder.decoded < to /\ to <= DecodableOf(r, decoder.taken)
        /\ decoder' = [decoder EXCEPT !.decoded = to] /\ to \in Nat
        /\ parser' = Write(r, parser, SubSeq(Wire(r.body), decoder.decoded + 1, to))
    BY <1>1, <1>4 DEF Sink
  <2>2. /\ decoder' \in Decoders /\ decoder'.taken = decoder.taken /\ decoder'.decoded = to
        /\ decoder'.state = "decoding"
    BY <1>1, <2>1 DEF Decoders
  <2>3. CopyInv' /\ ResultInv'
    BY <1>2, <2>1 DEF CopyInv, ResultInv
  <2>4. /\ DecodableOf(r, decoder.taken) <= decoder.taken /\ DecodableOf(r, decoder.taken) <= Plain(r)
        /\ DecodableOf(r, decoder.taken) \in Nat /\ Plain(r) \in Nat
    BY <1>1, DecodableFacts
  <2>5. to <= decoder.taken /\ to \in decoder.decoded .. Len(Wire(r.body))
    BY <1>1, <2>1, <2>4 DEF Plain
  <2>6. DecoderInv'
    BY <1>2, <2>1, <2>2, <2>5 DEF DecoderInv, Stopped
  <2>7. Units = decoder.decoded /\ Units' = to
    BY <1>2, <2>1, <2>2 DEF Units
  <2>8. Fed(r, Write(r, parser, SubSeq(Wire(r.body), decoder.decoded + 1, to)), to)
    <3>1. Fed(r, parser, decoder.decoded) /\ IsAnswer(r)
      BY <1>1, <2>7, OfAnswers DEF ParserInv
    <3> QED
      BY <2>5, <3>1, FedWritten
  <2>9. ParserInv'
    BY <2>1, <2>7, <2>8 DEF ParserInv
  <2> QED
    BY <2>3, <2>6, <2>9
<1>5. ASSUME DecodeEnds PROVE TapInv'
  <2>1. /\ decoder.state = "decoding" /\ UNCHANGED <<r, pc, copy, parser, result, entry>>
        /\ decoder.decoded = DecodableOf(r, decoder.taken)
        /\ decoder' = [decoder EXCEPT !.state = IF DecodeError THEN "draining" ELSE "drained"]
        /\ decoder.taken >= r.bad \/ decoder.taken = TotalOf(r) \/ pc = "closing"
    BY <1>1, <1>5 DEF DecodeEnds, DecodeError, Closed
  <2>2. /\ decoder' \in Decoders /\ decoder'.taken = decoder.taken /\ decoder'.decoded = decoder.decoded
        /\ decoder'.state \in {"draining", "drained"}
    BY <1>1, <2>1 DEF Decoders
  <2>3. CopyInv' /\ ResultInv'
    BY <1>2, <2>1 DEF CopyInv, ResultInv
  <2>4. /\ decoder.decoded = DecodableOf(r, copy.to)
        /\ decoder.taken >= r.bad \/ copy.to = TotalOf(r) \/ pc \in Over
    <3>1. decoder.taken <= copy.to /\ copy.to <= TotalOf(r)
      BY DEF DecoderInv, CopyInv
    <3>2. CASE decoder.taken >= r.bad
      <4>1. DecodableOf(r, decoder.taken) = DecodableOf(r, copy.to)
        BY <1>1, <1>2, <2>1, <3>1, <3>2, DecodableFacts
      <4> QED
        BY <2>1, <3>2, <4>1
    <3>3. CASE decoder.taken = TotalOf(r)
      <4>1. decoder.taken = copy.to
        BY <1>1, <3>1, <3>3
      <4> QED
        BY <2>1, <3>3, <4>1
    <3>4. CASE pc = "closing"
      <4>1. decoder.taken = copy.to
        BY <1>2, <2>1, <3>4 DEF DecoderInv
      <4> QED
        BY <2>1, <3>4, <4>1 DEF Over
    <3> QED
      BY <2>1, <3>2, <3>3, <3>4
  <2>5. DecoderInv'
    BY <1>2, <2>1, <2>2, <2>4 DEF DecoderInv, Before, Stopped
  <2>6. Units' = Units
    BY <2>1, <2>2 DEF Units
  <2> QED
    BY <2>1, <2>3, <2>5, <2>6, ParserStays
<1>6. ASSUME Drain PROVE TapInv'
  <2>1. /\ decoder.state \in {"draining", "drained"} /\ UNCHANGED <<r, pc, copy, parser, result, entry>>
        /\ decoder' = [decoder EXCEPT
                         !.taken = copy.to,
                         !.state = IF pc # "closing" THEN @
                                   ELSE IF @ = "draining" THEN "failed" ELSE "ended"]
    BY <1>6 DEF Drain, Closed
  <2>2. /\ decoder' \in Decoders /\ decoder'.taken = copy.to /\ decoder'.decoded = decoder.decoded
        /\ decoder'.state \in Stopped
    BY <1>1, <2>1 DEF Decoders, Stopped
  <2>3. CopyInv' /\ ResultInv'
    BY <1>2, <2>1 DEF CopyInv, ResultInv
  <2>4. /\ decoder.decoded = DecodableOf(r, copy.to)
        /\ decoder.taken >= r.bad \/ copy.to = TotalOf(r) \/ pc \in Over
        /\ decoder.decoded <= copy.to /\ decoder.taken <= copy.to
    <3>1. decoder.decoded <= decoder.taken /\ decoder.taken <= copy.to
      BY DEF DecoderInv
    <3> QED
      BY <1>1, <2>1, <3>1 DEF DecoderInv, Stopped
  <2>5. copy.to >= r.bad \/ copy.to = TotalOf(r) \/ pc \in Over
    BY <1>1, <2>4
  <2>6. DecodableOf(r, copy.to) \in Nat /\ DecodableOf(r, copy.to) <= DecodableOf(r, copy.to)
    BY <1>1, DecodableFacts
  <2>7. DecoderInv'
    BY <1>1, <1>2, <2>1, <2>2, <2>4, <2>5, <2>6 DEF DecoderInv, Stopped
  <2>8. Units' = Units
    BY <2>1, <2>2 DEF Units
  <2> QED
    BY <2>1, <2>3, <2>7, <2>8, ParserStays
<1> QED
  BY <1>3, <1>4, <1>5, <1>6 DEF DecoderStep

(* The tap's progress is inductive: no step of the copy loop, the handler  *)
(* or the decoding goroutine leaves it.                                    *)
THEOREM TapProgress == Spec => []TapInv
<1>1. Init => TapInv
  BY TapStarts
<1>2. TapInv /\ [Next]_vars => TapInv'
  <2> SUFFICES ASSUME TapInv, [Next]_vars PROVE TapInv'
    OBVIOUS
  <2>1. CASE Next
    BY <2>1, CopySteps, HandlerSteps, DecoderSteps DEF Next
  <2>2. CASE UNCHANGED vars
    <3>1. UNCHANGED <<r, pc, copy, decoder, parser, result>>
      BY <2>2 DEF vars
    <3>2. CopyInv' /\ DecoderInv' /\ ResultInv' /\ Units' = Units
      BY <3>1 DEF TapInv, CopyInv, DecoderInv, ResultInv, Units
    <3> QED
      BY <3>1, <3>2, ParserStays DEF TapInv
  <2> QED
    BY <2>1, <2>2
<1> QED
  BY <1>1, <1>2, PTL DEF Spec

(* The copy, the decoder and the parser stay within the answer and within  *)
(* each other, and a stream's parser within the size of one event.         *)
THEOREM ResponseTapTypeCorrect == Spec => []TypeOK
<1>1. TapInv => TypeOK
  <2> SUFFICES ASSUME TapInv PROVE TypeOK
    OBVIOUS
  <2>1. CopyInv /\ DecoderInv /\ ParserInv
    BY DEF TapInv
  <2>2. r \in Answers /\ IsAnswer(r) /\ Total = TotalOf(r)
    BY <2>1, OfAnswers, DecodableIs DEF CopyInv
  <2>3. /\ pc \in Phases /\ copy \in Copies /\ copy.written <= copy.to /\ copy.from <= copy.to
        /\ copy.to <= Total /\ copy.ended \in {"no", "eof", "failed"}
        /\ decoder.decoded <= decoder.taken /\ decoder.taken <= copy.to
    BY <2>1, <2>2 DEF CopyInv, DecoderInv, Copies
  <2>4. Fed(r, parser, Units)
    BY <2>1 DEF ParserInv
  <2>5. parser.decoded <= Len(Wire(r.body)) /\ (Len(parser.pending) <= MaxEventSize \/ Speech)
    <3>1. Len(parser.pending) <= MaxEventSize \/ IsTTSEndpoint(r.endpoint)
      BY <2>2, <2>4, FedFacts
    <3>2. parser.decoded = Units /\ Units <= Len(Wire(r.body))
      BY <2>4 DEF Fed
    <3> QED
      BY <3>1, <3>2 DEF Speech
  <2> QED
    BY <2>3, <2>5 DEF TypeOK, Phases
<1> QED
  BY <1>1, TapProgress, PTL

(* What is observed when the body has ended is what the part that was read *)
(* and can be decoded holds.                                               *)
LEMMA ObservedIsSent ==
  ASSUME TapInv, pc \in {"closed", "recorded"}
  PROVE  ~IsTTSEndpoint(r.endpoint) => result.obs = Reference(r, Decodable(copy.to), result.complete)
<1>1. CopyInv /\ DecoderInv /\ ParserInv /\ ResultInv
  BY DEF TapInv
<1>2. /\ r \in Answers /\ IsAnswer(r) /\ copy.to \in Nat /\ copy.to <= TotalOf(r)
      /\ Decodable(copy.to) = DecodableOf(r, copy.to)
  <2>1. r \in Answers /\ copy.to \in Nat /\ copy.to <= TotalOf(r)
    BY <1>1 DEF CopyInv, Copies
  <2> QED
    BY <2>1, OfAnswers, DecodableIs
<1>3. Units = DecodableOf(r, copy.to)
  <2>1. CASE r.encoding = "other"
    BY <1>2, <2>1, DecodableFacts DEF Units
  <2>2. CASE r.encoding = "gzip"
    BY <1>1, <2>2 DEF Units, DecoderInv, Stopped, Before
  <2>3. CASE r.encoding \notin {"other", "gzip"}
    BY <1>2, <2>3, DecodableFacts DEF Units
  <2> QED
    BY <2>1, <2>2, <2>3
<1>4. result.obs = Finish(r, parser, result.complete) /\ result.complete \in BOOLEAN
  <2>1. PICK complete \in BOOLEAN : complete = (copy.ended = "eof")
    OBVIOUS
  <2>2. result.obs = Finish(r, parser, complete) /\ result.complete = complete
    BY <1>1, <2>1 DEF ResultInv
  <2> QED
    BY <2>2
<1>5. Fed(r, parser, DecodableOf(r, copy.to))
  BY <1>1, <1>3 DEF ParserInv
<1> QED
  BY <1>2, <1>4, <1>5, FedFacts

(* What copyResponse returns of a response is what the part of it that was *)
(* read and can be decoded holds, in whatever chunks it arrived.           *)
THEOREM AnswersAreObservedAsSent == Spec => []ObservedAsSent
<1>1. TapInv => ObservedAsSent
  BY ObservedIsSent DEF ObservedAsSent, Speech
<1> QED
  BY <1>1, TapProgress, PTL

----------------------------------------------------------------------------
(* What is recorded and charged.                                           *)

LEMMA ReferenceTyped ==
  ASSUME NEW a, IsAnswer(a), NEW n, NEW complete
  PROVE  Reference(a, n, complete).tokens \in TokenCounts /\ Reference(a, n, complete).weight \in Nat
<1> DEFINE events == Whole(a, n)
           o == Reference(a, n, complete)
<1>1. events \in SUBSET DOMAIN a.body
  BY DEF Whole
<1>2. NoObservation.tokens \in TokenCounts /\ NoObservation.weight \in Nat
  BY DEF NoObservation, NoTokens, TokenCounts
<1>3. \A kinds : Text(a, events, kinds) \in Nat
  <2>1. a.body \in Seq(Range(a.body)) /\ \A k \in DOMAIN a.body : a.body[k].weight \in Nat
    BY DEF IsAnswer, IsEvent
  <2> QED
    BY <2>1, TextFacts
<1>4. /\ TokensOf(a, WithUsage(a, events)) \in TokenCounts
      /\ \A some \in SUBSET WithUsage(a, events) : TokensOf(a, some) \in TokenCounts
  BY <1>1, TokensTyped
<1>5. CASE ~a.stream
  <2>1. o = JSONReference(a, events, n = Len(Wire(a.body)))
    BY <1>5 DEF Reference
  <2>2. CASE 1 \notin events
    BY <1>2, <2>1, <2>2 DEF JSONReference
  <2>3. CASE 1 \in events
    <3>1. {1} \in SUBSET DOMAIN a.body /\ 1 \in DOMAIN a.body
      BY <1>1, <2>3
    <3>2. TokensOf(a, WithUsage(a, {1})) \in TokenCounts /\ a.body[1].weight \in Nat
      BY <3>1, TokensTyped DEF IsAnswer, IsEvent
    <3>3. PICK x : x = o
      OBVIOUS
    <3>4. \/ x = NoObservation
          \/ x = [NoObservation EXCEPT
                    !.tokens = TokensOf(a, WithUsage(a, {1})), !.final = WithUsage(a, {1}) # {},
                    !.errored = a.body[1].kind = "error", !.weight = a.body[1].weight]
      BY <2>1, <3>3 DEF JSONReference
    <3>5. x.tokens \in TokenCounts /\ x.weight \in Nat
      BY <1>2, <3>2, <3>4 DEF NoObservation
    <3> QED
      BY <3>3, <3>5
  <2> QED
    BY <2>2, <2>3
<1>6. CASE a.stream /\ a.endpoint = "responses"
  <2>1. o = ObservedOfResponses(a, events)
    BY <1>6, References DEF Reference
  <2> HIDE DEF o, events
  <2> QED
    BY <1>3, <1>4, <2>1 DEF ObservedOfResponses, Observation, o
<1>7. CASE a.stream /\ a.endpoint = "anthropic"
  <2>1. o = ObservedOfAnthropic(a, events)
    BY <1>7, References DEF Reference
  <2>2. /\ TokensOf(a, Inputs(a, events)) \in TokenCounts
        /\ TokensOf(a, StartOrDelta(a, events)) \in TokenCounts
    <3>1. /\ Inputs(a, events) \in SUBSET WithUsage(a, events)
          /\ StartOrDelta(a, events) \in SUBSET WithUsage(a, events)
      BY DEF Inputs, StartOrDelta
    <3> QED
      BY <1>4, <3>1
  <2> DEFINE tokens == [TokensOf(a, Inputs(a, events)) EXCEPT
                          !.response = TokensOf(a, StartOrDelta(a, events)).response]
  <2>3. tokens \in TokenCounts
    BY <2>2 DEF TokenCounts
  <2>4. o.tokens = tokens /\ o.weight = Text(a, events, {"content"})
    <3> HIDE DEF o, events
    <3> QED
      BY <2>1 DEF ObservedOfAnthropic, Observation, o
  <2> QED
    BY <1>3, <2>3, <2>4
<1>8. CASE a.stream /\ a.endpoint \notin {"responses", "anthropic"}
  <2> DEFINE final == Counted(a, events) # {} \/ (WithUsage(a, events) # {} /\ complete)
  <2>1. o = ObservedOfChat(a, events, final)
    BY <1>8, References DEF Reference
  <2>2. TokensOf(a, Counted(a, events)) \in TokenCounts
    BY <1>4 DEF Counted
  <2> HIDE DEF o, events, final
  <2> QED
    BY <1>3, <2>1, <2>2 DEF ObservedOfChat, Observation, o
<1> QED
  BY <1>5, <1>6, <1>7, <1>8 DEF IsAnswer

IsEntry(x) ==
  x = [source |-> x.source, estimated |-> x.estimated, unavailable |-> x.unavailable,
       tokens |-> x.tokens, characters |-> x.characters, images |-> x.images,
       charge |-> x.charge, billing |-> x.billing, healthy |-> x.healthy]

(* Of the usage that was observed nothing is charged yet.                  *)
Uncharged(x) ==
  /\ IsEntry(x) /\ x.charge = 0 /\ x.billing = "not_charged" /\ x.tokens \in TokenCounts

LEMMA EntriesOf ==
  /\ \A source : /\ Uncharged(NoUsage(source)) /\ NoUsage(source).source = source
                 /\ NoUsage(source).estimated = FALSE /\ NoUsage(source).unavailable = FALSE
  /\ \A tokens \in TokenCounts :
       /\ Uncharged(Reported(tokens)) /\ Reported(tokens).source = "reported"
       /\ Reported(tokens).estimated = FALSE /\ Reported(tokens).unavailable = FALSE
<1>1. /\ IsEntry(NoEntry) /\ NoEntry.charge = 0 /\ NoEntry.billing = "not_charged"
      /\ NoEntry.estimated = FALSE /\ NoEntry.unavailable = FALSE /\ NoEntry.tokens \in TokenCounts
  BY DEF NoEntry, IsEntry, NoTokens, TokenCounts
<1>2. ASSUME NEW source, NEW x, x = [NoEntry EXCEPT !.source = source]
      PROVE  /\ Uncharged(x) /\ x.source = source
             /\ x.estimated = FALSE /\ x.unavailable = FALSE
  BY <1>1, <1>2 DEF IsEntry, Uncharged
<1>3. ASSUME NEW tokens \in TokenCounts,
             NEW x, x = [NoEntry EXCEPT !.source = "reported", !.tokens = tokens]
      PROVE  /\ Uncharged(x) /\ x.source = "reported"
             /\ x.estimated = FALSE /\ x.unavailable = FALSE
  BY <1>1, <1>3 DEF IsEntry, Uncharged
<1> QED
  BY <1>2, <1>3 DEF NoUsage, Reported

LEMMA EstimatedIs ==
  ASSUME r \in Answers, NEW source, NEW obs, obs.tokens \in TokenCounts, obs.weight \in Nat
  PROVE  /\ Uncharged(Estimated(source, obs)) /\ Estimated(source, obs).source = source
         /\ Estimated(source, obs).estimated = TRUE /\ Estimated(source, obs).unavailable = FALSE
<1> DEFINE given == IF obs.tokens.request > 0 THEN obs.tokens
                    ELSE [NoTokens EXCEPT !.request = EstimateTokens(r.bytes)]
           response == Max({obs.tokens.response, EstimatedOutputTokens(obs)})
           tokens == [given EXCEPT !.response = response]
<1>1. r.bytes \in Nat /\ EstimateTokens(r.bytes) \in Nat
  <2>1. r.bytes \in Nat
    BY OfAnswers
  <2>2. r.bytes + 3 \in Nat /\ 4 \in Nat \ {0}
    BY <2>1
  <2> QED
    BY <2>1, <2>2, Division DEF EstimateTokens
<1>2. EstimatedOutputTokens(obs) \in Nat /\ obs.tokens.response \in Nat
  <2>1. obs.weight + 9 \in Nat /\ 10 \in Nat \ {0} /\ obs.tokens.response \in Nat
    BY DEF TokenCounts
  <2> QED
    BY <2>1, Division DEF EstimatedOutputTokens
<1>3. response \in Nat
  <2> DEFINE x == obs.tokens.response
             y == EstimatedOutputTokens(obs)
             m == IF x >= y THEN x ELSE y
  <2>1. x \in Nat /\ y \in Nat
    BY <1>2
  <2> HIDE DEF x, y
  <2>2. m \in {x, y} /\ {x, y} \subseteq Int /\ \A z \in {x, y} : z <= m
    BY <2>1
  <2> HIDE DEF m
  <2>3. Max({x, y}) = m
    BY <2>2, MaxIs
  <2> QED
    BY <2>1, <2>2, <2>3 DEF x, y
<1>4. given \in TokenCounts
  BY <1>1 DEF TokenCounts, NoTokens
<1> HIDE DEF given, response
<1>5. tokens \in TokenCounts
  BY <1>3, <1>4 DEF TokenCounts
<1> HIDE DEF tokens
<1>6. PICK x : x = Estimated(source, obs)
  OBVIOUS
<1>7. x = [NoEntry EXCEPT !.source = source, !.estimated = TRUE, !.tokens = tokens]
  BY <1>6 DEF Estimated, tokens, given, response
<1>8. /\ Uncharged(x) /\ x.source = source /\ x.estimated = TRUE /\ x.unavailable = FALSE
  BY <1>5, <1>7 DEF NoEntry, IsEntry, Uncharged
<1> QED
  BY <1>6, <1>8

ReadInFull == result.obs.final /\ ~result.undecodable

IsObserved(o) ==
  /\ Uncharged(o) /\ o.unavailable = FALSE /\ o.estimated \in BOOLEAN
  /\ o.estimated => o.source # "reported"
  /\ Speech => ~o.estimated /\ (o.source = "reported" => result.obs.final)
  /\ ~Speech /\ Success(r.status) => (o.estimated <=> ~ReadInFull)

LEMMA UsageObserved ==
  ASSUME TapInv, pc = "closed"
  PROVE  IsObserved(ObservedUsage)
<1> DEFINE obs == result.obs
<1>1. r \in Answers /\ IsAnswer(r)
  BY OfAnswers DEF TapInv, CopyInv
<1>2. PICK o : o = ObservedUsage
  OBVIOUS
<1>3. CASE Speech
  <2>1. PICK x : x = [NoUsage("reported") EXCEPT !.characters = obs.characters]
    OBVIOUS
  <2>2. Uncharged(x) /\ x.estimated = FALSE /\ x.unavailable = FALSE
    <3>1. Uncharged(NoUsage("reported")) /\ NoUsage("reported").estimated = FALSE
          /\ NoUsage("reported").unavailable = FALSE
      BY EntriesOf
    <3> QED
      BY <2>1, <3>1 DEF Uncharged, IsEntry
  <2>3. \/ \E source \in {"none", "undecodable", "interrupted", "missing"} : o = NoUsage(source)
        \/ o = x /\ obs.final
    BY <1>2, <1>3, <2>1 DEF ObservedUsage, resolveTTSUsage
  <2>4. CASE \E source \in {"none", "undecodable", "interrupted", "missing"} : o = NoUsage(source)
    <3>1. PICK source \in {"none", "undecodable", "interrupted", "missing"} : o = NoUsage(source)
      BY <2>4
    <3>2. Uncharged(o) /\ o.source # "reported" /\ o.estimated = FALSE /\ o.unavailable = FALSE
      BY <3>1, EntriesOf
    <3> QED
      BY <1>2, <1>3, <3>2 DEF IsObserved
  <2>5. CASE o = x /\ obs.final
    BY <1>2, <1>3, <2>2, <2>5 DEF IsObserved
  <2> QED
    BY <2>3, <2>4, <2>5
<1>4. CASE ~Speech
  <2>1. obs.tokens \in TokenCounts /\ obs.weight \in Nat
    <3>1. obs = Reference(r, Decodable(copy.to), result.complete)
      BY <1>4, ObservedIsSent DEF Speech
    <3> HIDE DEF obs
    <3> QED
      BY <1>1, <3>1, ReferenceTyped
  <2>2. o = resolveObservedUsage
    BY <1>2, <1>4 DEF ObservedUsage
  <2>3. \A source : /\ Uncharged(Estimated(source, obs)) /\ Estimated(source, obs).source = source
                    /\ Estimated(source, obs).estimated = TRUE
                    /\ Estimated(source, obs).unavailable = FALSE
    <3> HIDE DEF obs
    <3> QED
      BY <1>1, <2>1, EstimatedIs
  <2>4. /\ Uncharged(Reported(obs.tokens)) /\ Reported(obs.tokens).source = "reported"
        /\ Reported(obs.tokens).estimated = FALSE /\ Reported(obs.tokens).unavailable = FALSE
    BY <2>1, EntriesOf
  <2>5. /\ Uncharged(NoUsage("none")) /\ NoUsage("none").source = "none"
        /\ NoUsage("none").estimated = FALSE /\ NoUsage("none").unavailable = FALSE
    BY EntriesOf
  <2> HIDE DEF obs
  <2>6. CASE obs.final /\ ~(Success(r.status) /\ result.undecodable)
    <3>1. o = Reported(obs.tokens)
      BY <2>2, <2>6 DEF resolveObservedUsage, obs
    <3> QED
      BY <1>2, <1>4, <2>4, <2>6, <3>1 DEF IsObserved, ReadInFull, obs
  <2>7. CASE ~obs.final /\ ~Success(r.status)
    <3>1. o = NoUsage("none")
      BY <2>2, <2>7 DEF resolveObservedUsage, obs
    <3> QED
      BY <1>2, <1>4, <2>5, <2>7, <3>1 DEF IsObserved
  <2>8. CASE ~(obs.final /\ ~result.undecodable) /\ Success(r.status)
    <3>1. \E source \in {"undecodable", "missing", "interrupted"} : o = Estimated(source, obs)
      <4> DEFINE source == IF result.undecodable THEN "undecodable"
                           ELSE IF result.complete /\ ~obs.errored THEN "missing" ELSE "interrupted"
      <4>1. o = Estimated(source, obs)
        BY <2>2, <2>8 DEF resolveObservedUsage, obs
      <4>2. source \in {"undecodable", "missing", "interrupted"}
        OBVIOUS
      <4> HIDE DEF source
      <4> QED
        BY <4>1, <4>2
    <3>2. PICK source \in {"undecodable", "missing", "interrupted"} : o = Estimated(source, obs)
      BY <3>1
    <3>3. /\ Uncharged(o) /\ o.source # "reported" /\ o.estimated = TRUE /\ o.unavailable = FALSE
      BY <2>3, <3>2
    <3>4. ~ReadInFull
      BY <2>8 DEF ReadInFull, obs
    <3> QED
      BY <1>2, <1>4, <3>3, <3>4 DEF IsObserved
  <2> QED
    BY <2>6, <2>7, <2>8
<1> QED
  BY <1>3, <1>4

IsMetered(m) ==
  /\ Uncharged(m) /\ m.unavailable \in BOOLEAN /\ m.estimated \in BOOLEAN
  /\ m.estimated => m.source # "reported"
  /\ Speech => ~m.estimated /\ (~m.unavailable /\ ~result.obs.errored => result.obs.final)
  /\ ~Speech /\ Success(r.status) => (m.unavailable \/ m.estimated <=> ~ReadInFull)

LEMMA UsageMetered ==
  ASSUME NEW o, IsObserved(o)
  PROVE  IsMetered(Metered(OfItsType(o)))
<1>1. PICK t : t = OfItsType(o)
  OBVIOUS
<1>2. /\ Uncharged(t) /\ t.source = o.source /\ t.estimated = o.estimated
      /\ t.unavailable = o.unavailable
  <2> DEFINE tokens == [o.tokens EXCEPT !.response = 0,
                                        !.request = IF @ = 0 THEN o.tokens.response ELSE @]
  <2>1. tokens \in TokenCounts
    BY DEF IsObserved, Uncharged, TokenCounts
  <2>2. t = o \/ t = [o EXCEPT !.tokens = tokens]
    BY <1>1 DEF OfItsType
  <2> HIDE DEF tokens
  <2> QED
    BY <2>1, <2>2 DEF IsObserved, Uncharged, IsEntry
<1>3. PICK m : m = Metered(t)
  OBVIOUS
<1>4. CASE Unavailable(t)
  <2>1. PICK x : x = NoUsage(t.source)
    OBVIOUS
  <2>2. Uncharged(x) /\ x.estimated = FALSE
    BY <2>1, EntriesOf
  <2>3. m = [x EXCEPT !.unavailable = TRUE]
    BY <1>3, <1>4, <2>1 DEF Metered
  <2>4. Uncharged(m) /\ m.estimated = FALSE /\ m.unavailable = TRUE
    BY <2>2, <2>3 DEF Uncharged, IsEntry
  <2>5. ~Speech /\ Success(r.status) => ~ReadInFull
    BY <1>2, <1>4 DEF Unavailable, IsObserved
  <2> QED
    BY <1>1, <1>3, <2>4, <2>5 DEF IsMetered
<1>5. CASE ~Unavailable(t)
  <2>1. m = t
    BY <1>3, <1>5 DEF Metered
  <2>2. Speech /\ ~result.obs.errored => result.obs.final
    BY <1>2, <1>5 DEF Unavailable, IsObserved
  <2> QED
    BY <1>1, <1>2, <1>3, <2>1, <2>2 DEF IsMetered, IsObserved
<1> QED
  BY <1>4, <1>5

(* The entry before it is billed.                                          *)
EntryOf(m) ==
  IF Mode = "image" THEN OfImages(m) ELSE [m EXCEPT !.images = responseImageCount(r, parser)]

IsUnbilled(e) ==
  /\ IsEntry(e) /\ e.billing = "not_charged"
  /\ Mode = "image" => (e.images = 0 => e.charge = 0)
  /\ Mode # "image" => IsMetered(e)

(* A request for images that is sent has one rule that prices it.          *)
LEMMA OneRule ==
  ASSUME CopyInv, pc \notin Before, Mode = "image"
  PROVE  /\ OneRulePrices /\ ~Speech /\ ImageUnit(r, r.price) \in Int
<1>1. /\ r \in Answers /\ ~BillingRefused(r, r.price) /\ r.price # None /\ r.price.mode = "image"
  BY DEF CopyInv, Mode
<1>2. /\ r.price.images \in Seq(Range(r.price.images))
      /\ \A rule \in Range(r.price.images) : rule.charge \in Int
  BY <1>1, AnswersAssumption
<1>3. r.type = "tts" <=> IsTTSEndpoint(r.endpoint)
  BY <1>1, OfAnswers
<1>4. r.type = "image-generation" /\ ImageUnitCost(r.price, r.size, r.quality) # None
  BY <1>1 DEF BillingRefused
<1>5. ImageUnit(r, r.price) = ImageUnitCost(r.price, r.size, r.quality)
  BY <1>1 DEF ImageUnit
<1>6. PICK p : p = r.price
  OBVIOUS
<1>7. \E rule \in Range(p.images) :
        /\ Selects(rule, r.size, r.quality) /\ ImageUnitCost(p, r.size, r.quality) = rule.charge
        /\ \A other \in Range(p.images) \ {rule} :
             Selects(other, r.size, r.quality) => Score(other) < Score(rule)
  BY <1>2, <1>4, <1>6, MostSpecificRulePrices
<1> QED
  BY <1>2, <1>3, <1>4, <1>5, <1>6, <1>7 DEF OneRulePrices, Speech

LEMMA NothingForNoImages ==
  ASSUME NEW unit \in Int
  PROVE  ImageCost(0, unit) = 0
<1>1. 0 * unit = 0
  OBVIOUS
<1>2. Saturated(0) = 0
  BY SaturatedFacts, BillingAssumption
<1> QED
  BY <1>1, <1>2 DEF ImageCost

LEMMA EntryUnbilled ==
  ASSUME TapInv, pc = "closed", NEW m, IsMetered(m)
  PROVE  IsUnbilled(EntryOf(m))
<1>1. PICK e : e = EntryOf(m)
  OBVIOUS
<1>2. CASE Mode = "image"
  <2> DEFINE tooLong == /\ responseImageCount(r, parser) = 0 /\ ~result.failed /\ Success(r.status)
                        /\ parser.decoded > SampleLimit
             images == IF tooLong THEN Or(r.n, 1) ELSE responseImageCount(r, parser)
             unit == ImageUnit(r, r.price)
             from == IF m.source = "reported" THEN "reported" ELSE "none"
  <2>1. PICK x : x = NoUsage(from)
    OBVIOUS
  <2>2. IsEntry(x) /\ x.billing = "not_charged"
    <3> HIDE DEF from
    <3> QED
      BY <2>1, EntriesOf DEF Uncharged
  <2>3. e = [x EXCEPT !.images = images, !.estimated = tooLong, !.unavailable = m.unavailable,
                      !.charge = ImageCost(images, unit)]
    BY <1>1, <1>2, <2>1 DEF EntryOf, OfImages
  <2>4. unit \in Int
    BY <1>2, OneRule DEF TapInv, Before
  <2> HIDE DEF images, tooLong, unit
  <2>5. /\ IsEntry(e) /\ e.billing = "not_charged" /\ e.images = images
        /\ e.charge = ImageCost(images, unit)
    BY <2>2, <2>3 DEF IsEntry
  <2>6. e.images = 0 => e.charge = 0
    BY <2>4, <2>5, NothingForNoImages
  <2> QED
    BY <1>1, <1>2, <2>5, <2>6 DEF IsUnbilled
<1>3. CASE Mode # "image"
  <2> DEFINE images == responseImageCount(r, parser)
  <2>1. e = [m EXCEPT !.images = images]
    BY <1>1, <1>3 DEF EntryOf
  <2> HIDE DEF images
  <2>2. /\ IsEntry(e) /\ e.billing = m.billing /\ e.charge = m.charge /\ e.tokens = m.tokens
        /\ e.source = m.source /\ e.estimated = m.estimated /\ e.unavailable = m.unavailable
    BY <2>1 DEF IsMetered, Uncharged, IsEntry
  <2>3. IsMetered(e) /\ e.billing = "not_charged"
    BY <2>2 DEF IsMetered, Uncharged
  <2> QED
    BY <1>1, <1>3, <2>2, <2>3 DEF IsUnbilled
<1> QED
  BY <1>2, <1>3

(* A model of speech has no price in tokens, and what a speech provider    *)
(* refused is observed only of an answer that ended.                       *)
LEMMA SpeechFacts ==
  ASSUME TapInv, pc \in {"closed", "recorded"}, Speech
  PROVE  /\ IF r.price = None THEN Mode = "none" ELSE Mode \in {"characters", "free"}
         /\ result.obs.errored => ~result.failed
         /\ result.obs.final => result.complete /\ r.body[1].kind = "ok"
<1>1. /\ r \in Answers /\ ~BillingRefused(r, r.price)
      /\ result.obs = Finish(r, parser, copy.ended = "eof")
      /\ result.complete = (copy.ended = "eof") /\ result.failed = ~(copy.ended = "eof")
  BY DEF TapInv, CopyInv, ResultInv, Before
<1>2. r.type = "tts"
  BY <1>1, OfAnswers DEF Speech
<1>3. IF r.price = None THEN Mode = "none" ELSE Mode \in {"characters", "free"}
  BY <1>1, <1>2 DEF BillingRefused, Mode
<1> DEFINE ended == copy.ended = "eof" /\ ~r.stream
           event == JSONBody(r, parser)
<1>4. result.obs = FinishTTS(r, parser, ended)
  BY <1>1 DEF Finish, Speech
<1>5. PICK o : o = result.obs
  OBVIOUS
<1>6. \/ o = NoObservation
      \/ /\ copy.ended = "eof" /\ event # None
         /\ o.final = (event.kind = "ok" /\ event.count # None)
  <2> DEFINE ok == event.kind = "ok" /\ event.count # None
  <2>1. ok \in BOOLEAN
    OBVIOUS
  <2>2. \/ ~ended \/ event = None
        \/ o = [NoObservation EXCEPT !.code = event.kind, !.errored = event.kind # "ok",
                                     !.final = ok, !.characters = IF ok THEN event.count ELSE 0]
    BY <1>4, <1>5 DEF FinishTTS
  <2>3. ~ended \/ event = None => o = NoObservation
    BY <1>4, <1>5 DEF FinishTTS
  <2> HIDE DEF ok, event
  <2>4. o = [NoObservation EXCEPT !.code = event.kind, !.errored = event.kind # "ok",
                                  !.final = ok, !.characters = IF ok THEN event.count ELSE 0]
          => o.final = ok
    BY DEF NoObservation
  <2> QED
    BY <2>2, <2>3, <2>4 DEF ok
<1>7. event # None => event = r.body[1]
  BY DEF JSONBody
<1>8. ~NoObservation.final /\ ~NoObservation.errored
  BY DEF NoObservation
<1> HIDE DEF event
<1> QED
  BY <1>1, <1>3, <1>5, <1>6, <1>7, <1>8

----------------------------------------------------------------------------
(* What may be recorded of an answer.                                      *)

ChargedFor(x) ==
  /\ x.charge > 0 => Success(r.status) /\ x.billing \in {"charged", "estimated"}
  /\ x.billing = "charged" /\ Speech => result.complete /\ r.body[1].kind = "ok"
  /\ Mode = "tokens" /\ Success(r.status) => (x.billing = "charged" <=> ReadInFull)
  /\ x.estimated => x.source # "reported" \/ Mode = "image"

OnceFor(x) ==
  x.billing \in {"charged", "estimated"} /\ Mode = "tokens" => EachOnce(r.price, x.tokens, x.charge)

(* Billing changes the charge of an entry and what the charge is called.   *)
Bills(e, b, charge, billing) ==
  /\ IsEntry(b) /\ b.charge = charge /\ b.billing = billing /\ b.source = e.source
  /\ b.estimated = e.estimated /\ b.tokens = e.tokens

LEMMA BillsIs ==
  ASSUME NEW e, IsEntry(e), NEW charge, NEW billing
  PROVE  /\ Bills(e, [e EXCEPT !.charge = charge, !.billing = billing], charge, billing)
         /\ Bills(e, [e EXCEPT !.charge = charge], charge, e.billing)
         /\ Bills(e, [e EXCEPT !.billing = billing], e.charge, billing)
<1>1. ASSUME NEW b, b = [e EXCEPT !.charge = charge, !.billing = billing]
      PROVE  Bills(e, b, charge, billing)
  BY <1>1 DEF IsEntry, Bills
<1>2. ASSUME NEW b, b = [e EXCEPT !.charge = charge]
      PROVE  Bills(e, b, charge, e.billing)
  BY <1>2 DEF IsEntry, Bills
<1>3. ASSUME NEW b, b = [e EXCEPT !.billing = billing]
      PROVE  Bills(e, b, e.charge, billing)
  BY <1>3 DEF IsEntry, Bills
<1> QED
  BY <1>1, <1>2, <1>3

LEMMA Billed ==
  ASSUME TapInv, pc = "closed", NEW e, IsUnbilled(e)
  PROVE  LET b == recordRequest(e) IN IsEntry(b) /\ ChargedFor(b) /\ OnceFor(b)
<1>1. PICK b : b = recordRequest(e)
  OBVIOUS
<1>2. IsEntry(e) /\ e.billing = "not_charged"
  BY DEF IsUnbilled
<1>3. /\ Speech => IF r.price = None THEN Mode = "none" ELSE Mode \in {"characters", "free"}
      /\ Speech /\ result.obs.final => result.complete /\ r.body[1].kind = "ok"
      /\ Speech /\ result.obs.errored => ~result.failed
  BY SpeechFacts
<1>4. Mode # "image" => e.charge = 0 /\ (e.estimated => e.source # "reported")
  BY DEF IsUnbilled, IsMetered, Uncharged
<1>5. ASSUME Bills(e, b, 0, b.billing), b.billing # "charged", Mode = "tokens" => b.billing # "estimated",
             Mode = "tokens" /\ Success(r.status) => ~ReadInFull
      PROVE  IsEntry(b) /\ ChargedFor(b) /\ OnceFor(b)
  BY <1>4, <1>5 DEF Bills, ChargedFor, OnceFor
<1>6. CASE ~Success(r.status) \/ BusinessError
  <2>1. b = [e EXCEPT !.charge = 0]
    BY <1>1, <1>6 DEF recordRequest
  <2>2. Bills(e, b, 0, "not_charged")
    BY <1>2, <2>1, BillsIs
  <2>3. ~(Mode = "tokens" /\ Success(r.status))
    BY <1>3, <1>6 DEF BusinessError
  <2> QED
    BY <1>1, <1>5, <2>2, <2>3 DEF Bills
<1>7. CASE ~(~Success(r.status) \/ BusinessError) /\ r.price = None
  <2>1. b = [e EXCEPT !.billing = "unpriced"] /\ Mode = "none"
    BY <1>1, <1>7 DEF recordRequest, Mode
  <2>2. Bills(e, b, 0, "unpriced")
    BY <1>2, <1>4, <2>1, BillsIs
  <2> QED
    BY <1>1, <1>5, <2>1, <2>2 DEF Bills
<1>8. CASE ~(~Success(r.status) \/ BusinessError) /\ r.price # None
  <2> DEFINE estimated == IF e.estimated THEN "estimated" ELSE "charged"
  <2>1. b = ChargedByMode(e)
    BY <1>1, <1>8 DEF recordRequest
  <2>2. Success(r.status) /\ (Speech => ~result.obs.errored)
    BY <1>3, <1>8 DEF BusinessError
  <2>3. CASE Mode = "free"
    <3>1. b = [e EXCEPT !.charge = 0, !.billing = "free"]
      BY <2>1, <2>3 DEF ChargedByMode
    <3>2. Bills(e, b, 0, "free")
      BY <1>2, <3>1, BillsIs
    <3> QED
      BY <1>1, <1>5, <2>3, <3>2 DEF Bills
  <2>4. CASE Mode = "image"
    <3> DEFINE billing == IF e.images = 0 THEN "unavailable" ELSE estimated
    <3>1. b = [e EXCEPT !.billing = billing]
      BY <2>1, <2>4 DEF ChargedByMode
    <3>2. Bills(e, b, e.charge, billing)
      <4> HIDE DEF billing
      <4> QED
        BY <1>2, <3>1, BillsIs
    <3>3. /\ billing = "unavailable" => e.charge = 0
          /\ billing \in {"unavailable", "estimated", "charged"}
      BY <2>4 DEF IsUnbilled
    <3> HIDE DEF billing
    <3> QED
      BY <1>1, <1>3, <2>2, <2>4, <3>2, <3>3 DEF Bills, ChargedFor, OnceFor
  <2>5. CASE Mode \notin {"free", "image"} /\ e.unavailable
    <3>1. b = [e EXCEPT !.charge = 0, !.billing = "unavailable"]
      BY <2>1, <2>5 DEF ChargedByMode
    <3>2. Bills(e, b, 0, "unavailable")
      BY <1>2, <3>1, BillsIs
    <3>3. Mode = "tokens" => ~ReadInFull
      BY <1>3, <2>2, <2>5 DEF IsUnbilled, IsMetered
    <3> QED
      BY <1>1, <1>5, <3>2, <3>3 DEF Bills
  <2>6. CASE Mode \notin {"free", "image"} /\ ~e.unavailable /\ Mode = "characters"
    <3> DEFINE charge == CharacterCost(r.price, e.characters)
    <3>1. b = [e EXCEPT !.charge = charge, !.billing = "charged"]
      BY <2>1, <2>6 DEF ChargedByMode
    <3>2. Bills(e, b, charge, "charged")
      <4> HIDE DEF charge
      <4> QED
        BY <1>2, <3>1, BillsIs
    <3>3. Speech => result.obs.final
      BY <2>2, <2>6 DEF IsUnbilled, IsMetered
    <3> HIDE DEF charge
    <3> QED
      BY <1>1, <1>3, <1>4, <2>2, <2>6, <3>2, <3>3 DEF Bills, ChargedFor, OnceFor
  <2>7. CASE Mode \notin {"free", "image"} /\ ~e.unavailable /\ Mode # "characters"
    <3> DEFINE charge == TokenCost(r.price, e.tokens)
    <3>1. b = [e EXCEPT !.charge = charge, !.billing = estimated]
      BY <2>1, <2>7 DEF ChargedByMode
    <3>2. Bills(e, b, charge, estimated)
      <4> HIDE DEF charge, estimated
      <4> QED
        BY <1>2, <3>1, BillsIs
    <3>3. ~Speech
      BY <1>3, <1>8, <2>7
    <3>4. /\ e.estimated \in BOOLEAN /\ e.tokens \in TokenCounts
          /\ Success(r.status) => (e.estimated <=> ~ReadInFull)
      BY <2>7, <3>3 DEF IsUnbilled, IsMetered, Uncharged
    <3>5. estimated \in {"charged", "estimated"} /\ (estimated = "charged" <=> ReadInFull)
      BY <2>2, <3>4
    <3>6. Mode = "tokens" => EachOnce(r.price, e.tokens, charge)
      <4>1. Mode = "tokens" => r.price.mode # "free"
        BY DEF Mode
      <4> QED
        BY <3>4, <4>1, TokensAreChargedOnce
    <3> HIDE DEF charge, estimated
    <3> QED
      BY <1>1, <1>3, <1>4, <2>2, <2>7, <3>2, <3>3, <3>5, <3>6 DEF Bills, ChargedFor, OnceFor
  <2> QED
    BY <2>3, <2>4, <2>5, <2>6, <2>7
<1> QED
  BY <1>6, <1>7, <1>8

(* The tap's invariant, and of what is recorded that it may be.            *)
ChargeInv == TapInv /\ (pc = "recorded" => ChargedFor(entry) /\ OnceFor(entry))

LEMMA CompleteRecords ==
  ASSUME TapInv, Complete
  PROVE  (ChargedFor(entry) /\ OnceFor(entry))'
<1> DEFINE m == Metered(OfItsType(ObservedUsage))
           healthy == UpstreamHealthy /\ (Speech => ~TTSRetryableFailure(result.obs))
<1>1. IsMetered(m)
  BY UsageObserved, UsageMetered DEF Complete
<1>2. IsUnbilled(EntryOf(m))
  BY <1>1, EntryUnbilled DEF Complete
<1>3. entry' = [recordRequest(EntryOf(m)) EXCEPT !.healthy = healthy]
  BY DEF Complete, EntryOf
<1> HIDE DEF m, healthy
<1>4. PICK b : b = recordRequest(EntryOf(m))
  OBVIOUS
<1>5. IsEntry(b) /\ ChargedFor(b) /\ OnceFor(b)
  BY <1>2, <1>4, Billed DEF Complete
<1>6. PICK x : x = [b EXCEPT !.healthy = healthy]
  OBVIOUS
<1>7. /\ x.charge = b.charge /\ x.billing = b.billing /\ x.source = b.source
      /\ x.estimated = b.estimated /\ x.tokens = b.tokens
  BY <1>5, <1>6 DEF IsEntry
<1>8. ChargedFor(x) /\ OnceFor(x)
  BY <1>5, <1>7 DEF ChargedFor, OnceFor
<1>9. entry' = x /\ r' = r /\ result' = result
  BY <1>3, <1>4, <1>6 DEF Complete
<1> QED
  BY <1>8, <1>9 DEF ChargedFor, OnceFor, Success, Speech, Mode, ReadInFull

(* Once an answer is recorded nothing of it changes.                       *)
LEMMA RecordedStays ==
  ASSUME TapInv, [Next]_vars, pc' = "recorded", ~Complete
  PROVE  pc = "recorded" /\ UNCHANGED <<r, result, entry>>
<1>1. pc = "recorded" => decoder.state \notin {"decoding", "draining", "drained"}
  BY DEF TapInv, DecoderInv
<1>2. CASE CopyStep
  BY <1>2 DEF CopyStep, ReadBody, WriteClient
<1>3. CASE HandlerStep
  BY <1>3 DEF HandlerStep, Reject, newDecodingTap, TapWrite, PipeWritten, Close
<1>4. CASE DecoderStep
  BY <1>1, <1>4 DEF DecoderStep, Take, Sink, DecodeEnds, Drain
<1>5. CASE UNCHANGED vars
  BY <1>5 DEF vars
<1> QED
  BY <1>2, <1>3, <1>4, <1>5 DEF Next

(* recordRequest charges, of every answer that copyResponse may return, as *)
(* it should, and nothing changes the record afterwards.                   *)
THEOREM RecordsAsCharged == Spec => []ChargeInv
<1>1. Init => (pc = "recorded" => ChargedFor(entry) /\ OnceFor(entry))
  BY DEF Init
<1>2. /\ TapInv /\ (pc = "recorded" => ChargedFor(entry) /\ OnceFor(entry))
      /\ [Next]_vars
      => (pc = "recorded" => ChargedFor(entry) /\ OnceFor(entry))'
  <2> SUFFICES ASSUME TapInv, pc = "recorded" => ChargedFor(entry) /\ OnceFor(entry),
                      [Next]_vars, pc' = "recorded"
               PROVE  (ChargedFor(entry) /\ OnceFor(entry))'
    OBVIOUS
  <2>1. CASE Complete
    BY <2>1, CompleteRecords
  <2>2. CASE ~Complete
    <3>1. pc = "recorded" /\ UNCHANGED <<r, result, entry>>
      BY <2>2, RecordedStays
    <3> QED
      BY <3>1 DEF ChargedFor, OnceFor, Success, Speech, Mode, ReadInFull
  <2> QED
    BY <2>1, <2>2
<1> QED
  BY <1>1, <1>2, TapProgress, PTL DEF Spec, ChargeInv

(* Credits are charged for what was read in full, or as an estimate that   *)
(* says so, and for nothing that failed, was refused or is free.           *)
THEOREM AnswersAreChargedAsRead == Spec => []ChargedAsRead
<1>1. ChargeInv => ChargedAsRead
  <2> SUFFICES ASSUME ChargeInv, pc = "recorded" PROVE ChargedAsRead
    BY DEF ChargedAsRead
  <2> DEFINE obs == Reference(r, Decodable(copy.to), result.complete)
  <2>1. TapInv /\ ChargedFor(entry)
    BY DEF ChargeInv
  <2>2. Mode = "tokens" => ~Speech
    BY <2>1, SpeechFacts DEF Mode
  <2>3. Mode = "tokens" => result.obs = obs
    BY <2>1, <2>2, ObservedIsSent DEF Speech
  <2> HIDE DEF obs
  <2>4. Mode = "tokens" => (ReadInFull <=> obs.final /\ ~result.undecodable)
    BY <2>3 DEF ReadInFull
  <2> QED
    BY <2>1, <2>4 DEF ChargedAsRead, ChargedFor, obs
<1> QED
  BY <1>1, RecordsAsCharged, PTL

(* What is charged follows the one price stored for it: every token of the *)
(* input once, and images by the one rule that is the most specific.       *)
THEOREM AnswersArePricedAsStored == Spec => []PricedAsStored
<1>1. ChargeInv => PricedAsStored
  <2> SUFFICES ASSUME ChargeInv PROVE EveryTokenOnce /\ OneRulePrices
    BY DEF PricedAsStored
  <2>1. EveryTokenOnce
    BY DEF ChargeInv, OnceFor, EveryTokenOnce
  <2>2. OneRulePrices
    <3>1. Mode = "image" /\ pc \notin Before => OneRulePrices
      BY OneRule DEF ChargeInv, TapInv
    <3> QED
      BY <3>1 DEF OneRulePrices, Before
  <2> QED
    BY <2>1, <2>2
<1> QED
  BY <1>1, RecordsAsCharged, PTL
=============================================================================
