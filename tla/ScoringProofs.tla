---------------------------- MODULE ScoringProofs ----------------------------
(***************************************************************************)
(* The totals of scores.  Sums over a table of weights are made with a     *)
(* fold; by induction on the sets of dimensions it is additive, and since  *)
(* every rule rates from 0 to 10 and the weights of a table add up to 100, *)
(* a total lies between 0.00 and 100.00 whatever the metadata.             *)
(***************************************************************************)
EXTENDS Scoring, FiniteSetTheorems, WellFoundedInduction, TLAPS

LEMMA LeastExists ==
    ASSUME NEW T \in SUBSET Nat, T # {} PROVE \E m \in T : \A k \in T : m <= k
<1> DEFINE Less == {ss \in Nat \X Nat : ss[1] < ss[2]}
<1>1. IsWellFoundedOn(Less, Nat)
  <2>1. OpToRel(<, Nat) = Less
    BY DEF OpToRel
  <2> HIDE DEF Less
  <2>2. QED
    BY <2>1, NatLessThanWellFounded
<1>2. PICK x \in T : \A y \in T : <<y, x>> \notin Less
  <2> HIDE DEF Less
  <2>1. QED
    BY <1>1, WFMin
<1>3. ASSUME NEW k \in T PROVE x <= k
  <2>1. <<k, x>> \notin Less
    BY <1>2
  <2>2. QED
    BY <2>1
<1>4. QED
  BY <1>3

(***************************************************************************)
(* Sums over a finite set: the recursive function they are made with.      *)
(***************************************************************************)
Choice(s) == CHOOSE x \in s : TRUE

\* f is the sum of v over the sets in S.
Sums(f, v, S) ==
    f = [s \in S |-> IF s = {} THEN 0 ELSE v[Choice(s)] + f[s \ {Choice(s)}]]

LEMMA RestFacts ==
    ASSUME NEW D, IsFiniteSet(D), NEW s \in SUBSET D
    PROVE  /\ Cardinality(s) \in Nat
           /\ s = {} <=> Cardinality(s) = 0
           /\ s # {} => /\ Choice(s) \in s /\ s \ {Choice(s)} \in SUBSET D
                        /\ Cardinality(s \ {Choice(s)}) = Cardinality(s) - 1
<1>1. IsFiniteSet(s)
  BY FS_Subset
<1>2. s # {} => Choice(s) \in s
  BY DEF Choice
<1>3. QED
  BY <1>1, <1>2, FS_CardinalityType, FS_EmptySet, FS_RemoveElement

LEMMA SumsExist ==
    ASSUME NEW D, IsFiniteSet(D), NEW v PROVE \E f : Sums(f, v, SUBSET D)
<1> DEFINE UpTo(n) == {s \in SUBSET D : Cardinality(s) <= n}
           Bad == {n \in Nat : ~ \E f : Sums(f, v, UpTo(n))}
<1>1. Bad = {}
  <2> SUFFICES ASSUME Bad # {} PROVE FALSE
    OBVIOUS
  <2>1. PICK m \in Bad : \A k \in Bad : m <= k
    <3>1. Bad \in SUBSET Nat
      OBVIOUS
    <3> HIDE DEF Bad
    <3>2. QED
      BY <3>1, LeastExists
  <2>2. m \in Nat
    OBVIOUS
  <2>3. CASE m = 0
    <3> DEFINE g == [s \in UpTo(0) |-> 0]
    <3>1. ASSUME NEW s \in UpTo(0) PROVE s = {}
      <4>1. s \in SUBSET D /\ Cardinality(s) <= 0
        OBVIOUS
      <4> HIDE DEF UpTo
      <4>2. Cardinality(s) \in Nat /\ (s = {} <=> Cardinality(s) = 0)
        BY <4>1, RestFacts
      <4>3. QED
        BY <4>1, <4>2
    <3>2. Sums(g, v, UpTo(0))
      BY <3>1 DEF Sums
    <3>3. QED
      BY <2>3, <3>2
  <2>4. CASE m # 0
    <3>1. m - 1 \in Nat /\ m - 1 \notin Bad
      <4>1. m - 1 \in Nat /\ ~(m <= m - 1)
        BY <2>2, <2>4
      <4> HIDE DEF Bad
      <4>2. QED
        BY <2>1, <4>1
    <3>2. PICK f : Sums(f, v, UpTo(m - 1))
      BY <3>1
    <3> DEFINE g == [s \in UpTo(m) |-> IF s \in UpTo(m - 1) THEN f[s]
                                       ELSE v[Choice(s)] + f[s \ {Choice(s)}]]
    <3>3. ASSUME NEW s \in UpTo(m)
          PROVE  g[s] = IF s = {} THEN 0 ELSE v[Choice(s)] + g[s \ {Choice(s)}]
      <4>1. CASE s = {}
        <5>1. s \in UpTo(m - 1)
          <6>1. s \in SUBSET D /\ Cardinality(s) = 0
            BY <4>1, RestFacts
          <6>2. QED
            BY <3>1, <6>1
        <5>2. f[s] = 0
          BY <3>2, <4>1, <5>1 DEF Sums
        <5>3. QED
          BY <4>1, <5>1, <5>2
      <4>2. CASE s # {}
        <5> DEFINE rest == s \ {Choice(s)}
        <5>1. rest \in UpTo(m - 1) /\ rest \in UpTo(m)
          BY <2>2, <4>2, RestFacts
        <5>2. g[rest] = f[rest]
          BY <5>1
        <5>3. s \in UpTo(m - 1) => f[s] = v[Choice(s)] + f[rest]
          BY <3>2, <4>2 DEF Sums
        <5>4. QED
          BY <4>2, <5>2, <5>3
      <4>3. QED
        BY <4>1, <4>2
    <3>4. Sums(g, v, UpTo(m))
      <4> DEFINE h == [s \in UpTo(m) |-> IF s = {} THEN 0 ELSE v[Choice(s)] + g[s \ {Choice(s)}]]
      <4>1. DOMAIN g = UpTo(m) /\ g = [s \in UpTo(m) |-> g[s]]
        OBVIOUS
      <4> HIDE DEF g
      <4>2. g = h
        BY <3>3, <4>1
      <4>3. QED
        BY <4>2 DEF Sums
    <3>5. QED
      BY <2>2, <3>4
  <2>5. QED
    BY <2>3, <2>4
<1>2. Cardinality(D) \in Nat /\ UpTo(Cardinality(D)) = SUBSET D
  BY FS_CardinalityType, FS_Subset
<1>3. \E f : Sums(f, v, UpTo(Cardinality(D)))
  <2>1. Cardinality(D) \notin Bad
    BY <1>1
  <2>2. QED
    BY <1>2, <2>1
<1> HIDE DEF UpTo
<1>4. QED
  BY <1>2, <1>3

LEMMA SumsType ==
    ASSUME NEW D, IsFiniteSet(D), NEW v, \A x \in D : v[x] \in Nat, NEW f, Sums(f, v, SUBSET D)
    PROVE  \A s \in SUBSET D : f[s] \in Nat
<1> DEFINE Bad == {s \in SUBSET D : f[s] \notin Nat}
           Sizes == {Cardinality(s) : s \in Bad}
<1>1. Sizes \in SUBSET Nat
  <2>1. \A s \in SUBSET D : Cardinality(s) \in Nat
    BY RestFacts
  <2>2. QED
    BY <2>1
<1>2. ASSUME Bad # {} PROVE FALSE
  <2>1. PICK m \in Sizes : \A k \in Sizes : m <= k
    <3>1. Sizes # {}
      BY <1>2
    <3> HIDE DEF Sizes
    <3>2. QED
      BY <1>1, <3>1, LeastExists
  <2>2. PICK s \in Bad : m = Cardinality(s)
    OBVIOUS
  <2> DEFINE rest == s \ {Choice(s)}
  <2>3. f[s] = IF s = {} THEN 0 ELSE v[Choice(s)] + f[rest]
    BY DEF Sums
  <2>4. CASE s = {}
    BY <2>3, <2>4
  <2>5. CASE s # {}
    <3>1. /\ rest \in SUBSET D /\ Cardinality(rest) = m - 1 /\ m \in Nat
          /\ v[Choice(s)] \in Nat
      BY <2>2, <2>5, RestFacts
    <3>2. rest \notin Bad
      BY <2>1, <3>1
    <3>3. f[rest] \in Nat
      BY <3>1, <3>2
    <3> HIDE DEF rest, Bad
    <3>4. f[s] \in Nat
      BY <2>3, <2>5, <3>1, <3>3
    <3>5. QED
      BY <3>4 DEF Bad
  <2>6. QED
    BY <2>4, <2>5
<1>3. QED
  BY <1>2

\* A sum does not depend on the element taken first.
LEMMA SumsTake ==
    ASSUME NEW D, IsFiniteSet(D), NEW v, \A x \in D : v[x] \in Nat, NEW f, Sums(f, v, SUBSET D),
           NEW s \in SUBSET D, NEW x \in s
    PROVE  f[s] = v[x] + f[s \ {x}]
<1> DEFINE Bad == {t \in SUBSET D : \E y \in t : f[t] # v[y] + f[t \ {y}]}
           Sizes == {Cardinality(t) : t \in Bad}
<1>1. Sizes \in SUBSET Nat
  <2>1. \A t \in SUBSET D : Cardinality(t) \in Nat
    BY RestFacts
  <2>2. QED
    BY <2>1
<1>2. \A t \in SUBSET D : f[t] \in Nat
  BY SumsType
<1>3. ASSUME Bad # {} PROVE FALSE
  <2>1. PICK m \in Sizes : \A k \in Sizes : m <= k
    <3>1. Sizes # {}
      BY <1>3
    <3> HIDE DEF Sizes
    <3>2. QED
      BY <1>1, <3>1, LeastExists
  <2>2. PICK t \in Bad : m = Cardinality(t)
    OBVIOUS
  <2>3. PICK y \in t : f[t] # v[y] + f[t \ {y}]
    OBVIOUS
  <2> DEFINE c == Choice(t)
  <2>4. /\ f[t] = v[c] + f[t \ {c}] /\ c \in t /\ t \in SUBSET D
        /\ Cardinality(t \ {c}) = m - 1 /\ Cardinality(t \ {y}) = m - 1 /\ m \in Nat
    <3>1. t \in SUBSET D /\ t # {}
      BY <2>3
    <3>2. f[t] = v[c] + f[t \ {c}]
      BY <3>1 DEF Sums
    <3>3. c \in t /\ Cardinality(t \ {c}) = m - 1 /\ m \in Nat
      BY <2>2, <3>1, RestFacts
    <3>4. Cardinality(t \ {y}) = m - 1
      BY <2>2, <2>3, <3>1, FS_Subset, FS_RemoveElement
    <3>5. QED
      BY <3>1, <3>2, <3>3, <3>4
  <2> HIDE DEF c
  <2>5. c # y
    BY <2>3, <2>4
  <2>6. ASSUME NEW u \in SUBSET D, Cardinality(u) = m - 1 PROVE u \notin Bad
    <3>1. m \in Nat
      BY <2>4
    <3>2. QED
      BY <2>1, <2>6, <3>1
  <2>7. f[t \ {c}] = v[y] + f[(t \ {c}) \ {y}] /\ f[t \ {y}] = v[c] + f[(t \ {y}) \ {c}]
    <3>1. t \ {c} \in SUBSET D /\ t \ {y} \in SUBSET D
      BY <2>4
    <3>2. t \ {c} \notin Bad /\ t \ {y} \notin Bad
      BY <2>4, <2>6, <3>1
    <3>3. y \in t \ {c} /\ c \in t \ {y}
      BY <2>3, <2>4, <2>5
    <3>4. QED
      BY <3>1, <3>2, <3>3
  <2>8. (t \ {c}) \ {y} = (t \ {y}) \ {c}
    OBVIOUS
  <2>9. v[c] \in Nat /\ v[y] \in Nat /\ f[(t \ {y}) \ {c}] \in Nat
    BY <1>2, <2>3, <2>4
  <2> DEFINE a == v[c]
             b == v[y]
             r == f[(t \ {y}) \ {c}]
             withoutC == f[t \ {c}]
             withoutY == f[t \ {y}]
  <2>10. /\ a \in Nat /\ b \in Nat /\ r \in Nat
         /\ f[t] = a + withoutC /\ withoutC = b + r /\ withoutY = a + r
         /\ f[t] # b + withoutY
    BY <2>3, <2>4, <2>7, <2>8, <2>9
  <2> HIDE DEF a, b, r, withoutC, withoutY
  <2>11. QED
    BY <2>10
<1>4. QED
  BY <1>3

\* f sums a table of weights with given ratings, over any of its dimensions.
Additive(f, weights, rating) ==
    /\ f[{}] = 0
    /\ \A s \in SUBSET DOMAIN weights : f[s] \in Nat
    /\ \A s \in SUBSET DOMAIN weights : \A x \in s :
          f[s] = rating[x] * weights[x] + f[s \ {x}]

LEMMA RatingType == \A r \in Rating : r \in Nat
  BY SMT DEF Rating

LEMMA WeightedIsSum ==
    ASSUME NEW weights, NEW rating, IsFiniteSet(DOMAIN weights),
           \A x \in DOMAIN weights : rating[x] \in Rating /\ weights[x] \in Nat
    PROVE  \E f : Additive(f, weights, rating) /\ Weighted(weights, rating) = f[DOMAIN weights]
<1> DEFINE D == DOMAIN weights
           v == [x \in D |-> rating[x] * weights[x]]
           iter == CHOOSE iter : iter = [s \in SUBSET D |->
                      IF s = {} THEN 0
                      ELSE rating[CHOOSE x \in s : TRUE] * weights[CHOOSE x \in s : TRUE]
                              + iter[s \ {CHOOSE x \in s : TRUE}]]
           Rec(f) == f = [s \in SUBSET D |->
                      IF s = {} THEN 0
                      ELSE rating[CHOOSE x \in s : TRUE] * weights[CHOOSE x \in s : TRUE]
                              + f[s \ {CHOOSE x \in s : TRUE}]]
<1>1. Weighted(weights, rating) = iter[D]
  BY DEF Weighted, MapThenSumSet, MapThenFoldSet
<1>2. \A f : Rec(f) <=> Sums(f, v, SUBSET D)
  BY DEF Sums, Choice
<1>3. \A x \in D : v[x] = rating[x] * weights[x] /\ v[x] \in Nat
  <2> SUFFICES ASSUME NEW x \in D PROVE v[x] = rating[x] * weights[x] /\ v[x] \in Nat
    OBVIOUS
  <2>1. \A m, n \in Nat : m * n \in Nat
    OBVIOUS
  <2>2. rating[x] \in Nat /\ weights[x] \in Nat /\ v[x] = rating[x] * weights[x]
    BY RatingType, ZenonT(30)
  <2>3. QED
    BY <2>1, <2>2, ZenonT(30)
<1> HIDE DEF v
<1>4. \E f : Sums(f, v, SUBSET D)
  BY SumsExist
<1>5. iter = CHOOSE f : Rec(f)
  OBVIOUS
<1> HIDE DEF iter, Rec
<1>6. Sums(iter, v, SUBSET D)
  BY <1>2, <1>4, <1>5, Zenon
<1>7. iter[{}] = 0
  BY <1>6 DEF Sums
<1>8. \A s \in SUBSET D : iter[s] \in Nat
  <2> SUFFICES ASSUME NEW s \in SUBSET D PROVE iter[s] \in Nat
    OBVIOUS
  <2>1. QED
    BY <1>3, <1>6, SumsType
<1>9. \A s \in SUBSET D : \A x \in s : iter[s] = v[x] + iter[s \ {x}]
  <2> SUFFICES ASSUME NEW s \in SUBSET D, NEW x \in s PROVE iter[s] = v[x] + iter[s \ {x}]
    OBVIOUS
  <2>1. \A y \in D : v[y] \in Nat
    BY <1>3
  <2>2. QED
    BY <1>6, <2>1, SumsTake
<1>10. \A s \in SUBSET D : \A x \in s : iter[s] = rating[x] * weights[x] + iter[s \ {x}]
  BY <1>3, <1>9
<1>11. QED
  BY <1>1, <1>7, <1>8, <1>10 DEF Additive

\* The sum over t is that of weights of n at most, all with the best rating.
Within(f, weights, rating, t, n) ==
    /\ Additive(f, weights, rating) /\ \A x \in DOMAIN weights : rating[x] \in Rating
    /\ t \in SUBSET DOMAIN weights /\ f[t] \in 0..(1000 * n)

\* One more dimension adds its weight.
LEMMA OneMore ==
    ASSUME NEW weights, NEW rating, NEW f, NEW t, NEW n \in Nat, Within(f, weights, rating, t, n),
           NEW x \in DOMAIN weights, x \notin t, weights[x] \in 0..100,
           NEW m, m = n + weights[x]
    PROVE  Within(f, weights, rating, t \cup {x}, m)
<1>1. (t \cup {x}) \ {x} = t /\ x \in t \cup {x} /\ t \cup {x} \in SUBSET DOMAIN weights
  BY DEF Within
<1>2. f[t \cup {x}] = rating[x] * weights[x] + f[t]
  BY <1>1 DEF Additive, Within
<1> DEFINE r == rating[x]
           w == weights[x]
           sum == f[t]
           more == f[t \cup {x}]
<1>3. /\ r \in 0..1000 /\ w \in 0..100 /\ sum \in 0..(1000 * n) /\ more = r * w + sum
      /\ m = n + w
  BY <1>2 DEF Rating, Within
<1> HIDE DEF r, sum, more, w
<1>4. r * w \in 0..(1000 * w)
  <2>1. \A a, b \in Nat : a * b \in Nat
    OBVIOUS
  <2>2. (1000 - r) * w \in Nat /\ r * w \in Nat
    BY <1>3, <2>1
  <2>3. (1000 - r) * w = 1000 * w - r * w
    BY <1>3
  <2> DEFINE p == r * w
             q == (1000 - r) * w
  <2>4. p \in Nat /\ q \in Nat /\ q = 1000 * w - p
    BY <2>2, <2>3
  <2> HIDE DEF p, q
  <2>5. p \in 0..(1000 * w)
    BY <1>3, <2>4
  <2>6. QED
    BY <2>5 DEF p
<1>5. more \in 0..(1000 * m)
  <2> DEFINE p == r * w
  <2>1. p \in 0..(1000 * w) /\ more = p + sum
    BY <1>3, <1>4
  <2> HIDE DEF p
  <2>2. QED
    BY <1>3, <2>1
<1>6. QED
  BY <1>1, <1>5 DEF more, Within

\* Ratings of 10 with weights that add up to 100.
Sum100 == 0..(1000 * 100)

LEMMA Sum100Bounds == ASSUME NEW w \in Sum100 PROVE w \in Int /\ 0 <= w /\ w <= 1000 * 100
<1> DEFINE top == 1000 * 100
<1>1. top \in Nat
  BY SMT
<1>2. w \in 0..top
  BY Zenon DEF Sum100
<1> HIDE DEF top
<1>3. w \in Int /\ 0 <= w /\ w <= top
  BY <1>1, <1>2, SMT
<1>4. QED
  BY <1>3, Zenon DEF top

\* All dimensions together.
LEMMA WholeWithin ==
    ASSUME NEW weights, NEW rating, NEW f, NEW t, Within(f, weights, rating, t, 100),
           t = DOMAIN weights, Weighted(weights, rating) = f[DOMAIN weights]
    PROVE  Weighted(weights, rating) \in Sum100
<1> DEFINE n == 100
<1>1. Within(f, weights, rating, t, n) /\ Sum100 = 0..(1000 * n)
  BY DEF Sum100
<1> HIDE DEF n
<1> DEFINE top == 1000 * n
<1>2. f[t] \in 0..top
  BY <1>1, Zenon DEF Within
<1>3. Sum100 = 0..top
  BY <1>1, Zenon
<1> HIDE DEF top
<1>4. Weighted(weights, rating) = f[t]
  BY Zenon
<1>5. QED
  BY <1>2, <1>3, <1>4, Zenon

\* The weights of each table add up to 100.
LEMMA SeedSum ==
    ASSUME NEW rating, \A k \in DOMAIN SEED_WEIGHTS : rating[k] \in Rating
    PROVE  Weighted(SEED_WEIGHTS, rating) \in Sum100
<1> DEFINE W == SEED_WEIGHTS
           k1 == "past_reconstruction_impossibility"
           k2 == "direct_money_link"
           k3 == "multi_source_join_value"
           k4 == "automated_collection"
           k5 == "update_frequency"
           k6 == "ground_truth_possible"
           k7 == "storage_operations_cost"
<1>1. /\ DOMAIN W = {k1, k2, k3, k4, k5, k6, k7}
      /\ W[k1] = 25
      /\ W[k2] = 20
      /\ W[k3] = 15
      /\ W[k4] = 15
      /\ W[k5] = 10
      /\ W[k6] = 10
      /\ W[k7] = 5
  BY DEF SEED_WEIGHTS
<1>2. /\ k2 \notin {k1}
      /\ k3 \notin {k1, k2}
      /\ k4 \notin {k1, k2, k3}
      /\ k5 \notin {k1, k2, k3, k4}
      /\ k6 \notin {k1, k2, k3, k4, k5}
      /\ k7 \notin {k1, k2, k3, k4, k5, k6}
  OBVIOUS
<1> HIDE DEF k1, k2, k3, k4, k5, k6, k7
<1>3. IsFiniteSet(DOMAIN W)
  <2>1. IsFiniteSet({k1})
    BY FS_Singleton
  <2>2. IsFiniteSet({k1, k2})
    BY <2>1, FS_AddElement
  <2>3. IsFiniteSet({k1, k2, k3})
    BY <2>2, FS_AddElement
  <2>4. IsFiniteSet({k1, k2, k3, k4})
    BY <2>3, FS_AddElement
  <2>5. IsFiniteSet({k1, k2, k3, k4, k5})
    BY <2>4, FS_AddElement
  <2>6. IsFiniteSet({k1, k2, k3, k4, k5, k6})
    BY <2>5, FS_AddElement
  <2>7. IsFiniteSet({k1, k2, k3, k4, k5, k6, k7})
    BY <2>6, FS_AddElement
  <2>8. QED
    BY <1>1, <2>7
<1>4. \A x \in DOMAIN W : rating[x] \in Rating /\ W[x] \in Nat
  BY <1>1
<1> HIDE DEF W
<1>5. PICK f : Additive(f, W, rating) /\ Weighted(W, rating) = f[DOMAIN W]
  BY <1>3, <1>4, WeightedIsSum
<1>6. Within(f, W, rating, {}, 0)
  <2>1. f[{}] = 0 /\ {} \in SUBSET DOMAIN W
    BY <1>5 DEF Additive
  <2>2. QED
    BY <1>4, <1>5, <2>1 DEF Within
<1>7. Within(f, W, rating, {k1}, 25)
  BY <1>1, <1>2, <1>6, OneMore
<1>8. Within(f, W, rating, {k1, k2}, 45)
  BY <1>1, <1>2, <1>7, OneMore
<1>9. Within(f, W, rating, {k1, k2, k3}, 60)
  BY <1>1, <1>2, <1>8, OneMore
<1>10. Within(f, W, rating, {k1, k2, k3, k4}, 75)
  BY <1>1, <1>2, <1>9, OneMore
<1>11. Within(f, W, rating, {k1, k2, k3, k4, k5}, 85)
  BY <1>1, <1>2, <1>10, OneMore
<1>12. Within(f, W, rating, {k1, k2, k3, k4, k5, k6}, 95)
  BY <1>1, <1>2, <1>11, OneMore
<1>13. Within(f, W, rating, {k1, k2, k3, k4, k5, k6, k7}, 100)
  BY <1>1, <1>2, <1>12, OneMore
<1>14. DOMAIN W = {k1, k2, k3, k4, k5, k6, k7}
  BY <1>1
<1>15. Weighted(W, rating) \in Sum100
  BY <1>5, <1>13, <1>14, WholeWithin
<1>16. QED
  BY <1>15 DEF W

LEMMA EphemeralSum ==
    ASSUME NEW rating, \A k \in DOMAIN EPHEMERAL_WEIGHTS : rating[k] \in Rating
    PROVE  Weighted(EPHEMERAL_WEIGHTS, rating) \in Sum100
<1> DEFINE W == EPHEMERAL_WEIGHTS
           k1 == "overwrite_risk"
           k2 == "historical_absence"
           k3 == "refresh_velocity"
           k4 == "economic_state"
           k5 == "machine_capture"
<1>1. /\ DOMAIN W = {k1, k2, k3, k4, k5}
      /\ W[k1] = 30
      /\ W[k2] = 25
      /\ W[k3] = 15
      /\ W[k4] = 20
      /\ W[k5] = 10
  BY DEF EPHEMERAL_WEIGHTS
<1>2. /\ k2 \notin {k1}
      /\ k3 \notin {k1, k2}
      /\ k4 \notin {k1, k2, k3}
      /\ k5 \notin {k1, k2, k3, k4}
  OBVIOUS
<1> HIDE DEF k1, k2, k3, k4, k5
<1>3. IsFiniteSet(DOMAIN W)
  <2>1. IsFiniteSet({k1})
    BY FS_Singleton
  <2>2. IsFiniteSet({k1, k2})
    BY <2>1, FS_AddElement
  <2>3. IsFiniteSet({k1, k2, k3})
    BY <2>2, FS_AddElement
  <2>4. IsFiniteSet({k1, k2, k3, k4})
    BY <2>3, FS_AddElement
  <2>5. IsFiniteSet({k1, k2, k3, k4, k5})
    BY <2>4, FS_AddElement
  <2>6. QED
    BY <1>1, <2>5
<1>4. \A x \in DOMAIN W : rating[x] \in Rating /\ W[x] \in Nat
  BY <1>1
<1> HIDE DEF W
<1>5. PICK f : Additive(f, W, rating) /\ Weighted(W, rating) = f[DOMAIN W]
  BY <1>3, <1>4, WeightedIsSum
<1>6. Within(f, W, rating, {}, 0)
  <2>1. f[{}] = 0 /\ {} \in SUBSET DOMAIN W
    BY <1>5 DEF Additive
  <2>2. QED
    BY <1>4, <1>5, <2>1 DEF Within
<1>7. Within(f, W, rating, {k1}, 30)
  BY <1>1, <1>2, <1>6, OneMore
<1>8. Within(f, W, rating, {k1, k2}, 55)
  BY <1>1, <1>2, <1>7, OneMore
<1>9. Within(f, W, rating, {k1, k2, k3}, 70)
  BY <1>1, <1>2, <1>8, OneMore
<1>10. Within(f, W, rating, {k1, k2, k3, k4}, 90)
  BY <1>1, <1>2, <1>9, OneMore
<1>11. Within(f, W, rating, {k1, k2, k3, k4, k5}, 100)
  BY <1>1, <1>2, <1>10, OneMore
<1>12. DOMAIN W = {k1, k2, k3, k4, k5}
  BY <1>1
<1>13. Weighted(W, rating) \in Sum100
  BY <1>5, <1>11, <1>12, WholeWithin
<1>14. QED
  BY <1>13 DEF W

LEMMA PraSum ==
    ASSUME NEW rating, \A k \in DOMAIN PRA_WEIGHTS : rating[k] \in Rating
    PROVE  Weighted(PRA_WEIGHTS, rating) \in Sum100
<1> DEFINE W == PRA_WEIGHTS
           k1 == "existing_payment_evidence"
           k2 == "cost_substitution"
           k3 == "join_amplification"
           k4 == "release_probability"
           k5 == "lead_time"
           k6 == "data_time"
           k7 == "distribution_payer"
           k8 == "machine_processability"
           k9 == "non_obviousness"
<1>1. /\ DOMAIN W = {k1, k2, k3, k4, k5, k6, k7, k8, k9}
      /\ W[k1] = 20
      /\ W[k2] = 15
      /\ W[k3] = 15
      /\ W[k4] = 10
      /\ W[k5] = 10
      /\ W[k6] = 10
      /\ W[k7] = 10
      /\ W[k8] = 5
      /\ W[k9] = 5
  BY DEF PRA_WEIGHTS
<1>2. /\ k2 \notin {k1}
      /\ k3 \notin {k1, k2}
      /\ k4 \notin {k1, k2, k3}
      /\ k5 \notin {k1, k2, k3, k4}
      /\ k6 \notin {k1, k2, k3, k4, k5}
      /\ k7 \notin {k1, k2, k3, k4, k5, k6}
      /\ k8 \notin {k1, k2, k3, k4, k5, k6, k7}
      /\ k9 \notin {k1, k2, k3, k4, k5, k6, k7, k8}
  OBVIOUS
<1> HIDE DEF k1, k2, k3, k4, k5, k6, k7, k8, k9
<1>3. IsFiniteSet(DOMAIN W)
  <2>1. IsFiniteSet({k1})
    BY FS_Singleton
  <2>2. IsFiniteSet({k1, k2})
    BY <2>1, FS_AddElement
  <2>3. IsFiniteSet({k1, k2, k3})
    BY <2>2, FS_AddElement
  <2>4. IsFiniteSet({k1, k2, k3, k4})
    BY <2>3, FS_AddElement
  <2>5. IsFiniteSet({k1, k2, k3, k4, k5})
    BY <2>4, FS_AddElement
  <2>6. IsFiniteSet({k1, k2, k3, k4, k5, k6})
    BY <2>5, FS_AddElement
  <2>7. IsFiniteSet({k1, k2, k3, k4, k5, k6, k7})
    BY <2>6, FS_AddElement
  <2>8. IsFiniteSet({k1, k2, k3, k4, k5, k6, k7, k8})
    BY <2>7, FS_AddElement
  <2>9. IsFiniteSet({k1, k2, k3, k4, k5, k6, k7, k8, k9})
    BY <2>8, FS_AddElement
  <2>10. QED
    BY <1>1, <2>9
<1>4. \A x \in DOMAIN W : rating[x] \in Rating /\ W[x] \in Nat
  BY <1>1
<1> HIDE DEF W
<1>5. PICK f : Additive(f, W, rating) /\ Weighted(W, rating) = f[DOMAIN W]
  BY <1>3, <1>4, WeightedIsSum
<1>6. Within(f, W, rating, {}, 0)
  <2>1. f[{}] = 0 /\ {} \in SUBSET DOMAIN W
    BY <1>5 DEF Additive
  <2>2. QED
    BY <1>4, <1>5, <2>1 DEF Within
<1>7. Within(f, W, rating, {k1}, 20)
  BY <1>1, <1>2, <1>6, OneMore
<1>8. Within(f, W, rating, {k1, k2}, 35)
  BY <1>1, <1>2, <1>7, OneMore
<1>9. Within(f, W, rating, {k1, k2, k3}, 50)
  BY <1>1, <1>2, <1>8, OneMore
<1>10. Within(f, W, rating, {k1, k2, k3, k4}, 60)
  BY <1>1, <1>2, <1>9, OneMore
<1>11. Within(f, W, rating, {k1, k2, k3, k4, k5}, 70)
  BY <1>1, <1>2, <1>10, OneMore
<1>12. Within(f, W, rating, {k1, k2, k3, k4, k5, k6}, 80)
  BY <1>1, <1>2, <1>11, OneMore
<1>13. Within(f, W, rating, {k1, k2, k3, k4, k5, k6, k7}, 90)
  BY <1>1, <1>2, <1>12, OneMore
<1>14. Within(f, W, rating, {k1, k2, k3, k4, k5, k6, k7, k8}, 95)
  BY <1>1, <1>2, <1>13, OneMore
<1>15. Within(f, W, rating, {k1, k2, k3, k4, k5, k6, k7, k8, k9}, 100)
  BY <1>1, <1>2, <1>14, OneMore
<1>16. DOMAIN W = {k1, k2, k3, k4, k5, k6, k7, k8, k9}
  BY <1>1
<1>17. Weighted(W, rating) \in Sum100
  BY <1>5, <1>15, <1>16, WholeWithin
<1>18. QED
  BY <1>17 DEF W

(***************************************************************************)
(* The dimensions: each rule rates from 0 to 1000.                         *)
(***************************************************************************)
LEMMA BoundedRates == \A n \in Int : _bounded(n) \in Rating
  BY DEF _bounded, Rating

LEMMA BasicRates ==
    ASSUME NEW f \in Features
    PROVE  /\ _frequency_rating(f.cadence) \in Rating /\ HistoryRating(f) \in Rating
           /\ MachineRating(f) \in Rating /\ StorageRating(f) \in Rating
           /\ f.money \in Nat /\ f.join \in Nat /\ f.outcome \in Nat
<1>1. /\ f.cadence \in {"realtime", "daily", "weekly", "monthly", "yearly", "other"}
      /\ f.access \in {"api", "file", "manual"}
      /\ f.money \in Nat /\ f.join \in Nat /\ f.outcome \in Nat
  BY DEF Features
<1>2. _frequency_rating(f.cadence) \in Rating
  BY <1>1 DEF _frequency_rating, Rating
<1>3. MachineRating(f) \in Rating
  BY <1>1 DEF MachineRating, Rating
<1>4. HistoryRating(f) \in Rating /\ StorageRating(f) \in Rating
  BY DEF HistoryRating, StorageRating, Rating
<1>5. QED
  BY <1>1, <1>2, <1>3, <1>4

LEMMA SeedRates ==
    ASSUME NEW f \in Features, NEW k \in DOMAIN SEED_WEIGHTS PROVE seed_dimensions(f)[k] \in Rating
<1>1. /\ 200 + 160 * f.money \in Int /\ 200 + 125 * f.join \in Int /\ 300 + 140 * f.outcome \in Int
  BY BasicRates
<1>2. QED
  BY <1>1, BasicRates, BoundedRates DEF seed_dimensions, SEED_WEIGHTS

LEMMA EphemeralRates ==
    ASSUME NEW f \in Features, NEW k \in DOMAIN EPHEMERAL_WEIGHTS
    PROVE  ephemeral_dimensions(f)[k] \in Rating
<1>1. 200 + 160 * f.money \in Int
  BY BasicRates
<1>2. (_frequency_rating(f.cadence) + HistoryRating(f)) \div 2 \in Int
  <2> DEFINE a == _frequency_rating(f.cadence)
             b == HistoryRating(f)
  <2>1. a \in Rating /\ b \in Rating
    BY BasicRates
  <2> HIDE DEF a, b
  <2>2. (a + b) \div 2 \in Int
    BY <2>1 DEF Rating
  <2>3. QED
    BY <2>2 DEF a, b
<1>3. QED
  BY <1>1, <1>2, BasicRates, BoundedRates DEF ephemeral_dimensions, EPHEMERAL_WEIGHTS

LEMMA DatasetRates ==
    ASSUME NEW f \in Features, NEW status, NEW k \in DOMAIN PRA_WEIGHTS
    PROVE  pra_dimensions_dataset(status, f)[k] \in Rating
<1> DEFINE m == MachineRating(f)
           money == f.money
           sum == Weighted(EPHEMERAL_WEIGHTS, ephemeral_dimensions(f))
           usage == [low |-> 800, medium |-> 600, high |-> 300][f.usage]
           release == CASE status = "OPEN" -> 1000 [] status = "OPEN_LINKED" -> 700 [] OTHER -> 400
           lead == IF status = "OPEN" THEN 200 ELSE IF f.upcoming THEN 800 ELSE 500
           rated == [existing_payment_evidence |-> _bounded(200 + 140 * money),
                     cost_substitution      |-> _bounded(200 + (35 * m) \div 100 + 70 * money),
                     join_amplification     |-> _bounded(200 + 125 * f.join),
                     release_probability    |-> release,
                     lead_time              |-> lead,
                     data_time              |-> (sum + 50) \div 100,
                     distribution_payer     |-> _bounded(200 + 125 * money),
                     machine_processability |-> m,
                     non_obviousness        |-> usage]
<1>1. pra_dimensions_dataset(status, f) = rated
  BY DEF pra_dimensions_dataset
<1>2. usage \in Rating
  BY DEF Features, Rating
<1>3. release \in Rating /\ lead \in Rating
  BY DEF Rating
<1>4. sum \in Sum100
  BY EphemeralRates, EphemeralSum
<1>5. money \in Nat /\ m \in Rating /\ f.join \in Nat
  BY BasicRates
<1> HIDE DEF m, money, sum, usage, release, lead
<1>6. (sum + 50) \div 100 \in Rating
  <2>1. sum \in Int /\ 0 <= sum /\ sum <= 1000 * 100
    BY <1>4, Sum100Bounds
  <2>2. (sum + 50) \div 100 \in Int /\ 0 <= (sum + 50) \div 100 /\ (sum + 50) \div 100 <= 1000
    BY <2>1, SMTT(30)
  <2>3. QED
    BY <2>2 DEF Rating
<1>7. /\ _bounded(200 + 140 * money) \in Rating /\ _bounded(200 + 125 * money) \in Rating
      /\ _bounded(200 + 125 * f.join) \in Rating
  BY <1>5, BoundedRates
<1>8. _bounded(200 + (35 * m) \div 100 + 70 * money) \in Rating
  <2>1. (35 * m) \div 100 \in Int
    BY <1>5 DEF Rating
  <2>2. 200 + (35 * m) \div 100 + 70 * money \in Int
    BY <1>5, <2>1
  <2>3. QED
    BY <2>2, BoundedRates
<1>9. rated[k] \in Rating
  BY <1>2, <1>3, <1>5, <1>6, <1>7, <1>8 DEF PRA_WEIGHTS
<1>10. QED
  BY <1>1, <1>9

LEMMA TenthOf == ASSUME NEW w \in Sum100 PROVE (w + 5) \div 10 \in ScoreValue
<1>1. w \in Int /\ 0 <= w /\ w <= 1000 * 100
  BY Sum100Bounds
<1>2. QED
  BY <1>1, SMTT(30) DEF ScoreValue

\* A total of ratings is a score of at most 100.00.
LEMMA TotalType ==
    ASSUME NEW weights, NEW rating, Weighted(weights, rating) \in Sum100
    PROVE  Total(weights, rating) \in ScoreValue
  BY TenthOf DEF Total

\* Whatever the metadata and the overrides of a dataset, its three scores are
\* between 0.00 and 100.00.
THEOREM ScoresBounded ==
    ASSUME NEW f \in Features, NEW status, NEW rating, \A k \in SeedDimension : rating[k] \in Rating
    PROVE  /\ Total(SEED_WEIGHTS, rating) \in ScoreValue
           /\ Total(EPHEMERAL_WEIGHTS, ephemeral_dimensions(f)) \in ScoreValue
           /\ Total(PRA_WEIGHTS, pra_dimensions_dataset(status, f)) \in ScoreValue
<1>1. Weighted(SEED_WEIGHTS, rating) \in Sum100
  BY SeedSum DEF SeedDimension
<1>2. Weighted(EPHEMERAL_WEIGHTS, ephemeral_dimensions(f)) \in Sum100
  BY EphemeralRates, EphemeralSum
<1>3. Weighted(PRA_WEIGHTS, pra_dimensions_dataset(status, f)) \in Sum100
  BY DatasetRates, PraSum
<1>4. QED
  BY <1>1, <1>2, <1>3, TotalType
=============================================================================
