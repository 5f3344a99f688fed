---------------------------- MODULE GradesProofs ----------------------------
(***************************************************************************)
(* For any class, configurations, scripts' reports, answers, points and    *)
(* number of uploads: the evidence is exact, the grade is fair and the     *)
(* books agree.                                                            *)
(*                                                                         *)
(* First arithmetic: fractions, sums, rounding, and what they give for the *)
(* grade.  Then the lists the marks are made from: draws, slices, shuffled *)
(* options, the check plan.  Then the inductive invariant GradesInv, which *)
(* relates the submissions, the check under way, the sheet, the attempts   *)
(* and the grades, and its preservation by each action.                    *)
(***************************************************************************)
EXTENDS Grades, FiniteSetTheorems, WellFoundedInduction, TLAPS

\* A score that is there.
Value == [n : Int, d : Nat \ {0}]

LEMMA Element ==
    ASSUME NEW S, NEW s \in Seq(S), NEW i \in DOMAIN s
    PROVE  s[i] \in S
OBVIOUS

LEMMA Remainder ==
    ASSUME NEW a \in Int, NEW b \in Int, NEW p \in Int
    PROVE  \A t \in Int : p + t = b - a => a + p + t = b
OBVIOUS

LEMMA TimesMono ==
    ASSUME NEW a \in Int, NEW b \in Int, NEW c \in Nat, a >= b
    PROVE  a * c >= b * c
OBVIOUS

LEMMA TimesStrict ==
    ASSUME NEW a \in Int, NEW b \in Int, NEW c \in Nat \ {0}, a > b
    PROVE  a * c > b * c
OBVIOUS

LEMMA TimesPos ==
    ASSUME NEW a \in Nat \ {0}, NEW b \in Nat \ {0}
    PROVE  a * b \in Nat \ {0}
OBVIOUS

\* What \div and % return.
LEMMA Quotient ==
    ASSUME NEW n \in Int, NEW d \in Nat \ {0}
    PROVE  /\ n \div d \in Int /\ n % d \in 0 .. d - 1
           /\ d * (n \div d) + (n % d) = n
           /\ d * (n \div d) <= n /\ n < d * (n \div d) + d
<1>1. n \div d \in Int
  OBVIOUS
<1>2. n % d \in 0 .. d - 1
  OBVIOUS
<1>3. n % d = n - d * (n \div d)
  BY Z3
<1> DEFINE p == d * (n \div d)
           r == n % d
<1>4. p \in Int /\ r \in 0 .. d - 1 /\ r = n - p
  BY <1>1, <1>2, <1>3
<1> HIDE DEF p, r
<1>5. p + r = n /\ p <= n /\ n < p + d
  BY <1>4
<1> QED BY <1>1, <1>2, <1>5 DEF p, r

\* The floor of a fraction grows with it.
LEMMA FloorGrows ==
    ASSUME NEW n \in Int, NEW d \in Nat \ {0}, NEW m \in Int, NEW e \in Nat \ {0},
           n * e >= m * d
    PROVE  n \div d >= m \div e
<1> DEFINE p == n \div d
           q == m \div e
<1>1. p \in Int /\ q \in Int /\ n < d * p + d /\ e * q <= m
  BY Quotient
<1> HIDE DEF p, q
<1>2. SUFFICES ASSUME p < q PROVE FALSE
  BY <1>1 DEF p, q
<1>3. (p + 1) * d <= q * d
  BY <1>1, <1>2, TimesMono
<1>4. n < q * d
  BY <1>1, <1>3
<1>5. n * e < (q * d) * e
  BY <1>1, <1>4, TimesStrict
<1>6. (e * q) * d <= m * d
  BY <1>1, TimesMono
<1> QED BY <1>1, <1>5, <1>6

\* Each rounding the grades use is monotone.
LEMMA RoundUpGrows ==
    ASSUME NEW n \in Int, NEW d \in Nat \ {0}, NEW m \in Int, NEW e \in Nat \ {0},
           n * e >= m * d, NEW p \in Int, NEW q \in Int,
           n + d - 1 < d * p + d, e * q <= m + e - 1
    PROVE  p >= q
<1>1. SUFFICES ASSUME p <= q - 1 PROVE FALSE
  OBVIOUS
<1>2. n <= p * d
  OBVIOUS
<1>3. p * d <= (q - 1) * d
  BY <1>1, TimesMono
<1>4. n <= (q - 1) * d
  BY <1>2, <1>3
<1>5. n * e <= ((q - 1) * d) * e
  BY <1>4, TimesMono
<1>6. (q - 1) * e < m
  OBVIOUS
<1>7. ((q - 1) * e) * d < m * d
  BY <1>6, TimesStrict
<1>8. ((q - 1) * e) * d = ((q - 1) * d) * e
  OBVIOUS
<1> QED BY <1>5, <1>7, <1>8

LEMMA CeilGrows ==
    ASSUME NEW f \in Value, NEW g \in Value, AtLeast(f, g)
    PROVE  Ceil(f) \in Int /\ Ceil(g) \in Int /\ Ceil(f) >= Ceil(g)
<1> DEFINE p == Ceil(f)
           q == Ceil(g)
<1>1. /\ f.n \in Int /\ f.d \in Nat \ {0} /\ g.n \in Int /\ g.d \in Nat \ {0}
      /\ f.n * g.d >= g.n * f.d
  BY DEF Value, AtLeast
<1>2. p = (f.n + f.d - 1) \div f.d /\ q = (g.n + g.d - 1) \div g.d
  BY DEF Ceil
<1>3. f.n + f.d - 1 \in Int /\ g.n + g.d - 1 \in Int
  BY <1>1
<1> HIDE DEF p, q
<1>4. /\ p \in Int /\ q \in Int
      /\ f.n + f.d - 1 < f.d * p + f.d /\ g.d * q <= g.n + g.d - 1
  BY <1>1, <1>2, <1>3, Quotient
<1>5. p >= q
  BY <1>1, <1>4, RoundUpGrows
<1> QED BY <1>4, <1>5 DEF p, q

LEMMA HalfUpGrows ==
    ASSUME NEW f \in Value, NEW g \in Value, AtLeast(f, g)
    PROVE  HalfUp(f) \in Int /\ HalfUp(g) \in Int /\ HalfUp(f) >= HalfUp(g)
<1>1. /\ f.n \in Int /\ f.d \in Nat \ {0} /\ g.n \in Int /\ g.d \in Nat \ {0}
      /\ f.n * g.d >= g.n * f.d
  BY DEF Value, AtLeast
<1>2. /\ 2 * f.n + f.d \in Int /\ 2 * f.d \in Nat \ {0}
      /\ 2 * g.n + g.d \in Int /\ 2 * g.d \in Nat \ {0}
  BY <1>1
<1>3. (2 * f.n + f.d) * (2 * g.d) >= (2 * g.n + g.d) * (2 * f.d)
  BY <1>1
<1>4. (2 * f.n + f.d) \div (2 * f.d) >= (2 * g.n + g.d) \div (2 * g.d)
  BY <1>2, <1>3, FloorGrows
<1> QED BY <1>2, <1>4, Quotient DEF HalfUp

\* Of two remainders over one floor, the greater one passes the half no later.
LEMMA HalvesGrow ==
    ASSUME NEW r \in Nat, NEW d \in Nat \ {0}, NEW s \in Nat, NEW e \in Nat \ {0},
           r * e >= s * d
    PROVE  /\ 2 * s > e => 2 * r > d
           /\ 2 * s = e => 2 * r >= d
<1>1. (2 * r) * e >= (2 * s) * d
  OBVIOUS
<1>2. ASSUME 2 * s > e PROVE 2 * r > d
  <2>1. (2 * s) * d > e * d
    BY <1>2, TimesStrict
  <2>2. SUFFICES ASSUME d >= 2 * r PROVE FALSE
    OBVIOUS
  <2>3. d * e >= (2 * r) * e
    BY <2>2, TimesMono
  <2>4. d * e = e * d
    OBVIOUS
  <2> QED BY <1>1, <2>1, <2>3, <2>4
<1>3. ASSUME 2 * s = e PROVE 2 * r >= d
  <2>1. SUFFICES ASSUME d > 2 * r PROVE FALSE
    OBVIOUS
  <2>2. d * e > (2 * r) * e
    BY <2>1, TimesStrict
  <2>3. d * e = (2 * s) * d
    BY <1>3
  <2> QED BY <1>1, <2>2, <2>3
<1> QED BY <1>2, <1>3

LEMMA HalfEvenGrows ==
    ASSUME NEW f \in Value, NEW g \in Value, AtLeast(f, g)
    PROVE  HalfEven(f) \in Int /\ HalfEven(g) \in Int /\ HalfEven(f) >= HalfEven(g)
<1> DEFINE p == f.n \div f.d
           q == g.n \div g.d
           r == f.n % f.d
           s == g.n % g.d
<1>1. /\ f.n \in Int /\ f.d \in Nat \ {0} /\ g.n \in Int /\ g.d \in Nat \ {0}
      /\ f.n * g.d >= g.n * f.d
  BY DEF Value, AtLeast
<1>2. p >= q
  BY <1>1, FloorGrows
<1>3. /\ p \in Int /\ r \in 0 .. f.d - 1 /\ f.d * p + r = f.n
      /\ q \in Int /\ s \in 0 .. g.d - 1 /\ g.d * q + s = g.n
  BY <1>1, Quotient
<1>4. p % 2 \in 0 .. 1 /\ q % 2 \in 0 .. 1
  BY <1>3
<1>5. /\ HalfEven(f) = IF 2 * r = f.d THEN p + (p % 2) ELSE IF 2 * r < f.d THEN p ELSE p + 1
      /\ HalfEven(g) = IF 2 * s = g.d THEN q + (q % 2) ELSE IF 2 * s < g.d THEN q ELSE q + 1
  BY DEF HalfEven
<1> HIDE DEF p, q, r, s
<1>6. /\ HalfEven(f) \in Int /\ HalfEven(f) >= p
      /\ HalfEven(g) \in Int /\ HalfEven(g) <= q + 1
  BY <1>3, <1>4, <1>5
<1>7. CASE p > q
  BY <1>3, <1>6, <1>7
<1>8. CASE p = q
  <2>1. r * g.d >= s * f.d
    BY <1>1, <1>3, <1>8
  <2>2. /\ 2 * s > g.d => 2 * r > f.d
        /\ 2 * s = g.d => 2 * r >= f.d
    <3>1. r \in Nat /\ s \in Nat
      BY <1>1, <1>3
    <3> QED BY <1>1, <2>1, <3>1, HalvesGrow
  <2> DEFINE x == 2 * r
             y == 2 * s
             o == p % 2
  <2>3. /\ x \in Int /\ y \in Int /\ o \in 0 .. 1 /\ f.d \in Int /\ g.d \in Int
        /\ y > g.d => x > f.d
        /\ y = g.d => x >= f.d
        /\ HalfEven(f) = IF x = f.d THEN p + o ELSE IF x < f.d THEN p ELSE p + 1
        /\ HalfEven(g) = IF y = g.d THEN p + o ELSE IF y < g.d THEN p ELSE p + 1
    BY <1>1, <1>3, <1>4, <1>5, <1>8, <2>2
  <2> HIDE DEF x, y, o
  <2>4. CASE y < g.d
    BY <1>3, <1>6, <2>3, <2>4
  <2>5. CASE y > g.d
    BY <1>3, <1>6, <2>3, <2>5
  <2>6. CASE y = g.d
    BY <1>3, <1>6, <2>3, <2>6
  <2> QED BY <2>3, <2>4, <2>5, <2>6
<1> QED BY <1>2, <1>3, <1>6, <1>7, <1>8

LEMMA ClampGrows ==
    ASSUME NEW lo \in Int, NEW hi \in Int, NEW x \in Int, NEW y \in Int, x >= y
    PROVE  /\ Clamp(lo, hi, x) \in Int /\ Clamp(lo, hi, x) >= lo
           /\ Clamp(lo, hi, x) >= Clamp(lo, hi, y)
BY DEF Clamp, AtMost

-----------------------------------------------------------------------------
\* _blend: the mean is there if a component is, and grows with each of them.
LEMMA BlendIs ==
    ASSUME NEW f \in Fraction, NEW v \in Int, NEW g \in Fraction, NEW w \in Int
    PROVE  /\ Blend(Pair(f, v), Pair(g, w)) \in Fraction
           /\ IsSome(Blend(Pair(f, v), Pair(g, w)))
                  <=> (IsSome(f) /\ v > 0) \/ (IsSome(g) /\ w > 0)
<1> DEFINE p == Pair(f, v)
           q == Pair(g, w)
<1>1. /\ Weighted(p) \in Value /\ Weighted(q) \in Value
      /\ WeightOf(p) \in Nat /\ WeightOf(q) \in Nat
      /\ WeightOf(p) # 0 <=> IsSome(f) /\ v > 0
      /\ WeightOf(q) # 0 <=> IsSome(g) /\ w > 0
  BY DEF Weighted, WeightOf, IsPresent, IsSome, Pair, Share, Fraction, Value
<1> HIDE DEF p, q
<1>2. Plus(Weighted(p), Weighted(q)) \in Value
  BY <1>1 DEF Plus, Share, Value
<1>3. CASE WeightOf(p) + WeightOf(q) = 0
  BY <1>1, <1>3 DEF Blend, None, IsSome, Fraction, p, q
<1>4. CASE WeightOf(p) + WeightOf(q) # 0
  <2> DEFINE u == WeightOf(p) + WeightOf(q)
             t == Plus(Weighted(p), Weighted(q))
  <2>1. Blend(p, q) = [n |-> t.n, d |-> t.d * u]
    BY <1>4 DEF Blend, Share
  <2>2. u \in Nat \ {0} /\ t.n \in Int /\ t.d \in Nat \ {0}
    BY <1>1, <1>2, <1>4 DEF Value
  <2> HIDE DEF u, t
  <2>3. t.d * u \in Nat \ {0}
    BY <2>2, TimesPos
  <2> QED BY <1>1, <1>4, <2>1, <2>2, <2>3 DEF IsSome, Fraction, p, q
<1> QED BY <1>3, <1>4

\* The sum of two fractions grows with each of them.
LEMMA SumsGrow ==
    ASSUME NEW an \in Int, NEW ad \in Nat, NEW bn \in Int, NEW bd \in Nat,
           NEW cn \in Int, NEW cd \in Nat, NEW en \in Int, NEW ed \in Nat, NEW u \in Nat,
           an * cd >= cn * ad, bn * ed >= en * bd
    PROVE  (an * bd + bn * ad) * ((cd * ed) * u) >= (cn * ed + en * cd) * ((ad * bd) * u)
<1> DEFINE x == bd * ed * u
           y == ad * cd * u
<1>1. x \in Nat /\ y \in Nat
  OBVIOUS
<1>2. /\ (an * bd + bn * ad) * ((cd * ed) * u) = (an * cd) * x + (bn * ed) * y
      /\ (cn * ed + en * cd) * ((ad * bd) * u) = (cn * ad) * x + (en * bd) * y
  OBVIOUS
<1> HIDE DEF x, y
<1>3. (an * cd) * x >= (cn * ad) * x
  <2>1. an * cd \in Int /\ cn * ad \in Int
    OBVIOUS
  <2> QED BY <1>1, <2>1, TimesMono
<1>4. (bn * ed) * y >= (en * bd) * y
  <2>1. bn * ed \in Int /\ en * bd \in Int
    OBVIOUS
  <2> QED BY <1>1, <2>1, TimesMono
<1> QED BY <1>1, <1>2, <1>3, <1>4

LEMMA BlendGrows ==
    ASSUME NEW f \in Fraction, NEW v \in Int, NEW g \in Fraction, NEW w \in Int,
           NEW h \in Fraction, NEW k \in Fraction,
           IsSome(f) <=> IsSome(h), IsSome(g) <=> IsSome(k),
           AtLeast(f, h), AtLeast(g, k)
    PROVE  AtLeast(Blend(Pair(f, v), Pair(g, w)), Blend(Pair(h, v), Pair(k, w)))
<1> DEFINE a == Weighted(Pair(f, v))
           b == Weighted(Pair(g, w))
           c == Weighted(Pair(h, v))
           e == Weighted(Pair(k, w))
           u == WeightOf(Pair(f, v)) + WeightOf(Pair(g, w))
<1>1. /\ u = WeightOf(Pair(h, v)) + WeightOf(Pair(k, w)) /\ u \in Nat
      /\ a \in Value /\ b \in Value /\ c \in Value /\ e \in Value
  BY DEF Weighted, WeightOf, IsPresent, IsSome, Pair, Share, Fraction, Value
<1>2. a.n * c.d >= c.n * a.d
  <2>1. CASE IsSome(f) /\ v > 0
    <3>1. a = [n |-> f.n * v, d |-> f.d] /\ c = [n |-> h.n * v, d |-> h.d]
      BY <2>1 DEF Weighted, IsPresent, Pair, Share
    <3>2. (f.n * h.d) * v >= (h.n * f.d) * v
      BY <2>1, TimesMono DEF AtLeast, Fraction
    <3> QED BY <3>1, <3>2 DEF Fraction
  <2>2. CASE ~(IsSome(f) /\ v > 0)
    BY <2>2 DEF Weighted, IsPresent, Pair, Share
  <2> QED BY <2>1, <2>2
<1>3. b.n * e.d >= e.n * b.d
  <2>1. CASE IsSome(g) /\ w > 0
    <3>1. b = [n |-> g.n * w, d |-> g.d] /\ e = [n |-> k.n * w, d |-> k.d]
      BY <2>1 DEF Weighted, IsPresent, Pair, Share
    <3>2. (g.n * k.d) * w >= (k.n * g.d) * w
      BY <2>1, TimesMono DEF AtLeast, Fraction
    <3> QED BY <3>1, <3>2 DEF Fraction
  <2>2. CASE ~(IsSome(g) /\ w > 0)
    BY <2>2 DEF Weighted, IsPresent, Pair, Share
  <2> QED BY <2>1, <2>2
<1>4. CASE u = 0
  BY <1>1, <1>4 DEF Blend, AtLeast, None
<1>5. CASE u # 0
  <2>1. /\ Blend(Pair(f, v), Pair(g, w)) = [n |-> a.n * b.d + b.n * a.d, d |-> (a.d * b.d) * u]
        /\ Blend(Pair(h, v), Pair(k, w)) = [n |-> c.n * e.d + e.n * c.d, d |-> (c.d * e.d) * u]
    BY <1>1, <1>5 DEF Blend, Plus, Share
  <2> HIDE DEF a, b, c, e, u
  <2>2. /\ a.n \in Int /\ b.n \in Int /\ c.n \in Int /\ e.n \in Int
        /\ a.d \in Nat /\ b.d \in Nat /\ c.d \in Nat /\ e.d \in Nat
    BY <1>1 DEF Value
  <2>3. (a.n * b.d + b.n * a.d) * ((c.d * e.d) * u) >= (c.n * e.d + e.n * c.d) * ((a.d * b.d) * u)
    BY <1>1, <1>2, <1>3, <2>2, SumsGrow
  <2> QED BY <2>1, <2>3 DEF AtLeast
<1> QED BY <1>4, <1>5

-----------------------------------------------------------------------------
(* Sums.  Total and SumOf are recursive; each induction looks at the least   *)
(* counterexample.                                                          *)

LEMMA LeastNat ==
    ASSUME NEW T \in SUBSET Nat, T # {}
    PROVE  \E x \in T : \A y \in T : x <= y
<1> DEFINE R == OpToRel(<, Nat)
<1>1. IsWellFoundedOn(R, Nat)
  BY NatLessThanWellFounded
<1>2. PICK x \in T : \A y \in T : ~(<<y, x>> \in R)
  <2> HIDE DEF R
  <2> QED BY <1>1, WFMin
<1>3. \A y \in T : y < x => <<y, x>> \in R
  BY DEF OpToRel
<1>4. \A y \in T : ~(y < x)
  <2> HIDE DEF R
  <2> QED BY <1>2, <1>3, Zenon
<1>5. \A y \in T : x <= y
  <2> HIDE DEF R
  <2> QED BY <1>4
<1> QED
  <2> HIDE DEF R
  <2> QED BY <1>5

\* A set of numbers that has 0 and with each number the next one has them all.
LEMMA UpTo ==
    ASSUME NEW n \in Nat, NEW G, 0 \in G, \A k \in 1 .. n : k - 1 \in G => k \in G
    PROVE  0 .. n \subseteq G
<1> DEFINE Bad == {k \in 0 .. n : k \notin G}
<1>1. SUFFICES ASSUME Bad # {} PROVE FALSE
  OBVIOUS
<1>2. PICK b \in Bad : \A k \in Bad : b <= k
  <2>1. Bad \in SUBSET Nat
    OBVIOUS
  <2> HIDE DEF Bad
  <2> QED BY <1>1, <2>1, LeastNat
<1>3. b \in 1 .. n /\ b - 1 \in 0 .. n /\ ~(b <= b - 1) /\ b \notin G
  OBVIOUS
<1>4. b - 1 \notin Bad
  <2> HIDE DEF Bad
  <2> QED BY <1>2, <1>3
<1>5. b - 1 \in G
  BY <1>3, <1>4
<1> QED BY <1>3, <1>5

Totals(ns, n, g) == g = [k \in 0 .. n |-> IF k = 0 THEN 0 ELSE g[k - 1] + ns[k]]

LEMMA TotalsExist ==
    ASSUME NEW ns \in Seq(Int)
    PROVE  \E g : Totals(ns, Len(ns), g)
<1> DEFINE G == {n \in 0 .. Len(ns) : \E g \in [0 .. n -> Int] : Totals(ns, n, g)}
<1>1. 0 \in G
  <2> DEFINE g == [k \in 0 .. 0 |-> 0]
  <2>1. g \in [0 .. 0 -> Int] /\ Totals(ns, 0, g)
    BY DEF Totals
  <2> QED BY <2>1
<1>2. ASSUME NEW n \in 1 .. Len(ns), n - 1 \in G PROVE n \in G
  <2>1. PICK g \in [0 .. n - 1 -> Int] : Totals(ns, n - 1, g)
    BY <1>2
  <2>2. ns[n] \in Int /\ n - 1 \in 0 .. n - 1
    OBVIOUS
  <2> DEFINE h == [k \in 0 .. n |-> IF k = n THEN g[n - 1] + ns[n] ELSE g[k]]
  <2>3. h \in [0 .. n -> Int]
    BY <2>1, <2>2
  <2>4. \A k \in 0 .. n : h[k] = IF k = 0 THEN 0 ELSE h[k - 1] + ns[k]
    <3> TAKE k \in 0 .. n
    <3>1. CASE k = n
      BY <3>1
    <3>2. CASE k # n
      <4>1. k \in 0 .. n - 1
        BY <3>2
      <4>2. g[k] = IF k = 0 THEN 0 ELSE g[k - 1] + ns[k]
        BY <2>1, <4>1 DEF Totals
      <4> QED BY <3>2, <4>1, <4>2
    <3> QED BY <3>1, <3>2
  <2>5. Totals(ns, n, h)
    BY <2>4 DEF Totals
  <2> QED BY <2>3, <2>5
<1>3. 0 .. Len(ns) \subseteq G
  <2> HIDE DEF G
  <2>1. Len(ns) \in Nat
    OBVIOUS
  <2> QED BY <1>1, <1>2, <2>1, UpTo
<1>4. Len(ns) \in G
  BY <1>3
<1> QED BY <1>4

\* Total is the last of the sums.
LEMMA TotalIs ==
    ASSUME NEW ns \in Seq(Int)
    PROVE  \E g \in [0 .. Len(ns) -> Int] :
              /\ g[0] = 0 /\ \A k \in 1 .. Len(ns) : g[k] = g[k - 1] + ns[k]
              /\ Total(ns) = g[Len(ns)]
<1> DEFINE g == CHOOSE h : Totals(ns, Len(ns), h)
<1>1. Total(ns) = g[Len(ns)]
  BY DEF Total, Totals
<1>2. Totals(ns, Len(ns), g)
  BY TotalsExist
<1>3. Len(ns) \in Nat
  OBVIOUS
<1> HIDE DEF g
<1>4. \A k \in 0 .. Len(ns) : g[k] = IF k = 0 THEN 0 ELSE g[k - 1] + ns[k]
  BY <1>2 DEF Totals
<1>5. g[0] = 0 /\ \A k \in 1 .. Len(ns) : g[k] = g[k - 1] + ns[k]
  BY <1>3, <1>4
<1> DEFINE G == {k \in 0 .. Len(ns) : g[k] \in Int}
<1>6. 0 \in G
  BY <1>3, <1>5
<1>7. ASSUME NEW k \in 1 .. Len(ns), k - 1 \in G PROVE k \in G
  BY <1>3, <1>5, <1>7
<1>8. 0 .. Len(ns) \subseteq G
  <2> HIDE DEF G
  <2> QED BY <1>3, <1>6, <1>7, UpTo
<1>9. g \in [0 .. Len(ns) -> Int]
  BY <1>2, <1>8 DEF Totals
<1> QED BY <1>1, <1>5, <1>9

LEMMA TotalIsInt ==
    ASSUME NEW ns \in Seq(Int)
    PROVE  Total(ns) \in Int
<1>1. Len(ns) \in 0 .. Len(ns)
  OBVIOUS
<1> QED BY <1>1, TotalIs

LEMMA TotalGrows ==
    ASSUME NEW ns \in Seq(Int), NEW ms \in Seq(Int), Len(ns) = Len(ms),
           \A k \in 1 .. Len(ns) : ns[k] >= ms[k]
    PROVE  Total(ns) >= Total(ms)
<1> DEFINE L == Len(ns)
<1>1. L \in Nat /\ L \in 0 .. L
  OBVIOUS
<1>2. PICK g \in [0 .. L -> Int] :
         /\ g[0] = 0 /\ \A k \in 1 .. L : g[k] = g[k - 1] + ns[k]
         /\ Total(ns) = g[L]
  BY TotalIs
<1>3. PICK h \in [0 .. L -> Int] :
         /\ h[0] = 0 /\ \A k \in 1 .. L : h[k] = h[k - 1] + ms[k]
         /\ Total(ms) = h[L]
  BY TotalIs
<1> DEFINE G == {k \in 0 .. L : g[k] >= h[k]}
<1>4. 0 \in G
  BY <1>1, <1>2, <1>3
<1>5. ASSUME NEW k \in 1 .. L, k - 1 \in G PROVE k \in G
  <2>1. ns[k] \in Int /\ ms[k] \in Int /\ ns[k] >= ms[k]
    OBVIOUS
  <2>2. k \in 0 .. L /\ k - 1 \in 0 .. L /\ g[k - 1] >= h[k - 1]
    BY <1>1, <1>5
  <2>3. g[k - 1] \in Int /\ h[k - 1] \in Int /\ g[k] = g[k - 1] + ns[k] /\ h[k] = h[k - 1] + ms[k]
    BY <1>2, <1>3, <2>2
  <2> QED BY <2>1, <2>2, <2>3
<1>6. 0 .. L \subseteq G
  <2> HIDE DEF G, L
  <2> QED BY <1>1, <1>4, <1>5, UpTo
<1>7. g[L] >= h[L]
  BY <1>1, <1>6
<1> QED BY <1>2, <1>3, <1>7

Sums(fs, n, g) == g = [k \in 0 .. n |-> IF k = 0 THEN Share(0, 1) ELSE Plus(g[k - 1], fs[k])]

LEMMA PlusIsValue ==
    ASSUME NEW f \in Value, NEW g \in Value
    PROVE  Plus(f, g) \in Value
BY DEF Plus, Share, Value

LEMMA SumsExist ==
    ASSUME NEW fs \in Seq(Value)
    PROVE  \E g : Sums(fs, Len(fs), g)
<1> DEFINE G == {n \in 0 .. Len(fs) : \E g \in [0 .. n -> Value] : Sums(fs, n, g)}
<1>1. 0 \in G
  <2> DEFINE g == [k \in 0 .. 0 |-> Share(0, 1)]
  <2>1. g \in [0 .. 0 -> Value] /\ Sums(fs, 0, g)
    BY DEF Sums, Share, Value
  <2> QED BY <2>1
<1>2. ASSUME NEW n \in 1 .. Len(fs), n - 1 \in G PROVE n \in G
  <2>1. PICK g \in [0 .. n - 1 -> Value] : Sums(fs, n - 1, g)
    BY <1>2
  <2>2. fs[n] \in Value /\ n - 1 \in 0 .. n - 1
    OBVIOUS
  <2> DEFINE h == [k \in 0 .. n |-> IF k = n THEN Plus(g[n - 1], fs[n]) ELSE g[k]]
  <2>3. h \in [0 .. n -> Value]
    BY <2>1, <2>2, PlusIsValue
  <2>4. \A k \in 0 .. n : h[k] = IF k = 0 THEN Share(0, 1) ELSE Plus(h[k - 1], fs[k])
    <3> TAKE k \in 0 .. n
    <3>1. CASE k = n
      BY <3>1
    <3>2. CASE k # n
      <4>1. k \in 0 .. n - 1
        BY <3>2
      <4>2. g[k] = IF k = 0 THEN Share(0, 1) ELSE Plus(g[k - 1], fs[k])
        BY <2>1, <4>1 DEF Sums
      <4> QED BY <3>2, <4>1, <4>2
    <3> QED BY <3>1, <3>2
  <2>5. Sums(fs, n, h)
    BY <2>4 DEF Sums
  <2> QED BY <2>3, <2>5
<1>3. 0 .. Len(fs) \subseteq G
  <2> HIDE DEF G
  <2>1. Len(fs) \in Nat
    OBVIOUS
  <2> QED BY <1>1, <1>2, <2>1, UpTo
<1>4. Len(fs) \in G
  BY <1>3
<1> QED BY <1>4

LEMMA SumOfIsValue ==
    ASSUME NEW fs \in Seq(Value)
    PROVE  SumOf(fs) \in Value
<1> DEFINE g == CHOOSE h : Sums(fs, Len(fs), h)
<1>1. SumOf(fs) = g[Len(fs)]
  BY DEF SumOf, Sums
<1>2. Sums(fs, Len(fs), g)
  BY SumsExist
<1>3. Len(fs) \in Nat
  OBVIOUS
<1> HIDE DEF g
<1>4. \A k \in 0 .. Len(fs) : g[k] = IF k = 0 THEN Share(0, 1) ELSE Plus(g[k - 1], fs[k])
  BY <1>2 DEF Sums
<1> DEFINE G == {k \in 0 .. Len(fs) : g[k] \in Value}
<1>5. 0 \in G
  BY <1>3, <1>4 DEF Share, Value
<1>6. ASSUME NEW k \in 1 .. Len(fs), k - 1 \in G PROVE k \in G
  <2>1. k \in 0 .. Len(fs) /\ k # 0 /\ fs[k] \in Value /\ g[k - 1] \in Value
    BY <1>3, <1>6
  <2>2. g[k] = Plus(g[k - 1], fs[k])
    BY <1>4, <2>1
  <2> QED BY <2>1, <2>2, PlusIsValue
<1>7. 0 .. Len(fs) \subseteq G
  <2> HIDE DEF G
  <2> QED BY <1>3, <1>5, <1>6, UpTo
<1>8. Len(fs) \in 0 .. Len(fs)
  BY <1>3
<1> QED BY <1>1, <1>7, <1>8

-----------------------------------------------------------------------------
(* The grade.                                                              *)

\* A blended score scaled into the range, and rounded.
Norm(b) == IF IsSome(b) THEN b ELSE Share(0, 1)
Scaled(g, norm) == Share(g.min * norm.d + (g.max - g.min) * norm.n, norm.d)
Rounded(f, up) == IF up THEN Ceil(f) ELSE HalfEven(f)
Code(g, works, mark) == Blend(Pair(works, g.works), Pair(mark, g.quality))
Blended(g, works, mark, quiz) == Blend(Pair(Code(g, works, mark), g.code), Pair(quiz, g.quiz))

LEMMA ComputeGradeIs ==
    ASSUME NEW g, NEW works, NEW mark, NEW quiz, NEW up
    PROVE  ComputeGrade(g, works, mark, quiz, up)
              = Clamp(g.min, g.max, Rounded(Scaled(g, Norm(Blended(g, works, mark, quiz))), up))
BY DEF ComputeGrade, Rounded, Scaled, Norm, Blended, Code

LEMMA ScaledGrows ==
    ASSUME NEW g \in GradingBlock, g.min <= g.max, NEW a \in Value, NEW b \in Value, AtLeast(a, b)
    PROVE  /\ Scaled(g, a) \in Value /\ Scaled(g, b) \in Value
           /\ AtLeast(Scaled(g, a), Scaled(g, b))
<1> DEFINE lo == g.min
           span == g.max - g.min
<1>1. lo \in Nat /\ span \in Nat
  BY DEF GradingBlock
<1>2. /\ Scaled(g, a) = [n |-> lo * a.d + span * a.n, d |-> a.d]
      /\ Scaled(g, b) = [n |-> lo * b.d + span * b.n, d |-> b.d]
  BY DEF Scaled, Share
<1> HIDE DEF lo, span
<1>3. /\ a.n \in Int /\ a.d \in Nat \ {0} /\ b.n \in Int /\ b.d \in Nat \ {0}
      /\ a.n * b.d >= b.n * a.d
  BY DEF Value, AtLeast
<1>4. (a.n * b.d) * span >= (b.n * a.d) * span
  BY <1>1, <1>3, TimesMono
<1>5. (lo * a.d + span * a.n) * b.d >= (lo * b.d + span * b.n) * a.d
  BY <1>1, <1>3, <1>4
<1> QED BY <1>1, <1>2, <1>3, <1>5 DEF AtLeast, Value

LEMMA ComputeGrows ==
    ASSUME NEW g \in GradingBlock, g.min <= g.max, NEW up \in BOOLEAN,
           NEW w \in Fraction, NEW m \in Fraction, NEW q \in Fraction,
           NEW x \in Fraction, NEW y \in Fraction, NEW z \in Fraction,
           IsSome(w) <=> IsSome(x), IsSome(m) <=> IsSome(y), IsSome(q) <=> IsSome(z),
           AtLeast(w, x), AtLeast(m, y), AtLeast(q, z)
    PROVE  /\ ComputeGrade(g, w, m, q, up) \in Int
           /\ ComputeGrade(g, w, m, q, up) >= g.min
           /\ ComputeGrade(g, w, m, q, up) >= ComputeGrade(g, x, y, z, up)
<1>1. /\ g.min \in Nat /\ g.max \in Nat /\ g.code \in Int /\ g.quiz \in Int
      /\ g.works \in Int /\ g.quality \in Int
  BY DEF GradingBlock
<1> DEFINE c == Code(g, w, m)
           d == Code(g, x, y)
<1>2. /\ c \in Fraction /\ d \in Fraction /\ AtLeast(c, d)
      /\ IsSome(c) <=> IsSome(d)
  <2>1. c = Blend(Pair(w, g.works), Pair(m, g.quality)) /\ d = Blend(Pair(x, g.works), Pair(y, g.quality))
    BY DEF Code
  <2> HIDE DEF c, d
  <2>2. c \in Fraction /\ (IsSome(c) <=> (IsSome(w) /\ g.works > 0) \/ (IsSome(m) /\ g.quality > 0))
    BY <1>1, <2>1, BlendIs
  <2>3. d \in Fraction /\ (IsSome(d) <=> (IsSome(x) /\ g.works > 0) \/ (IsSome(y) /\ g.quality > 0))
    BY <1>1, <2>1, BlendIs
  <2>4. AtLeast(c, d)
    BY <1>1, <2>1, BlendGrows
  <2> QED BY <2>2, <2>3, <2>4, Zenon
<1> DEFINE a == Blended(g, w, m, q)
           b == Blended(g, x, y, z)
<1>3. a = Blend(Pair(c, g.code), Pair(q, g.quiz)) /\ b = Blend(Pair(d, g.code), Pair(z, g.quiz))
  BY DEF Blended
<1> HIDE DEF a, b, c, d
<1>4. /\ a \in Fraction /\ b \in Fraction /\ AtLeast(a, b)
      /\ IsSome(a) <=> IsSome(b)
  <2>1. a \in Fraction /\ (IsSome(a) <=> (IsSome(c) /\ g.code > 0) \/ (IsSome(q) /\ g.quiz > 0))
    BY <1>1, <1>2, <1>3, BlendIs
  <2>2. b \in Fraction /\ (IsSome(b) <=> (IsSome(d) /\ g.code > 0) \/ (IsSome(z) /\ g.quiz > 0))
    BY <1>1, <1>2, <1>3, BlendIs
  <2>3. AtLeast(a, b)
    BY <1>1, <1>2, <1>3, BlendGrows
  <2> QED BY <1>2, <2>1, <2>2, <2>3, Zenon
<1>5. Norm(a) \in Value /\ Norm(b) \in Value /\ AtLeast(Norm(a), Norm(b))
  BY <1>4 DEF Norm, IsSome, Share, Fraction, Value, AtLeast
<1> DEFINE s == Scaled(g, Norm(a))
           t == Scaled(g, Norm(b))
<1>6. s \in Value /\ t \in Value /\ AtLeast(s, t)
  BY <1>5, ScaledGrows
<1> HIDE DEF s, t
<1>7. Rounded(s, up) \in Int /\ Rounded(t, up) \in Int /\ Rounded(s, up) >= Rounded(t, up)
  BY <1>6, CeilGrows, HalfEvenGrows DEF Rounded
<1>8. /\ ComputeGrade(g, w, m, q, up) = Clamp(g.min, g.max, Rounded(s, up))
      /\ ComputeGrade(g, x, y, z, up) = Clamp(g.min, g.max, Rounded(t, up))
  BY ComputeGradeIs DEF s, t, a, b
<1> DEFINE k == Rounded(s, up)
           l == Rounded(t, up)
<1>9. k \in Int /\ l \in Int /\ k >= l /\ g.min \in Int /\ g.max \in Int
  BY <1>1, <1>7
<1> HIDE DEF k, l
<1>10. /\ Clamp(g.min, g.max, k) \in Int /\ Clamp(g.min, g.max, k) >= g.min
       /\ Clamp(g.min, g.max, k) >= Clamp(g.min, g.max, l)
  BY <1>9, ClampGrows
<1> QED BY <1>8, <1>10 DEF k, l

\* Full marks in what counts give full marks.
LEMMA BlendFull ==
    ASSUME NEW f \in Fraction, NEW v \in Int, NEW g \in Fraction, NEW w \in Int,
           IsSome(f) => f.n = f.d, IsSome(g) => g.n = g.d
    PROVE  LET b == Blend(Pair(f, v), Pair(g, w)) IN IsSome(b) => b.n = b.d
<1> DEFINE a == Weighted(Pair(f, v))
           c == Weighted(Pair(g, w))
           x == WeightOf(Pair(f, v))
           y == WeightOf(Pair(g, w))
<1>1. /\ a \in Value /\ c \in Value /\ x \in Nat /\ y \in Nat
      /\ a.n = a.d * x /\ c.n = c.d * y
  BY DEF Weighted, WeightOf, IsPresent, IsSome, Pair, Share, Fraction, Value
<1>2. CASE x + y = 0
  BY <1>2 DEF Blend, None, IsSome
<1>3. CASE x + y # 0
  <2>1. Blend(Pair(f, v), Pair(g, w)) = [n |-> a.n * c.d + c.n * a.d, d |-> (a.d * c.d) * (x + y)]
    BY <1>3 DEF Blend, Plus, Share
  <2> HIDE DEF a, c, x, y
  <2>2. a.n * c.d + c.n * a.d = (a.d * c.d) * (x + y)
    BY <1>1 DEF Value
  <2> QED BY <2>1, <2>2
<1> QED BY <1>2, <1>3

LEMMA WholeQuotient ==
    ASSUME NEW k \in Int, NEW d \in Nat \ {0}, NEW r \in 0 .. d - 1
    PROVE  (d * k + r) \div d = k /\ (d * k + r) % d = r
<1> DEFINE n == d * k + r
           q == n \div d
<1>1. n \in Int
  OBVIOUS
<1> HIDE DEF n
<1>2. /\ q \in Int /\ d * q <= n /\ n < d * q + d
      /\ n % d \in 0 .. d - 1 /\ d * q + (n % d) = n
  BY <1>1, Quotient
<1> HIDE DEF q
<1>3. q <= k
  <2>1. SUFFICES ASSUME k + 1 <= q PROVE FALSE
    BY <1>2
  <2>2. (k + 1) * d <= q * d
    BY <1>2, <2>1, TimesMono
  <2> QED BY <1>2, <2>2 DEF n
<1>4. q >= k
  <2>1. SUFFICES ASSUME q + 1 <= k PROVE FALSE
    BY <1>2
  <2>2. (q + 1) * d <= k * d
    BY <1>2, <2>1, TimesMono
  <2> QED BY <1>2, <2>2 DEF n
<1>5. q = k
  BY <1>2, <1>3, <1>4
<1>6. d * k \in Int
  OBVIOUS
<1>7. n % d = r
  BY <1>2, <1>5, <1>6 DEF n
<1> QED BY <1>5, <1>7 DEF n, q

LEMMA RoundedWhole ==
    ASSUME NEW k \in Int, NEW d \in Nat \ {0}
    PROVE  /\ Ceil(Share(d * k, d)) = k
           /\ HalfEven(Share(d * k, d)) = k
           /\ HalfUp(Share(d * k, d)) = k
<1>1. (d * k + (d - 1)) \div d = k
  BY WholeQuotient
<1>2. (d * k + 0) \div d = k /\ (d * k + 0) % d = 0
  BY WholeQuotient
<1>3. ((2 * d) * k + d) \div (2 * d) = k
  <2>1. 2 * d \in Nat \ {0} /\ d \in 0 .. (2 * d) - 1
    OBVIOUS
  <2> QED BY <2>1, WholeQuotient
<1>4. d * k \in Int /\ d * k + d - 1 = d * k + (d - 1) /\ d * k + 0 = d * k
      /\ 2 * (d * k) + d = (2 * d) * k + d
  OBVIOUS
<1>5. Ceil(Share(d * k, d)) = k
  BY <1>1, <1>4 DEF Ceil, Share
<1>6. HalfUp(Share(d * k, d)) = k
  BY <1>3, <1>4 DEF HalfUp, Share
<1>7. HalfEven(Share(d * k, d)) = k
  BY <1>2, <1>4 DEF HalfEven, Share
<1> QED BY <1>5, <1>6, <1>7

LEMMA ComputeFull ==
    ASSUME NEW g \in GradingBlock, g.min <= g.max, NEW up \in BOOLEAN,
           NEW w \in Fraction, NEW m \in Fraction, NEW q \in Fraction,
           IsSome(w) => w.n = w.d, IsSome(m) => m.n = m.d, IsSome(q) => q.n = q.d,
           \/ g.quiz > 0 /\ IsSome(q)
           \/ g.code > 0 /\ g.works > 0 /\ IsSome(w)
           \/ g.code > 0 /\ g.quality > 0 /\ IsSome(m)
    PROVE  ComputeGrade(g, w, m, q, up) = g.max
<1>1. /\ g.min \in Nat /\ g.max \in Nat /\ g.code \in Int /\ g.quiz \in Int
      /\ g.works \in Int /\ g.quality \in Int
  BY DEF GradingBlock
<1> DEFINE c == Code(g, w, m)
<1>2. /\ c \in Fraction /\ (IsSome(c) => c.n = c.d)
      /\ IsSome(c) <=> (IsSome(w) /\ g.works > 0) \/ (IsSome(m) /\ g.quality > 0)
  <2>1. c = Blend(Pair(w, g.works), Pair(m, g.quality))
    BY DEF Code
  <2> HIDE DEF c
  <2>2. c \in Fraction /\ (IsSome(c) <=> (IsSome(w) /\ g.works > 0) \/ (IsSome(m) /\ g.quality > 0))
    BY <1>1, <2>1, BlendIs
  <2>3. IsSome(c) => c.n = c.d
    BY <1>1, <2>1, BlendFull
  <2> QED BY <2>2, <2>3
<1> DEFINE b == Blended(g, w, m, q)
<1>3. b = Blend(Pair(c, g.code), Pair(q, g.quiz))
  BY DEF Blended
<1> HIDE DEF b, c
<1>4. b \in Fraction /\ IsSome(b) /\ b.n = b.d
  <2>1. b \in Fraction /\ (IsSome(b) <=> (IsSome(c) /\ g.code > 0) \/ (IsSome(q) /\ g.quiz > 0))
    BY <1>1, <1>2, <1>3, BlendIs
  <2>2. IsSome(b) => b.n = b.d
    BY <1>1, <1>2, <1>3, BlendFull
  <2> QED BY <1>2, <2>1, <2>2, Zenon
<1>5. b.d \in Nat \ {0}
  BY <1>4 DEF Fraction, IsSome
<1>6. g.min * b.d + (g.max - g.min) * b.d = b.d * g.max
  BY <1>1, <1>5
<1>7. Scaled(g, Norm(b)) = Share(b.d * g.max, b.d)
  BY <1>4, <1>6 DEF Scaled, Norm
<1>8. Rounded(Scaled(g, Norm(b)), up) = g.max
  <2>1. g.max \in Int
    BY <1>1
  <2>2. Ceil(Share(b.d * g.max, b.d)) = g.max /\ HalfEven(Share(b.d * g.max, b.d)) = g.max
    BY <1>5, <2>1, RoundedWhole
  <2> QED BY <1>7, <2>2, Zenon DEF Rounded
<1>9. Clamp(g.min, g.max, g.max) = g.max
  BY <1>1 DEF Clamp, AtMost
<1> QED BY <1>8, <1>9, ComputeGradeIs DEF b

-----------------------------------------------------------------------------
(* Points.                                                                 *)

Filled(g, pts) == [i \in DOMAIN g.criteria |-> IF pts[i] = Blank THEN 0 ELSE pts[i]]

LEMMA PointsAre ==
    ASSUME NEW g \in GradingBlock, NEW pts \in [DOMAIN g.criteria -> Int]
    PROVE  /\ Filled(g, pts) \in Seq(Int)
           /\ Len(Filled(g, pts)) = Len(g.criteria)
           /\ \A i \in 1 .. Len(g.criteria) :
                 Filled(g, pts)[i] = IF pts[i] = Blank THEN 0 ELSE pts[i]
           /\ DOMAIN g.criteria = 1 .. Len(g.criteria)
<1>1. g.criteria \in Seq([max : Nat \ {0}, optional : BOOLEAN])
  BY DEF GradingBlock
<1>2. Len(g.criteria) \in Nat /\ DOMAIN g.criteria = 1 .. Len(g.criteria)
  BY <1>1
<1>3. Filled(g, pts) \in [1 .. Len(g.criteria) -> Int]
  BY <1>2 DEF Filled
<1> QED BY <1>2, <1>3 DEF Filled

LEMMA QuizPointsGrow ==
    ASSUME NEW g \in GradingBlock, NEW up \in BOOLEAN, NEW q \in Value, NEW z \in Value, AtLeast(q, z)
    PROVE  /\ QuizPointsFor(g, q, up) \in Int /\ QuizPointsFor(g, z, up) \in Int
           /\ QuizPointsFor(g, q, up) >= QuizPointsFor(g, z, up)
<1> DEFINE p == g.quizPoints
           a == Share(q.n * p, q.d)
           b == Share(z.n * p, z.d)
<1>1. p \in Nat
  BY DEF GradingBlock
<1> HIDE DEF p
<1>2. /\ q.n \in Int /\ q.d \in Nat \ {0} /\ z.n \in Int /\ z.d \in Nat \ {0}
      /\ q.n * z.d >= z.n * q.d
  BY DEF Value, AtLeast
<1>3. (q.n * z.d) * p >= (z.n * q.d) * p
  BY <1>1, <1>2, TimesMono
<1>4. (q.n * p) * z.d >= (z.n * p) * q.d
  BY <1>1, <1>2, <1>3
<1>5. a \in Value /\ b \in Value /\ AtLeast(a, b)
  BY <1>1, <1>2, <1>4 DEF Share, Value, AtLeast
<1>6. /\ QuizPointsFor(g, q, up) = IF up THEN Ceil(a) ELSE HalfUp(a)
      /\ QuizPointsFor(g, z, up) = IF up THEN Ceil(b) ELSE HalfUp(b)
  BY DEF QuizPointsFor, p
<1> HIDE DEF a, b
<1> QED BY <1>5, <1>6, CeilGrows, HalfUpGrows

LEMMA ScoredGrows ==
    ASSUME NEW g \in GradingBlock, NEW up \in BOOLEAN,
           NEW q \in Value, NEW z \in Value, AtLeast(q, z),
           NEW pts \in [DOMAIN g.criteria -> Int], NEW old \in [DOMAIN g.criteria -> Int],
           \A i \in DOMAIN g.criteria : pts[i] >= old[i] /\ old[i] >= Blank
    PROVE  /\ ComputeScored(g, q, pts, up) \in Int
           /\ ComputeScored(g, q, pts, up) >= g.min
           /\ ComputeScored(g, q, pts, up) >= ComputeScored(g, z, old, up)
<1> DEFINE a == Filled(g, pts)
           b == Filled(g, old)
<1>1. g.min \in Nat /\ g.max \in Nat
  BY DEF GradingBlock
<1>2. a \in Seq(Int) /\ b \in Seq(Int) /\ Len(a) = Len(b)
  BY PointsAre
<1>3. \A i \in 1 .. Len(a) : a[i] >= b[i]
  <2>1. Len(a) = Len(g.criteria)
    BY PointsAre
  <2>2. ASSUME NEW i \in 1 .. Len(g.criteria) PROVE a[i] >= b[i]
    <3>1. i \in DOMAIN g.criteria
      BY PointsAre
    <3>2. pts[i] \in Int /\ old[i] \in Int /\ pts[i] >= old[i] /\ old[i] >= Blank
      BY <3>1
    <3>3. /\ a[i] = IF pts[i] = Blank THEN 0 ELSE pts[i]
          /\ b[i] = IF old[i] = Blank THEN 0 ELSE old[i]
      BY PointsAre
    <3> HIDE DEF a, b
    <3> QED BY <3>2, <3>3 DEF Blank
  <2> QED BY <2>1, <2>2
<1>4. /\ ComputeScored(g, q, pts, up) = Clamp(g.min, g.max, g.min + QuizPointsFor(g, q, up) + Total(a))
      /\ ComputeScored(g, z, old, up) = Clamp(g.min, g.max, g.min + QuizPointsFor(g, z, up) + Total(b))
  BY DEF ComputeScored, Filled
<1> HIDE DEF a, b
<1>5. Total(a) \in Int /\ Total(b) \in Int /\ Total(a) >= Total(b)
  BY <1>2, <1>3, TotalIsInt, TotalGrows
<1>6. /\ QuizPointsFor(g, q, up) \in Int /\ QuizPointsFor(g, z, up) \in Int
      /\ QuizPointsFor(g, q, up) >= QuizPointsFor(g, z, up)
  BY QuizPointsGrow
<1> DEFINE x == g.min + QuizPointsFor(g, q, up) + Total(a)
           y == g.min + QuizPointsFor(g, z, up) + Total(b)
<1>7. x \in Int /\ y \in Int /\ x >= y
  BY <1>1, <1>5, <1>6
<1> HIDE DEF x, y
<1>8. /\ Clamp(g.min, g.max, x) \in Int /\ Clamp(g.min, g.max, x) >= g.min
      /\ Clamp(g.min, g.max, x) >= Clamp(g.min, g.max, y)
  <2>1. g.min \in Int /\ g.max \in Int
    BY <1>1
  <2> QED BY <1>7, <2>1, ClampGrows
<1> QED BY <1>4, <1>8 DEF x, y

LEMMA ScoredFull ==
    ASSUME NEW g \in GradingBlock, g.min <= g.max, ValidAssignment(g), NEW up \in BOOLEAN,
           NEW q \in Value, q.n = q.d,
           NEW pts \in [DOMAIN g.criteria -> Int],
           \A i \in DOMAIN g.criteria : pts[i] = g.criteria[i].max
    PROVE  ComputeScored(g, q, pts, up) = g.max
<1>1. /\ g.min \in Nat /\ g.max \in Nat /\ g.quizPoints \in Nat
      /\ g.criteria \in Seq([max : Nat \ {0}, optional : BOOLEAN])
  BY DEF GradingBlock
<1>2. \A i \in DOMAIN g.criteria : g.criteria[i].max # Blank
  <2> TAKE i \in DOMAIN g.criteria
  <2>1. g.criteria[i] \in [max : Nat \ {0}, optional : BOOLEAN]
    BY <1>1, Element, Zenon
  <2>2. g.criteria[i].max \in Nat
    BY <2>1
  <2> QED BY <2>2 DEF Blank
<1>3. Filled(g, pts) = [i \in DOMAIN g.criteria |-> g.criteria[i].max]
  BY <1>2 DEF Filled
<1>4. g.quizPoints + Total(Filled(g, pts)) = g.max - g.min
  BY <1>3 DEF ValidAssignment
<1>5. Total(Filled(g, pts)) \in Int
  BY PointsAre, TotalIsInt
<1>6. QuizPointsFor(g, q, up) = g.quizPoints
  <2>1. q.d \in Nat \ {0} /\ QuizPointsFor(g, q, up)
            = IF up THEN Ceil(Share(q.d * g.quizPoints, q.d)) ELSE HalfUp(Share(q.d * g.quizPoints, q.d))
    BY DEF QuizPointsFor, Value
  <2>2. g.quizPoints \in Int
    BY <1>1
  <2>3. /\ Ceil(Share(q.d * g.quizPoints, q.d)) = g.quizPoints
        /\ HalfUp(Share(q.d * g.quizPoints, q.d)) = g.quizPoints
    BY <2>1, <2>2, RoundedWhole
  <2> QED BY <2>1, <2>3, Zenon
<1>7. g.min + QuizPointsFor(g, q, up) + Total(Filled(g, pts)) = g.max
  <2>1. \A t \in Int : g.quizPoints + t = g.max - g.min => g.min + g.quizPoints + t = g.max
    <3>1. g.min \in Int /\ g.max \in Int /\ g.quizPoints \in Int
      BY <1>1
    <3> QED BY <3>1, Remainder, Zenon
  <2>2. g.min + g.quizPoints + Total(Filled(g, pts)) = g.max
    BY <1>4, <1>5, <2>1, Zenon
  <2> QED BY <1>6, <2>2, Zenon
<1>8. ComputeScored(g, q, pts, up)
         = Clamp(g.min, g.max, g.min + QuizPointsFor(g, q, up) + Total(Filled(g, pts)))
  BY DEF ComputeScored, Filled
<1>9. Clamp(g.min, g.max, g.max) = g.max
  BY <1>1 DEF Clamp, AtMost
<1> QED BY <1>7, <1>8, <1>9

-----------------------------------------------------------------------------
(* Orders and draws.                                                       *)

LEMMA Onto ==
    ASSUME NEW S, IsFiniteSet(S), NEW f \in Orders(S)
    PROVE  /\ f \in Seq(S) /\ Len(f) = Cardinality(S) /\ IsInjective(f)
           /\ DOMAIN f = 1 .. Cardinality(S)
           /\ \A x \in S : \E k \in DOMAIN f : f[k] = x
<1> DEFINE D == 1 .. Cardinality(S)
<1>1. Cardinality(S) \in Nat
  BY FS_CardinalityType
<1>2. f \in [D -> S] /\ \A i, j \in D : i # j => f[i] # f[j]
  BY DEF Orders, SetToSeqs
<1>3. f \in Injection(D, S)
  BY <1>2 DEF Injection, IsInjective
<1>4. Cardinality(D) = Cardinality(S)
  BY <1>1, FS_Interval
<1>5. f \in Surjection(D, S)
  <2> HIDE DEF D
  <2> QED BY <1>3, <1>4, FS_Injection
<1>6. f \in Seq(S) /\ Len(f) = Cardinality(S)
  BY <1>1, <1>2
<1> QED BY <1>2, <1>3, <1>5, <1>6 DEF Injection, Surjection

\* A set of indices in increasing order lists each of them once.
LEMMA AscendingIs ==
    ASSUME NEW n \in Nat, NEW S \in SUBSET (1 .. n)
    PROVE  /\ IsFiniteSet(S) /\ Cardinality(S) \in Nat
           /\ Ascending(S) \in Seq(S) /\ Len(Ascending(S)) = Cardinality(S)
           /\ IsInjective(Ascending(S))
<1>1. IsFiniteSet(S) /\ Cardinality(S) \in Nat
  <2>1. IsFiniteSet(1 .. n)
    BY FS_Interval
  <2>2. IsFiniteSet(S)
    BY <2>1, FS_Subset
  <2> QED BY <2>2, FS_CardinalityType
<1> DEFINE Upto(i) == {j \in S : j <= i}
           rank == [i \in S |-> Cardinality(Upto(i))]
           c == Cardinality(S)
<1>2. \A i \in S : IsFiniteSet(Upto(i)) /\ Cardinality(Upto(i)) \in 1 .. c
  <2> TAKE i \in S
  <2>1. IsFiniteSet(Upto(i)) /\ Cardinality(Upto(i)) <= c /\ Cardinality(Upto(i)) \in Nat
    BY <1>1, FS_Subset, FS_CardinalityType
  <2>2. i \in Upto(i)
    OBVIOUS
  <2>3. Cardinality(Upto(i)) # 0
    BY <2>1, <2>2, FS_EmptySet
  <2> QED BY <1>1, <2>1, <2>3
<1>3. ASSUME NEW i \in S, NEW k \in S, i < k
      PROVE  Cardinality(Upto(i)) # Cardinality(Upto(k))
  <2>1. Upto(i) \in SUBSET Upto(k) /\ k \in Upto(k) /\ k \notin Upto(i)
    <3>1. \A j \in S : j \in Int
      OBVIOUS
    <3>2. \A j \in S : j <= i => j <= k
      BY <1>3, <3>1
    <3>3. Upto(i) \subseteq Upto(k)
      BY <3>2
    <3>4. k <= k /\ ~(k <= i)
      BY <1>3, <3>1
    <3> QED BY <3>3, <3>4
  <2>2. IsFiniteSet(Upto(k))
    BY <1>2
  <2> HIDE DEF Upto
  <2>3. Upto(k) # Upto(i)
    BY <2>1
  <2> QED BY <2>1, <2>2, <2>3, FS_Subset
<1>4. rank \in [S -> 1 .. c]
  BY <1>2
<1>5. ASSUME NEW i \in S, NEW k \in S, rank[i] = rank[k] PROVE i = k
  <2>1. i \in Int /\ k \in Int
    OBVIOUS
  <2>2. ~(i < k) /\ ~(k < i)
    BY <1>3, <1>5
  <2> QED BY <2>1, <2>2
<1>6. rank \in Injection(S, 1 .. c)
  <2> HIDE DEF rank
  <2> QED BY <1>4, <1>5 DEF Injection, IsInjective
<1>7. IsFiniteSet(1 .. c) /\ Cardinality(1 .. c) = c
  BY <1>1, FS_Interval
<1>8. rank \in Surjection(S, 1 .. c)
  <2> HIDE DEF rank
  <2> QED BY <1>6, <1>7, FS_Injection
<1>9. \A k \in 1 .. c : \E i \in S : Cardinality(Upto(i)) = k
  BY <1>8 DEF Surjection
<1>10. \A k \in 1 .. c : Ascending(S)[k] \in S /\ Cardinality(Upto(Ascending(S)[k])) = k
  BY <1>9 DEF Ascending
<1>11. Ascending(S) \in [1 .. c -> S]
  BY <1>9 DEF Ascending
<1>12. Ascending(S) \in Seq(S) /\ Len(Ascending(S)) = c /\ DOMAIN Ascending(S) = 1 .. c
  BY <1>1, <1>11
<1>13. IsInjective(Ascending(S))
  <2> HIDE DEF Upto
  <2> QED BY <1>10, <1>12 DEF IsInjective
<1> QED BY <1>1, <1>12, <1>13

LEMMA Concat ==
    ASSUME NEW A, NEW B, A \cap B = {}, NEW s \in Seq(A), NEW t \in Seq(B),
           IsInjective(s), IsInjective(t)
    PROVE  s \o t \in Seq(A \cup B) /\ Len(s \o t) = Len(s) + Len(t) /\ IsInjective(s \o t)
<1> DEFINE u == s \o t
<1>1. Len(s) \in Nat /\ Len(t) \in Nat /\ u \in Seq(A \cup B) /\ Len(u) = Len(s) + Len(t)
  OBVIOUS
<1>2. DOMAIN u = 1 .. Len(s) + Len(t)
  BY <1>1
<1>3. \A i \in DOMAIN u : /\ i <= Len(s) => u[i] = s[i] /\ i \in DOMAIN s /\ s[i] \in A
                          /\ i > Len(s) => u[i] = t[i - Len(s)] /\ i - Len(s) \in DOMAIN t /\ t[i - Len(s)] \in B
  BY <1>1, <1>2
<1> HIDE DEF u
<1>4. ASSUME NEW i \in DOMAIN u, NEW j \in DOMAIN u, u[i] = u[j] PROVE i = j
  <2>1. i \in Int /\ j \in Int
    BY <1>2
  <2>2. CASE i <= Len(s) /\ j <= Len(s)
    BY <1>3, <1>4, <2>2 DEF IsInjective
  <2>3. CASE i > Len(s) /\ j > Len(s)
    <3>1. i - Len(s) = j - Len(s)
      BY <1>3, <1>4, <2>3 DEF IsInjective
    <3> QED BY <1>1, <2>1, <3>1
  <2>4. CASE (i <= Len(s) /\ j > Len(s)) \/ (i > Len(s) /\ j <= Len(s))
    BY <1>3, <1>4, <2>4
  <2> QED BY <1>1, <2>1, <2>2, <2>3, <2>4
<1> QED BY <1>1, <1>4 DEF u, IsInjective

-----------------------------------------------------------------------------
(* Draws.                                                                  *)

\* What a draw needs of its questions.
IsDrawable(z) ==
    /\ z.send \in Int /\ z.shuffle \in BOOLEAN
    /\ Len(z.questions) \in Nat /\ DOMAIN z.questions = 1 .. Len(z.questions)
    /\ \A i \in DOMAIN z.questions : z.questions[i].required \in BOOLEAN

\* Each question at most once, all of a supported type.
Drawn(z, ids) ==
    /\ ids \in Seq({i \in DOMAIN z.questions : z.questions[i].type \in Supported})
    /\ IsInjective(ids)

LEMMA OrdersDrawn ==
    ASSUME NEW z, IsDrawable(z),
           NEW S \in SUBSET {i \in DOMAIN z.questions : z.questions[i].type \in Supported},
           NEW ids \in Orders(S)
    PROVE  Drawn(z, ids)
<1>1. IsFiniteSet(1 .. Len(z.questions)) /\ S \in SUBSET (1 .. Len(z.questions))
  BY FS_Interval DEF IsDrawable
<1>2. IsFiniteSet(S)
  BY <1>1, FS_Subset
<1>3. ids \in Seq(S) /\ IsInjective(ids)
  BY <1>2, Onto
<1> QED BY <1>3 DEF Drawn

LEMMA ClampIs ==
    ASSUME NEW n \in Nat, NEW x \in Int
    PROVE  Clamp(0, n, x) \in 0 .. n
BY DEF Clamp, AtMost

LEMMA Prefix ==
    ASSUME NEW A, NEW s \in Seq(A), IsInjective(s), NEW n \in 0 .. Len(s)
    PROVE  SubSeq(s, 1, n) \in Seq(A) /\ IsInjective(SubSeq(s, 1, n))
<1>1. /\ SubSeq(s, 1, n) \in Seq(A) /\ DOMAIN SubSeq(s, 1, n) = 1 .. n
      /\ \A i \in 1 .. n : SubSeq(s, 1, n)[i] = s[i] /\ i \in DOMAIN s
  OBVIOUS
<1> QED BY <1>1 DEF IsInjective

LEMMA SelectDrawn ==
    ASSUME NEW z, IsDrawable(z), NEW ids \in SelectQuestionIds(z)
    PROVE  Drawn(z, ids)
<1> DEFINE Ok == {i \in DOMAIN z.questions : z.questions[i].type \in Supported}
           R == {i \in Ok : z.questions[i].required = TRUE}
           O == {i \in Ok : z.questions[i].required = FALSE}
           required == IdsWhere(z, TRUE)
           optional == IdsWhere(z, FALSE)
           room == Clamp(0, Len(optional), z.send - Len(required))
<1>1. required = Ascending(R) /\ optional = Ascending(O)
  <2>1. /\ R = {i \in DOMAIN z.questions : z.questions[i].type \in Supported /\ z.questions[i].required = TRUE}
        /\ O = {i \in DOMAIN z.questions : z.questions[i].type \in Supported /\ z.questions[i].required = FALSE}
    OBVIOUS
  <2> HIDE DEF R, O
  <2> QED BY <2>1 DEF IdsWhere
<1>2. /\ Len(z.questions) \in Nat /\ R \in SUBSET (1 .. Len(z.questions)) /\ O \in SUBSET (1 .. Len(z.questions))
      /\ R \subseteq Ok /\ O \subseteq Ok /\ R \cap O = {}
  BY DEF IsDrawable
<1> HIDE DEF R, O
<1>3. /\ required \in Seq(R) /\ IsInjective(required) /\ Len(required) \in Nat
      /\ optional \in Seq(O) /\ IsInjective(optional) /\ Len(optional) \in Nat
  BY <1>1, <1>2, AscendingIs
<1>4. CASE ~z.shuffle
  <2>1. ids = required \o SubSeq(optional, 1, room)
    BY <1>4 DEF SelectQuestionIds
  <2> HIDE DEF required, optional, Ok
  <2>2. room \in 0 .. Len(optional)
    <3>1. z.send - Len(required) \in Int
      BY <1>3 DEF IsDrawable
    <3> QED BY <1>3, <3>1, ClampIs
  <2> HIDE DEF room
  <2>3. SubSeq(optional, 1, room) \in Seq(O) /\ IsInjective(SubSeq(optional, 1, room))
    BY <1>3, <2>2, Prefix
  <2>4. ids \in Seq(R \cup O) /\ IsInjective(ids)
    BY <1>2, <1>3, <2>1, <2>3, Concat
  <2> QED BY <1>2, <2>4 DEF Drawn, Ok
<1>5. CASE z.shuffle
  <2>1. PICK U \in SUBSET ToSet(optional) : ids \in Orders(ToSet(required) \cup U)
    BY <1>5 DEF SelectQuestionIds
  <2> HIDE DEF required, optional
  <2>2. ToSet(required) \subseteq R /\ ToSet(optional) \subseteq O
    BY <1>3 DEF ToSet
  <2>3. (ToSet(required) \cup U) \in SUBSET Ok
    BY <1>2, <2>2
  <2> QED BY <2>1, <2>3, OrdersDrawn
<1> QED BY <1>4, <1>5

LEMMA RetryDrawn ==
    ASSUME NEW z, IsDrawable(z), NEW mine, Len(mine) \in Nat,
           NEW ids \in SelectQuestionIds(RetryConfig(z, mine))
    PROVE  Drawn(z, ids)
<1> DEFINE r == RetryConfig(z, mine)
<1>1. /\ r.send = Len(mine) /\ r.shuffle = z.shuffle
      /\ r.questions = [i \in DOMAIN z.questions |->
                           [type |-> z.questions[i].type,
                            required |-> z.questions[i].required /\ i \in ToSet(mine)]]
  BY DEF RetryConfig
<1> HIDE DEF r
<1>2. Len(z.questions) \in Nat /\ DOMAIN z.questions = 1 .. Len(z.questions)
  BY DEF IsDrawable
<1>3. DOMAIN r.questions = DOMAIN z.questions /\ Len(r.questions) = Len(z.questions)
  BY <1>1, <1>2
<1>4. \A i \in DOMAIN z.questions : r.questions[i].type = z.questions[i].type /\ r.questions[i].required \in BOOLEAN
  <2> TAKE i \in DOMAIN z.questions
  <2> DEFINE b == z.questions[i].required /\ i \in ToSet(mine)
  <2>1. b \in BOOLEAN
    BY Zenon
  <2>2. r.questions[i] = [type |-> z.questions[i].type, required |-> b]
    BY <1>1
  <2> HIDE DEF b
  <2> QED BY <2>1, <2>2
<1>5. IsDrawable(r)
  <2>1. r.shuffle \in BOOLEAN /\ r.send \in Int
    <3>1. z.shuffle \in BOOLEAN
      BY DEF IsDrawable
    <3> QED BY <1>1, <3>1
  <2> QED BY <1>2, <1>3, <1>4, <2>1, Zenon DEF IsDrawable
<1>6. Drawn(r, ids)
  BY <1>5, SelectDrawn DEF r
<1>7. {i \in DOMAIN r.questions : r.questions[i].type \in Supported}
         = {i \in DOMAIN z.questions : z.questions[i].type \in Supported}
  BY <1>3, <1>4
<1> QED BY <1>6, <1>7 DEF Drawn

\* A hand of the deal lies within the deck.
LEMMA DealtWithin ==
    ASSUME NEW l \in Nat, NEW m \in Nat \ {0}, NEW k \in 1 .. m,
           NEW j \in 1 .. (l + m - k) \div m
    PROVE  (j - 1) * m + k \in 1 .. l
<1> DEFINE n == l + m - k
           q == n \div m
<1>1. n \in Nat /\ n \in Int
  OBVIOUS
<1> HIDE DEF n
<1>2. q \in Int /\ m * q <= n
  BY <1>1, Quotient
<1>3. j <= q /\ j \in Int /\ j >= 1
  BY <1>2 DEF n
<1> HIDE DEF q
<1>4. q * m >= j * m
  BY <1>2, <1>3, TimesMono
<1>5. j * m <= n /\ (j - 1) * m >= 0 * m
  <2>1. j - 1 \in Int /\ 0 \in Int /\ j - 1 >= 0 /\ m \in Nat
    BY <1>3
  <2>2. (j - 1) * m >= 0 * m
    BY <2>1, TimesMono
  <2>3. m * q \in Int /\ q * m = m * q /\ j * m \in Int /\ n \in Int
    BY <1>1, <1>2, <1>3
  <2>4. j * m <= n
    BY <1>2, <1>4, <2>3
  <2> QED BY <2>2, <2>4
<1>6. (j - 1) * m = j * m - m /\ j * m \in Int
  BY <1>3
<1> QED BY <1>1, <1>3, <1>5, <1>6 DEF n

LEMMA DealtApart ==
    ASSUME NEW m \in Nat \ {0}, NEW k \in Int, NEW i \in Int, NEW j \in Int,
           (i - 1) * m + k = (j - 1) * m + k
    PROVE  i = j
<1>1. (i - 1) * m = i * m - m /\ (j - 1) * m = j * m - m /\ i * m \in Int /\ j * m \in Int
  OBVIOUS
<1>2. i * m = j * m
  BY <1>1
<1> QED BY <1>2, TimesStrict

LEMMA SliceDrawn ==
    ASSUME NEW z, IsDrawable(z), NEW ids, Drawn(z, ids),
           NEW m \in Nat \ {0}, NEW k \in 1 .. m
    PROVE  Drawn(z, Slice(z, ids, m, k))
<1> DEFINE Ok == {i \in DOMAIN z.questions : z.questions[i].type \in Supported}
           A == {p \in DOMAIN ids : z.questions[ids[p]].required = TRUE}
           B == {p \in DOMAIN ids : z.questions[ids[p]].required = FALSE}
           l == Len(ids)
           dealt == Ascending(A) \o Ascending(B)
           mine == Slice(z, ids, m, k)
<1>1. ids \in Seq(Ok) /\ IsInjective(ids) /\ l \in Nat /\ DOMAIN ids = 1 .. l
  BY DEF Drawn
<1>2. \A p \in DOMAIN ids : ids[p] \in Ok /\ z.questions[ids[p]].required \in BOOLEAN
  <2>1. \A p \in DOMAIN ids : ids[p] \in Ok
    BY <1>1
  <2>2. \A i \in Ok : z.questions[i].required \in BOOLEAN
    BY DEF IsDrawable
  <2> HIDE DEF Ok
  <2> QED BY <2>1, <2>2
<1>3. /\ A \in SUBSET (1 .. l) /\ B \in SUBSET (1 .. l)
      /\ A \cap B = {} /\ A \cup B = 1 .. l
  <2>1. A \in SUBSET (1 .. l) /\ B \in SUBSET (1 .. l)
    BY <1>1
  <2>2. A \cap B = {}
    OBVIOUS
  <2>3. A \cup B = 1 .. l
    BY <1>1, <1>2
  <2> QED BY <2>1, <2>2, <2>3
<1> HIDE DEF A, B
<1>4. /\ Ascending(A) \in Seq(A) /\ IsInjective(Ascending(A))
      /\ Len(Ascending(A)) = Cardinality(A)
      /\ IsFiniteSet(A) /\ Cardinality(A) \in Nat
  BY <1>1, <1>3, AscendingIs
<1>5. /\ Ascending(B) \in Seq(B) /\ IsInjective(Ascending(B))
      /\ Len(Ascending(B)) = Cardinality(B)
      /\ IsFiniteSet(B) /\ Cardinality(B) \in Nat
  BY <1>1, <1>3, AscendingIs
<1>6. Cardinality(A) + Cardinality(B) = l
  <2>1. Cardinality(A \cup B)
           = Cardinality(A) + Cardinality(B) - Cardinality(A \cap B)
    BY <1>4, <1>5, FS_Union
  <2>2. Cardinality(1 .. l) = l
    BY <1>1, FS_Interval
  <2>3. Cardinality(A \cap B) = 0
    BY <1>3, FS_EmptySet
  <2>4. Cardinality(A \cup B) = l
    BY <1>3, <2>2
  <2> HIDE DEF l
  <2> QED BY <1>4, <1>5, <2>1, <2>3, <2>4
<1>7. dealt \in Seq(A \cup B) /\ Len(dealt) = l /\ IsInjective(dealt)
  <2>1. dealt \in Seq(A \cup B) /\ Len(dealt) = Len(Ascending(A)) + Len(Ascending(B)) /\ IsInjective(dealt)
    BY <1>3, <1>4, <1>5, Concat
  <2> HIDE DEF dealt
  <2> QED BY <1>4, <1>5, <1>6, <2>1
<1> HIDE DEF dealt
<1> DEFINE n == (l + m - k) \div m
           at(j) == (j - 1) * m + k
<1>8. mine = [j \in 1 .. n |-> ids[dealt[at(j)]]]
  BY DEF Slice, A, B, dealt
<1>9. n \in Nat
  <2>1. l + m - k \in Int /\ 0 <= l + m - k
    BY <1>1
  <2>2. n \in Int /\ l + m - k < m * n + m
    BY <2>1, Quotient
  <2>3. n >= 0
    <3>1. SUFFICES ASSUME n <= 0 - 1 PROVE FALSE
      BY <2>2
    <3> HIDE DEF n
    <3>2. (0 - 1) * m >= n * m
      BY <2>2, <3>1, TimesMono
    <3> QED BY <2>1, <2>2, <3>2
  <2> QED BY <2>2, <2>3
<1>10. \A j \in 1 .. n : at(j) \in DOMAIN dealt
  <2>1. DOMAIN dealt = 1 .. l
    BY <1>1, <1>7
  <2> HIDE DEF l
  <2>2. \A j \in 1 .. n : (j - 1) * m + k \in 1 .. l
    BY <1>1, DealtWithin
  <2> QED BY <2>1, <2>2
<1> HIDE DEF n
<1>11. \A j \in 1 .. n : dealt[at(j)] \in DOMAIN ids
  <2> HIDE DEF at, l
  <2>1. \A i \in DOMAIN dealt : dealt[i] \in 1 .. l
    BY <1>3, <1>7
  <2> QED BY <1>1, <1>10, <2>1
<1>12. mine \in Seq(Ok) /\ DOMAIN mine = 1 .. n
  <2> HIDE DEF at, mine, Ok
  <2>1. mine \in [1 .. n -> Ok]
    BY <1>2, <1>8, <1>11
  <2> QED BY <1>9, <2>1
<1>13. IsInjective(mine)
  <2> SUFFICES ASSUME NEW i \in 1 .. n, NEW j \in 1 .. n, mine[i] = mine[j] PROVE i = j
    BY <1>12, Zenon DEF IsInjective
  <2>1. ids[dealt[at(i)]] = ids[dealt[at(j)]]
    BY <1>8
  <2>2. dealt[at(i)] = dealt[at(j)]
    BY <1>1, <1>11, <2>1 DEF IsInjective
  <2>3. at(i) = at(j)
    BY <1>7, <1>10, <2>2 DEF IsInjective
  <2>4. i \in Int /\ j \in Int /\ k \in Int
    BY <1>9
  <2> QED BY <2>3, <2>4, DealtApart
<1> QED BY <1>12, <1>13 DEF Drawn

-----------------------------------------------------------------------------
(* Answers.                                                                *)

LEMMA MinIs ==
    ASSUME NEW S \in SUBSET Nat, S # {}
    PROVE  Min(S) \in S /\ \A y \in S : Min(S) <= y
<1>1. \E x \in S : \A y \in S : x <= y
  BY LeastNat
<1> QED BY <1>1 DEF Min

LEMMA ArrangementIs ==
    ASSUME NEW z, NEW q, IsQuestion(q), NEW arr \in Arrangements(z, q)
    PROVE  /\ DOMAIN arr = 1 .. q.size /\ IsInjective(arr)
           /\ \A p \in 1 .. q.size : arr[p] \in 1 .. q.size
           /\ \A o \in 1 .. q.size : \E p \in 1 .. q.size : arr[p] = o
<1>1. q.size \in Nat
  BY DEF IsQuestion
<1>2. IsFiniteSet(1 .. q.size) /\ Cardinality(1 .. q.size) = q.size
  <2>1. 1 \in Int /\ q.size \in Int
    BY <1>1
  <2>2. /\ IsFiniteSet(1 .. q.size)
        /\ Cardinality(1 .. q.size) = IF 1 > q.size THEN 0 ELSE q.size - 1 + 1
    BY <2>1, FS_Interval
  <2>3. (IF 1 > q.size THEN 0 ELSE q.size - 1 + 1) = q.size
    BY <1>1
  <2> QED BY <2>2, <2>3
<1>3. CASE arr \in Orders(1 .. q.size)
  <2>1. /\ arr \in Seq(1 .. q.size) /\ IsInjective(arr) /\ DOMAIN arr = 1 .. q.size
        /\ \A x \in 1 .. q.size : \E k \in DOMAIN arr : arr[k] = x
    BY <1>2, <1>3, Onto
  <2>2. \A p \in DOMAIN arr : arr[p] \in 1 .. q.size
    BY <2>1, Element, Zenon
  <2> QED BY <2>1, <2>2, Zenon
<1>4. CASE arr = [p \in 1 .. q.size |-> p]
  BY <1>4 DEF IsInjective
<1> QED BY <1>3, <1>4 DEF Arrangements

\* An answer earns what it is worth, however the options were arranged.
LEMMA AnswerWorth ==
    ASSUME NEW z, NEW q, IsQuestion(q), q.type \in Supported,
           NEW arr \in Arrangements(z, q), NEW meaning \in Meanings(q)
    PROVE  GradeAnswer(q, SnapshotKey(q, arr), Posted(q, arr, meaning)) = Worth(q, meaning)
<1> DEFINE key == SnapshotKey(q, arr)
           posted == Posted(q, arr, meaning)
<1>1. /\ DOMAIN arr = 1 .. q.size /\ IsInjective(arr)
      /\ \A p \in 1 .. q.size : arr[p] \in 1 .. q.size
      /\ \A o \in 1 .. q.size : \E p \in 1 .. q.size : arr[p] = o
  BY ArrangementIs
<1>2. CASE q.type = "SINGLE_CHOICE"
  <2>1. Key(q) \in 1 .. q.size
    <3>1. q.size \in Nat /\ q.size > 0 /\ q.right \subseteq 1 .. q.size
      BY <1>2 DEF IsQuestion
    <3>2. q.right # {} => Min(q.right) \in q.right
      <4>1. q.right \in SUBSET Nat
        BY <3>1
      <4> QED BY <4>1, MinIs
    <3> QED BY <1>2, <3>1, <3>2 DEF Key
  <2>2. key \in 1 .. q.size /\ arr[key] = Key(q)
    BY <1>1, <1>2, <2>1 DEF SnapshotKey
  <2>3. meaning \in 0 .. q.size
    BY <1>2 DEF Meanings
  <2>4. meaning = 0 => posted = 0
    BY <1>2 DEF Posted
  <2>5. meaning # 0 => posted \in 1 .. q.size /\ arr[posted] = meaning
    <3>1. SUFFICES ASSUME meaning # 0 PROVE posted \in 1 .. q.size /\ arr[posted] = meaning
      OBVIOUS
    <3>2. meaning \in 1 .. q.size
      BY <2>3, <3>1
    <3>3. posted = CHOOSE p \in DOMAIN arr : arr[p] = meaning
      BY <1>2, <3>1 DEF Posted
    <3> HIDE DEF posted
    <3> QED BY <1>1, <3>2, <3>3
  <2> HIDE DEF key, posted
  <2>6. posted = key <=> meaning = Key(q)
    <3>1. CASE meaning = 0
      BY <2>1, <2>2, <2>4, <3>1
    <3>2. CASE meaning # 0
      <4>1. posted \in DOMAIN arr /\ key \in DOMAIN arr /\ arr[posted] = meaning /\ arr[key] = Key(q)
        BY <1>1, <2>2, <2>5, <3>2
      <4>2. arr[posted] = arr[key] => posted = key
        BY <1>1, <4>1 DEF IsInjective
      <4> QED BY <4>1, <4>2
    <3> QED BY <3>1, <3>2
  <2>7. GradeAnswer(q, key, posted) = Worth(q, meaning)
    BY <1>2, <2>6 DEF GradeAnswer, Worth
  <2> QED BY <2>7 DEF key, posted
<1>3. CASE q.type = "MULTIPLE_CHOICE"
  <2>1. Key(q) \subseteq 1 .. q.size /\ meaning \subseteq 1 .. q.size
    BY <1>3 DEF Key, IsQuestion, Meanings
  <2>2. key = {p \in 1 .. q.size : arr[p] \in Key(q)} /\ posted = {p \in 1 .. q.size : arr[p] \in meaning}
    BY <1>1, <1>3 DEF SnapshotKey, Posted
  <2> HIDE DEF key, posted
  <2>3. posted = key => meaning = Key(q)
    <3> SUFFICES ASSUME posted = key PROVE \A o \in 1 .. q.size : o \in meaning <=> o \in Key(q)
      BY <2>1
    <3> TAKE o \in 1 .. q.size
    <3>1. PICK p \in 1 .. q.size : arr[p] = o
      BY <1>1
    <3> QED BY <2>2, <3>1
  <2>4. meaning = Key(q) => posted = key
    BY <2>2
  <2>5. GradeAnswer(q, key, posted) = Worth(q, meaning)
    BY <1>3, <2>3, <2>4 DEF GradeAnswer, Worth
  <2> QED BY <2>5 DEF key, posted
<1>4. CASE q.type \in {"ORDERING", "TRUE_FALSE"}
  <2>1. key = Key(q) /\ posted = meaning
    BY <1>4 DEF SnapshotKey, Posted
  <2> HIDE DEF key, posted
  <2>2. GradeAnswer(q, key, posted) = Worth(q, meaning)
    BY <1>4, <2>1 DEF GradeAnswer, Worth
  <2> QED BY <2>2 DEF key, posted
<1> QED BY <1>2, <1>3, <1>4 DEF Supported

-----------------------------------------------------------------------------
(* The invariant.                                                          *)

Statuses == Ended \cup {"PENDING", "VALIDATING", "AWAITING_AI_REVIEW", "QUIZ_SENT",
                        "AWAITING_TEACHER_REVIEW"}
Row == [by : People, tests : Fraction, mark : Fraction, draw : Seq(Nat), status : Statuses]
Attempt == [sub : Nat, student : People, passed : BOOLEAN, pct : Fraction, conduct : Conducts]

GradesTypeOK ==
    /\ cfg \in Configs /\ (Scored => ValidAssignment(cfg.g))
    /\ subs \in Seq(Row) /\ attempts \in Seq(Attempt)
    /\ scores \in [People -> Forms]

\* The scripts run so far and those to come are the plan.
Plan == ResolveCheckPlan(cfg.check, cfg.variant)
Report == [script : ToSet(Plan), earned : Int, max : Int]

AlongPlan ==
    /\ Len(check.ran) + Len(check.left) = Len(Plan)
    /\ \A i \in DOMAIN check.ran : check.ran[i].script = Plan[i]
    /\ \A i \in DOMAIN check.left : check.left[i] = Plan[Len(check.ran) + i]

CheckOK ==
    /\ check \in [left : Seq(ToSet(Plan)), ran : Seq(Report)]
    /\ check # NoCheck => AlongPlan
    /\ IsAt("VALIDATING") => AlongPlan
    /\ Now > 0 /\ Current.status \in {"PENDING", "VALIDATING"} => ~IsSome(Current.tests)
    /\ Now > 0 /\ IsSome(Current.tests) =>
          /\ AlongPlan /\ check.left = <<>>
          /\ Current.tests.n = Earned(check.ran) /\ Current.tests.d = MaxPoints(check.ran)

IsSequence(s) == Len(s) \in Nat /\ s = [k \in 1 .. Len(s) |-> s[k]]

GoodSheet(z, sh) ==
    /\ DOMAIN sh = {"student", "ids", "arrs", "meant", "points"}
    /\ Drawn(z, sh.ids)
    /\ \A k \in DOMAIN sh.ids : sh.arrs[k] \in Arrangements(z, z.questions[sh.ids[k]])
    /\ sh.points \in Seq(Int) /\ IsSequence(sh.meant)
    /\ Len(sh.meant) = Len(sh.points) /\ Len(sh.points) <= Len(sh.ids)
    /\ \A k \in DOMAIN sh.points : sh.points[k] = Worth(z.questions[sh.ids[k]], sh.meant[k])
    /\ sh # NoSheet => sh.student \in People

SheetOK == GoodSheet(cfg.quiz, sheet)

DrawsOK == \A i \in 1 .. Now : Drawn(cfg.quiz, subs[i].draw)

EarlyEnded == \A i \in 1 .. Now : i # Now => subs[i].status \in Ended

\* Nobody uploads over a work that is done.
LastCompleted ==
    \A i, j \in 1 .. Now : i < j /\ subs[i].status = "COMPLETED" => subs[j].by \notin Covered(subs[i].by)

HasPassed(att, i, p) == \E k \in DOMAIN att : att[k].sub = i /\ att[k].passed /\ att[k].student = p

Sitting ==
    sheet # NoSheet => /\ IsAt("QUIZ_SENT") /\ sheet.student \in Covered(Current.by)
                       /\ ~HasPassed(attempts, Now, sheet.student)

AttemptsOK ==
    /\ \A k \in DOMAIN attempts : /\ attempts[k].sub \in 1 .. Now
                                  /\ attempts[k].passed => IsSome(attempts[k].pct)
    /\ \A k, l \in DOMAIN attempts :
          /\ attempts[k].passed /\ attempts[l].passed
          /\ attempts[k].sub = attempts[l].sub /\ attempts[k].student = attempts[l].student
          => k = l
    /\ Now > 0 /\ Current.status \in {"PENDING", "VALIDATING", "AWAITING_AI_REVIEW"}
          => \A k \in DOMAIN attempts : attempts[k].sub # Now

QuizOpen == IsAt("QUIZ_SENT") => \E p \in Covered(Current.by) : ~HasPassed(attempts, Now, p)

ScoredFlow ==
    Scored => \A i \in 1 .. Now :
        /\ subs[i].status \in {"QUIZ_SENT", "AWAITING_TEACHER_REVIEW", "COMPLETED", "FAILED"}
        /\ subs[i].status \in {"AWAITING_TEACHER_REVIEW", "COMPLETED"} => \E p \in People : HasPassed(attempts, i, p)

GradeEarned ==
    \A s \in People : grade[s] # Blank =>
        \E i \in 1 .. Now : subs[i].status = "COMPLETED" /\ s \in Covered(subs[i].by)

BaseInv == GradesTypeOK /\ CheckOK /\ SheetOK /\ DrawsOK

-----------------------------------------------------------------------------
(* The constants.                                                          *)

LEMMA ConfigIs ==
    ASSUME NEW c \in Configs
    PROVE  /\ c.g \in GradingBlock /\ c.g.min <= c.g.max
           /\ c.squad \in BOOLEAN /\ c.variant \in BOOLEAN /\ c.check.nested \in BOOLEAN
           /\ IsDrawable(c.quiz)
           /\ \A i \in DOMAIN c.quiz.questions : IsQuestion(c.quiz.questions[i])
<1>1. IsConfig(c)
  BY GradesAssumption
<1>2. /\ c.g \in GradingBlock /\ c.g.min <= c.g.max
      /\ c.squad \in BOOLEAN /\ c.variant \in BOOLEAN /\ c.check.nested \in BOOLEAN
      /\ \A i \in DOMAIN c.quiz.questions : IsQuestion(c.quiz.questions[i])
  BY <1>1 DEF IsConfig
<1>3. \A i \in DOMAIN c.quiz.questions : c.quiz.questions[i].required \in BOOLEAN
  BY <1>2 DEF IsQuestion
<1>4. IsDrawable(c.quiz)
  BY <1>1, <1>3 DEF IsConfig, IsDrawable
<1> QED BY <1>2, <1>4

LEMMA PeopleAre ==
    /\ Len(Students) \in Nat \ {0} /\ DOMAIN Students = 1 .. Len(Students)
    /\ People # {} /\ IsFiniteSet(People)
    /\ \A s \in People : Place(s) \in 1 .. Len(Students) /\ Students[Place(s)] = s
<1>1. Students \in Seq(ToSet(Students)) /\ Len(Students) > 0
  BY StudentsAssumption
<1>2. Len(Students) \in Nat \ {0} /\ DOMAIN Students = 1 .. Len(Students)
  BY <1>1
<1>3. People = {Students[i] : i \in DOMAIN Students}
  BY DEF People, ToSet
<1>4. People # {}
  BY <1>2, <1>3
<1>5. IsFiniteSet(People)
  <2>1. IsFiniteSet(DOMAIN Students)
    BY <1>2, FS_Interval
  <2>2. Students \in Surjection(DOMAIN Students, People)
    BY <1>1, <1>3 DEF Surjection, People
  <2> QED BY <2>1, <2>2, FS_Surjection
<1>6. \A s \in People : Place(s) \in DOMAIN Students /\ Students[Place(s)] = s
  BY <1>3 DEF Place
<1> QED BY <1>2, <1>4, <1>5, <1>6

\* The scripts a config names for the student.
ScriptsOf(c, variant) ==
    LET own == IF variant THEN c.own ELSE NoScript
    IN  (IF c.nested THEN {c.base, own}
         ELSE IF own = NoScript THEN {c.base} ELSE {own}) \ {NoScript}

LEMMA OneScript ==
    ASSUME NEW x
    PROVE  ToSet(<<x>>) = {x} /\ <<x>> \in Seq({x}) /\ IsInjective(<<x>>)
BY DEF ToSet, IsInjective

LEMMA TwoScripts ==
    ASSUME NEW x, NEW y, x # y
    PROVE  LET u == <<x>> \o <<y>>
           IN  ToSet(u) = {x, y} /\ u \in Seq({x, y}) /\ IsInjective(u)
<1> DEFINE u == <<x>> \o <<y>>
<1>1. {x} \cap {y} = {} /\ <<x>> \in Seq({x}) /\ <<y>> \in Seq({y}) /\ Len(<<x>>) = 1 /\ Len(<<y>>) = 1
  OBVIOUS
<1>2. u \in Seq({x} \cup {y}) /\ Len(u) = Len(<<x>>) + Len(<<y>>) /\ IsInjective(u)
  BY <1>1, OneScript, Concat
<1>3. u[1] = x /\ u[2] = y
  OBVIOUS
<1> HIDE DEF u
<1>4. u \in Seq({x, y}) /\ DOMAIN u = {1, 2}
  <2>1. Len(u) = 2
    BY <1>1, <1>2
  <2>2. {x} \cup {y} = {x, y}
    OBVIOUS
  <2> QED BY <1>2, <2>1, <2>2
<1>5. ToSet(u) = {x, y}
  BY <1>3, <1>4 DEF ToSet
<1> QED BY <1>2, <1>4, <1>5 DEF u

LEMMA NoScripts == ToSet(<<>>) = {} /\ <<>> \in Seq({}) /\ IsInjective(<<>>)
BY DEF ToSet, IsInjective

LEMMA PlanIs ==
    ASSUME NEW c, NEW variant \in BOOLEAN, c.nested \in BOOLEAN
    PROVE  LET p == ResolveCheckPlan(c, variant)
           IN  p \in Seq(ToSet(p)) /\ IsInjective(p) /\ ToSet(p) = ScriptsOf(c, variant)
<1> DEFINE own == OwnScript(c, variant)
           s == WithoutRepeat(c, variant)
           p == ResolveCheckPlan(c, variant)
           Of(x) == IF x = NoScript THEN <<>> ELSE <<x>>
<1>1. s[1] = s[2] => s[1] = NoScript
  BY DEF WithoutRepeat
<1>2. {s[1], s[2]} \ {NoScript} = ScriptsOf(c, variant)
  <2>1. CASE c.nested
    BY <2>1 DEF WithoutRepeat, Scripts, OwnScript, ScriptsOf
  <2>2. CASE ~c.nested
    BY <2>2 DEF WithoutRepeat, Scripts, OwnScript, ScriptsOf
  <2> QED BY <2>1, <2>2
<1>3. p = Of(s[1]) \o Of(s[2])
  BY DEF ResolveCheckPlan
<1> HIDE DEF s
<1> DEFINE x == s[1]
           y == s[2]
<1> HIDE DEF p
<1> SUFFICES p \in Seq(ToSet(p)) /\ IsInjective(p) /\ ToSet(p) = {x, y} \ {NoScript}
  BY <1>2 DEF p
<1> HIDE DEF x, y
<1>4. CASE x = NoScript /\ y = NoScript
  <2>1. p = <<>>
    BY <1>3, <1>4 DEF x, y
  <2> QED BY <1>4, <2>1, NoScripts
<1>5. CASE x # NoScript /\ y = NoScript
  <2>1. p = <<x>>
    BY <1>3, <1>5 DEF x, y
  <2> QED BY <1>5, <2>1, OneScript
<1>6. CASE x = NoScript /\ y # NoScript
  <2>1. p = <<y>>
    BY <1>3, <1>6 DEF x, y
  <2> QED BY <1>6, <2>1, OneScript
<1>7. CASE x # NoScript /\ y # NoScript
  <2>1. p = <<x>> \o <<y>>
    BY <1>3, <1>7 DEF x, y
  <2>2. x # y
    BY <1>1, <1>7 DEF x, y
  <2>3. ToSet(p) = {x, y} /\ p \in Seq({x, y}) /\ IsInjective(p)
    BY <2>1, <2>2, TwoScripts
  <2> QED BY <1>7, <2>3
<1> QED BY <1>4, <1>5, <1>6, <1>7

-----------------------------------------------------------------------------
(* Rows and what settling does to them.                                    *)

LEMMA RowStatus ==
    ASSUME NEW row \in Row, NEW st \in Statuses
    PROVE  LET new == [row EXCEPT !.status = st]
           IN  /\ new \in Row /\ new.status = st /\ new.by = row.by /\ new.tests = row.tests
               /\ new.mark = row.mark /\ new.draw = row.draw
BY DEF Row

LEMMA SettleIs ==
    ASSUME subs \in Seq(Row), NEW i \in 1 .. Now, NEW row \in Row, NEW st \in Statuses,
           NEW att, NEW scr, SettleAt(i, row, st, att, scr)
    PROVE  /\ subs' \in Seq(Row) /\ Now' = Now /\ Now \in Nat /\ DOMAIN subs = 1 .. Now
           /\ subs'[i] \in Row /\ subs'[i].status = st /\ subs'[i].by = row.by
           /\ subs'[i].tests = row.tests /\ subs'[i].mark = row.mark /\ subs'[i].draw = row.draw
           /\ \A j \in 1 .. Now : j # i => subs'[j] = subs[j]
<1> DEFINE new == [row EXCEPT !.status = st]
<1>1. /\ new \in Row /\ new.status = st /\ new.by = row.by /\ new.tests = row.tests
      /\ new.mark = row.mark /\ new.draw = row.draw
  BY RowStatus
<1>2. subs' = [subs EXCEPT ![i] = new]
  BY DEF SettleAt
<1> HIDE DEF new
<1>3. Now \in Nat /\ DOMAIN subs = 1 .. Now
  BY DEF Now
<1>4. subs' \in Seq(Row) /\ Len(subs') = Len(subs) /\ subs'[i] = new
      /\ \A j \in 1 .. Now : j # i => subs'[j] = subs[j]
  BY <1>1, <1>2, <1>3 DEF Now
<1> QED BY <1>1, <1>3, <1>4 DEF Now

LEMMA RowsAre ==
    ASSUME subs \in Seq(Row)
    PROVE  /\ Now \in Nat /\ DOMAIN subs = 1 .. Now
           /\ \A i \in 1 .. Now : /\ subs[i] \in Row /\ subs[i].by \in People /\ subs[i].status \in Statuses
                                  /\ subs[i].tests \in Fraction /\ subs[i].mark \in Fraction
           /\ Now > 0 => Now \in 1 .. Now /\ Current \in Row
<1>1. Now \in Nat /\ DOMAIN subs = 1 .. Now
  BY DEF Now
<1>2. \A i \in 1 .. Now : subs[i] \in Row
  BY <1>1, Element, Zenon
<1>3. \A r \in Row : r.by \in People /\ r.status \in Statuses /\ r.tests \in Fraction /\ r.mark \in Fraction
  BY DEF Row
<1>4. Now > 0 => Now \in 1 .. Now
  BY <1>1
<1> QED BY <1>1, <1>2, <1>3, <1>4, Zenon DEF Current

\* A submission in one of these states has tests, or a plan, to answer for.
LEMMA SettleBase ==
    ASSUME BaseInv, Now > 0, NEW row \in Row, row.draw = Current.draw, NEW st \in Statuses,
           NEW att, NEW scr, Settle(row, st, att, scr), cfg' = cfg
    PROVE  /\ subs' \in Seq(Row) /\ DrawsOK' /\ Now' = Now
           /\ Current'.status = st /\ Current'.tests = row.tests /\ Current'.by = row.by
<1>1. subs \in Seq(Row) /\ DrawsOK
  BY DEF BaseInv, GradesTypeOK
<1>2. Now \in 1 .. Now /\ Now \in Nat
  BY <1>1, RowsAre
<1>3. SettleAt(Now, row, st, att, scr)
  BY DEF Settle
<1>4. /\ subs' \in Seq(Row) /\ Now' = Now
      /\ subs'[Now].status = st /\ subs'[Now].by = row.by
      /\ subs'[Now].tests = row.tests /\ subs'[Now].draw = row.draw
      /\ \A j \in 1 .. Now : j # Now => subs'[j] = subs[j]
  BY <1>1, <1>2, <1>3, SettleIs
<1>5. \A j \in 1 .. Now : subs'[j].draw = subs[j].draw
  BY <1>4 DEF Current
<1>6. DrawsOK'
  BY <1>1, <1>4, <1>5 DEF DrawsOK
<1> QED BY <1>4, <1>6 DEF Current

LEMMA SheetKept ==
    ASSUME SheetOK, cfg' = cfg, sheet' = sheet
    PROVE  SheetOK'
BY DEF SheetOK

LEMMA TypesKept ==
    ASSUME GradesTypeOK, subs' \in Seq(Row), cfg' = cfg, attempts' = attempts, scores' = scores
    PROVE  GradesTypeOK'
BY DEF GradesTypeOK, Scored, Forms

LEMMA SumsAreInt ==
    ASSUME NEW S, NEW ran \in Seq([script : S, earned : Int, max : Int])
    PROVE  Earned(ran) \in Int /\ MaxPoints(ran) \in Int
<1>1. Len(ran) \in Nat /\ DOMAIN ran = 1 .. Len(ran)
  OBVIOUS
<1>0. \A i \in DOMAIN ran : ran[i].earned \in Int /\ ran[i].max \in Int
  <2>1. \A i \in DOMAIN ran : ran[i] \in [script : S, earned : Int, max : Int]
    BY Element, Zenon
  <2> QED BY <2>1
<1>2. [i \in DOMAIN ran |-> ran[i].earned] \in Seq(Int)
  <2>1. [i \in DOMAIN ran |-> ran[i].earned] \in [1 .. Len(ran) -> Int]
    BY <1>0, <1>1
  <2> QED BY <1>1, <2>1
<1>3. [i \in DOMAIN ran |-> ran[i].max] \in Seq(Int)
  <2>1. [i \in DOMAIN ran |-> ran[i].max] \in [1 .. Len(ran) -> Int]
    BY <1>0, <1>1
  <2> QED BY <1>1, <2>1
<1> QED BY <1>2, <1>3, TotalIsInt DEF Earned, MaxPoints

-----------------------------------------------------------------------------
(* Upload and checks.                                                      *)

LEMMA StatusNames ==
    {"PENDING", "VALIDATING", "AWAITING_AI_REVIEW", "QUIZ_SENT", "AWAITING_TEACHER_REVIEW",
     "COMPLETED", "FAILED", "VALIDATION_FAILED", "TEST_FAILED"} \subseteq Statuses
BY DEF Statuses, Ended, Terminal

LEMMA BaseUpload ==
    ASSUME BaseInv, NEW s \in People, Upload(s)
    PROVE  BaseInv'
<1> DEFINE new == [by |-> s, tests |-> None, mark |-> None, draw |-> <<>>,
                   status |-> IF Scored THEN "QUIZ_SENT" ELSE "PENDING"]
<1>1. subs \in Seq(Row) /\ subs' = Append(subs, new) /\ cfg' = cfg /\ check' = NoCheck
      /\ sheet' = sheet /\ attempts' = attempts /\ scores' = scores
  BY DEF BaseInv, GradesTypeOK, Upload
<1>2. new \in Row /\ new.draw = <<>> /\ new.tests = None
  BY StatusNames DEF Row, None, Fraction
<1> HIDE DEF new
<1>3. Now \in Nat /\ subs' \in Seq(Row) /\ Now' = Now + 1 /\ subs'[Now + 1] = new
      /\ \A i \in 1 .. Now : subs'[i] = subs[i]
  BY <1>1, <1>2 DEF Now
<1>4. GradesTypeOK'
  BY <1>1, <1>3, TypesKept DEF BaseInv
<1>5. SheetOK'
  BY <1>1, SheetKept DEF BaseInv
<1>6. DrawsOK'
  <2>1. Drawn(cfg.quiz, <<>>)
    BY DEF Drawn, IsInjective
  <2>2. \A i \in 1 .. Now + 1 : i \in 1 .. Now \/ i = Now + 1
    BY <1>3
  <2> QED BY <1>1, <1>2, <1>3, <2>1, <2>2 DEF DrawsOK, BaseInv
<1>7. CheckOK'
  <2>1. Current' = new
    BY <1>3 DEF Current
  <2>2. ~IsSome(new.tests)
    BY <1>2 DEF IsSome, None
  <2>3. NoCheck \in [left : Seq(ToSet(Plan)), ran : Seq(Report)]
    BY DEF NoCheck
  <2>4. new.status # "VALIDATING"
    BY DEF new
  <2>5. Plan' = Plan /\ Report' = Report
    BY <1>1 DEF Plan, Report
  <2> QED BY <1>1, <2>1, <2>2, <2>3, <2>4, <2>5 DEF CheckOK, IsAt, NoCheck
<1> QED BY <1>4, <1>5, <1>6, <1>7 DEF BaseInv

LEMMA PlanOf ==
    ASSUME BaseInv
    PROVE  Plan \in Seq(ToSet(Plan)) /\ IsInjective(Plan) /\ ToSet(Plan) = Named
           /\ Len(Plan) \in Nat /\ DOMAIN Plan = 1 .. Len(Plan)
<1>1. cfg.variant \in BOOLEAN /\ cfg.check.nested \in BOOLEAN
  BY ConfigIs DEF BaseInv, GradesTypeOK
<1>2. Named = ScriptsOf(cfg.check, cfg.variant)
  BY DEF Named, ScriptsOf
<1>3. Plan \in Seq(ToSet(Plan)) /\ IsInjective(Plan) /\ ToSet(Plan) = Named
  BY <1>1, <1>2, PlanIs DEF Plan
<1> QED BY <1>3

\* Settling a submission while nothing runs keeps the tests it is judged by.
LEMMA CheckSettled ==
    ASSUME BaseInv, Now > 0, NEW st \in Statuses \ {"PENDING", "VALIDATING"}, Now' = Now,
           Current'.status = st, Current'.tests = Current.tests,
           cfg' = cfg, check' = check
    PROVE  CheckOK'
<1>1. Plan' = Plan /\ Report' = Report
  BY DEF Plan, Report
<1>2. AlongPlan' = AlongPlan
  BY <1>1 DEF AlongPlan
<1> QED BY <1>1, <1>2 DEF BaseInv, CheckOK, IsAt, NoCheck

LEMMA BaseStartCheck ==
    ASSUME BaseInv, NEW ok \in BOOLEAN, StartCheck(ok)
    PROVE  BaseInv'
<1>1. /\ Now > 0 /\ Current.status = "PENDING" /\ cfg' = cfg
      /\ sheet' = sheet /\ attempts' = attempts /\ scores' = scores
  BY DEF StartCheck, IsAt
<1>2. Current \in Row /\ Now \in Nat
  BY <1>1, RowsAre DEF BaseInv, GradesTypeOK
<1>3. SheetOK'
  BY <1>1, SheetKept DEF BaseInv
<1>4. CASE Settle(Current, "VALIDATION_FAILED", attempts, scores) /\ check' = check
  <2>1. "VALIDATION_FAILED" \in Statuses \ {"PENDING", "VALIDATING"}
    BY StatusNames
  <2>2. /\ subs' \in Seq(Row) /\ DrawsOK' /\ Now' = Now
        /\ Current'.status = "VALIDATION_FAILED" /\ Current'.tests = Current.tests
    BY <1>1, <1>2, <1>4, <2>1, SettleBase
  <2>3. CheckOK'
    BY <1>1, <1>4, <2>1, <2>2, CheckSettled
  <2> QED BY <1>1, <1>3, <2>2, <2>3, TypesKept DEF BaseInv
<1>5. CASE /\ Settle(Current, "VALIDATING", attempts, scores)
           /\ check' = [left |-> Plan, ran |-> <<>>]
  <2>1. "VALIDATING" \in Statuses
    BY StatusNames
  <2>2. /\ subs' \in Seq(Row) /\ DrawsOK' /\ Now' = Now
        /\ Current'.status = "VALIDATING" /\ Current'.tests = Current.tests
    BY <1>1, <1>2, <1>5, <2>1, SettleBase
  <2>3. Plan' = Plan /\ Report' = Report
    BY <1>1 DEF Plan, Report
  <2>4. Plan \in Seq(ToSet(Plan)) /\ Len(Plan) \in Nat
    BY PlanOf
  <2>5. check'.left = Plan /\ check'.ran = <<>> /\ check' \in [left : Seq(ToSet(Plan)), ran : Seq(Report)]
    BY <1>5, <2>4
  <2>6. AlongPlan'
    BY <2>3, <2>4, <2>5 DEF AlongPlan
  <2>7. ~IsSome(Current.tests)
    BY <1>1 DEF BaseInv, CheckOK
  <2>8. CheckOK'
    BY <2>2, <2>3, <2>5, <2>6, <2>7 DEF CheckOK
  <2> QED BY <1>1, <1>3, <2>2, <2>8, TypesKept DEF BaseInv
<1> QED BY <1>4, <1>5 DEF StartCheck, Plan

LEMMA BaseRunScript ==
    ASSUME BaseInv, NEW r \in Reports, RunScript(r)
    PROVE  BaseInv'
<1> DEFINE left == check.left
           ran == check.ran
           new == [script |-> Head(left), earned |-> r.earned, max |-> r.max]
<1>1. /\ Now > 0 /\ Current.status = "VALIDATING" /\ cfg' = cfg /\ left # <<>> /\ subs' = subs
      /\ sheet' = sheet /\ attempts' = attempts /\ scores' = scores
      /\ check' = [left |-> Tail(left), ran |-> Append(ran, new)]
  BY DEF RunScript, IsAt
<1>2. /\ left \in Seq(ToSet(Plan)) /\ ran \in Seq(Report) /\ AlongPlan /\ ~IsSome(Current.tests)
  BY <1>1 DEF BaseInv, CheckOK, IsAt
<1>3. Len(Plan) \in Nat
  BY PlanOf
<1>4. r.earned \in Int /\ r.max \in Int
  BY GradesAssumption
<1>5. Plan' = Plan /\ Report' = Report /\ Now' = Now /\ Current' = Current
  BY <1>1 DEF Plan, Report, Now, Current
<1> HIDE DEF left, ran
<1>6. /\ Head(left) \in ToSet(Plan) /\ Tail(left) \in Seq(ToSet(Plan)) /\ Len(Tail(left)) = Len(left) - 1
      /\ Len(left) \in Nat \ {0} /\ Head(left) = left[1]
      /\ \A i \in DOMAIN Tail(left) : Tail(left)[i] = left[i + 1] /\ i + 1 \in DOMAIN left
      /\ 1 \in DOMAIN left
  BY <1>1, <1>2
<1>7. new \in Report /\ new.script = Head(left)
  BY <1>4, <1>6 DEF Report
<1> HIDE DEF new
<1>8. /\ Append(ran, new) \in Seq(Report) /\ Len(Append(ran, new)) = Len(ran) + 1 /\ Len(ran) \in Nat
      /\ DOMAIN Append(ran, new) = 1 .. Len(ran) + 1 /\ DOMAIN ran = 1 .. Len(ran)
      /\ Append(ran, new)[Len(ran) + 1] = new
      /\ \A i \in 1 .. Len(ran) : Append(ran, new)[i] = ran[i]
  BY <1>2, <1>7
<1>9. /\ check' \in [left : Seq(ToSet(Plan)), ran : Seq(Report)]
      /\ check'.left = Tail(left) /\ check'.ran = Append(ran, new)
  BY <1>1, <1>6, <1>8
<1>10. /\ Len(ran) + Len(left) = Len(Plan)
       /\ \A i \in DOMAIN ran : ran[i].script = Plan[i]
       /\ \A i \in DOMAIN left : left[i] = Plan[Len(ran) + i]
  BY <1>2 DEF AlongPlan, left, ran
<1>11. AlongPlan'
  <2>1. Len(Append(ran, new)) + Len(Tail(left)) = Len(Plan)
    BY <1>6, <1>8, <1>10
  <2>2. ASSUME NEW i \in DOMAIN Append(ran, new) PROVE Append(ran, new)[i].script = Plan[i]
    <3>1. CASE i \in 1 .. Len(ran)
      BY <1>8, <1>10, <3>1
    <3>2. CASE i = Len(ran) + 1
      <4>1. Head(left) = Plan[Len(ran) + 1]
        BY <1>6, <1>10
      <4> QED BY <1>7, <1>8, <3>2, <4>1
    <3> QED BY <1>8, <3>1, <3>2
  <2>3. ASSUME NEW i \in DOMAIN Tail(left) PROVE Tail(left)[i] = Plan[Len(ran) + 1 + i]
    <3>1. i \in Int /\ Len(ran) + (i + 1) = Len(ran) + 1 + i
      BY <1>6, <1>8
    <3> QED BY <1>6, <1>10, <3>1
  <2> QED BY <1>5, <1>8, <1>9, <2>1, <2>2, <2>3 DEF AlongPlan
<1>12. CheckOK'
  BY <1>1, <1>2, <1>5, <1>9, <1>11 DEF CheckOK
<1>13. SheetOK' /\ GradesTypeOK' /\ DrawsOK'
  <2>1. SheetOK'
    BY <1>1, SheetKept DEF BaseInv
  <2>2. GradesTypeOK'
    BY <1>1, TypesKept DEF BaseInv, GradesTypeOK
  <2>3. DrawsOK'
    BY <1>1, <1>5 DEF BaseInv, DrawsOK
  <2> QED BY <2>1, <2>2, <2>3
<1> QED BY <1>12, <1>13 DEF BaseInv

LEMMA BaseScriptBreaks ==
    ASSUME BaseInv, ScriptBreaks
    PROVE  BaseInv'
<1>1. /\ Now > 0 /\ cfg' = cfg /\ check' = check /\ Settle(Current, "VALIDATION_FAILED", attempts, scores)
      /\ sheet' = sheet /\ attempts' = attempts /\ scores' = scores
  BY DEF ScriptBreaks, IsAt
<1>2. Current \in Row /\ Now \in Nat
  BY <1>1, RowsAre DEF BaseInv, GradesTypeOK
<1>3. SheetOK'
  BY <1>1, SheetKept DEF BaseInv
<1>4. "VALIDATION_FAILED" \in Statuses \ {"PENDING", "VALIDATING"}
  BY StatusNames
<1>5. /\ subs' \in Seq(Row) /\ DrawsOK' /\ Now' = Now
      /\ Current'.status = "VALIDATION_FAILED" /\ Current'.tests = Current.tests
  BY <1>1, <1>2, <1>4, SettleBase
<1>6. CheckOK'
  BY <1>1, <1>4, <1>5, CheckSettled
<1> QED BY <1>1, <1>3, <1>5, <1>6, TypesKept DEF BaseInv

LEMMA BaseDecideChecks ==
    ASSUME BaseInv, DecideChecks
    PROVE  BaseInv'
<1> DEFINE e == Earned(check.ran)
           m == MaxPoints(check.ran)
           row == [Current EXCEPT !.tests = Pct(e, m)]
           st == IF ~ChecksPassed(cfg.check, check.ran) THEN "TEST_FAILED"
                 ELSE IF WithAi THEN "AWAITING_AI_REVIEW" ELSE AfterReview
<1>1. /\ Now > 0 /\ Current.status = "VALIDATING" /\ check.left = <<>> /\ cfg' = cfg /\ check' = check
      /\ Settle(row, st, attempts, scores)
      /\ sheet' = sheet /\ attempts' = attempts /\ scores' = scores
  BY DEF DecideChecks, IsAt
<1>2. Current \in Row /\ Now \in Nat
  BY <1>1, RowsAre DEF BaseInv, GradesTypeOK
<1>3. e \in Int /\ m \in Int
  <2>1. check.ran \in Seq([script : ToSet(Plan), earned : Int, max : Int])
    BY DEF BaseInv, CheckOK, Report
  <2> QED BY <2>1, SumsAreInt
<1>4. st \in Statuses \ {"PENDING", "VALIDATING"}
  BY StatusNames DEF AfterReview
<1> HIDE DEF e, m, st
<1>5. Pct(e, m) \in Fraction /\ (IsSome(Pct(e, m)) => Pct(e, m).n = e /\ Pct(e, m).d = m)
  BY <1>3 DEF Pct, Fraction, None, Share, IsSome
<1>6. row \in Row /\ row.draw = Current.draw /\ row.by = Current.by /\ row.tests = Pct(e, m)
  BY <1>2, <1>5 DEF Row
<1> HIDE DEF row
<1>7. /\ subs' \in Seq(Row) /\ DrawsOK' /\ Now' = Now
      /\ Current'.status = st /\ Current'.tests = Pct(e, m)
  BY <1>1, <1>2, <1>4, <1>6, SettleBase
<1>8. Plan' = Plan /\ Report' = Report
  BY <1>1 DEF Plan, Report
<1>9. AlongPlan' = AlongPlan
  BY <1>1, <1>8 DEF AlongPlan
<1>10. AlongPlan
  BY <1>1 DEF BaseInv, CheckOK, IsAt
<1>11. CheckOK'
  BY <1>1, <1>4, <1>5, <1>7, <1>8, <1>9, <1>10 DEF BaseInv, CheckOK, IsAt, NoCheck, e, m
<1>12. SheetOK'
  BY <1>1, SheetKept DEF BaseInv
<1> QED BY <1>1, <1>7, <1>11, <1>12, TypesKept DEF BaseInv

LEMMA BaseAiReview ==
    ASSUME BaseInv, NEW mark \in AiMarks, AiReview(mark)
    PROVE  BaseInv'
<1> DEFINE row == [Current EXCEPT !.mark = mark]
<1>1. /\ Now > 0 /\ cfg' = cfg /\ check' = check
      /\ Settle(row, AfterReview, attempts, scores)
      /\ sheet' = sheet /\ attempts' = attempts /\ scores' = scores
  BY DEF AiReview, IsAt
<1>2. Current \in Row /\ Now \in Nat
  BY <1>1, RowsAre DEF BaseInv, GradesTypeOK
<1>3. row \in Row /\ row.draw = Current.draw /\ row.tests = Current.tests
  BY <1>2, GradesAssumption DEF Row
<1>4. AfterReview \in Statuses \ {"PENDING", "VALIDATING"}
  BY StatusNames DEF AfterReview
<1> HIDE DEF row
<1>5. /\ subs' \in Seq(Row) /\ DrawsOK' /\ Now' = Now
      /\ Current'.status = AfterReview /\ Current'.tests = row.tests
  BY <1>1, <1>2, <1>3, <1>4, SettleBase
<1>6. CheckOK'
  BY <1>1, <1>3, <1>4, <1>5, CheckSettled
<1>7. SheetOK'
  BY <1>1, SheetKept DEF BaseInv
<1> QED BY <1>1, <1>5, <1>6, <1>7, TypesKept DEF BaseInv

-----------------------------------------------------------------------------
(* The quiz.                                                               *)

\* Whatever is drawn, dealt or drawn again is a draw of the config.
LEMMA IdsDrawn ==
    ASSUME BaseInv, Now > 0, NEW s \in People, NEW draw \in Draws, NEW ids \in IdsFor(s, draw)
    PROVE  Drawn(cfg.quiz, draw) /\ Drawn(cfg.quiz, ids)
<1>1. IsDrawable(cfg.quiz) /\ cfg.squad \in BOOLEAN
  BY ConfigIs DEF BaseInv, GradesTypeOK
<1>2. Now \in 1 .. Now
  BY RowsAre DEF BaseInv, GradesTypeOK
<1>3. Drawn(cfg.quiz, Current.draw)
  BY <1>2 DEF BaseInv, DrawsOK, Current
<1>4. Drawn(cfg.quiz, draw)
  BY <1>1, <1>3, SelectDrawn DEF Draws
<1> DEFINE mine == Slice(cfg.quiz, draw, Len(Students), Place(s))
<1>5. Drawn(cfg.quiz, mine)
  BY <1>1, <1>4, PeopleAre, SliceDrawn
<1> HIDE DEF mine
<1>6. Len(mine) \in Nat
  BY <1>5 DEF Drawn
<1>7. ToSet(mine) \in SUBSET {i \in DOMAIN cfg.quiz.questions : cfg.quiz.questions[i].type \in Supported}
  BY <1>5 DEF Drawn, ToSet
<1>8. \/ ids \in SelectQuestionIds(cfg.quiz)
      \/ ids \in SelectQuestionIds(RetryConfig(cfg.quiz, mine))
      \/ ids \in Orders(ToSet(mine))
      \/ ids = mine
  BY DEF IdsFor, mine
<1>9. Drawn(cfg.quiz, ids)
  <2>1. CASE ids \in SelectQuestionIds(cfg.quiz)
    BY <1>1, <2>1, SelectDrawn
  <2>2. CASE ids \in SelectQuestionIds(RetryConfig(cfg.quiz, mine))
    BY <1>1, <1>6, <2>2, RetryDrawn
  <2>3. CASE ids \in Orders(ToSet(mine))
    BY <1>1, <1>7, <2>3, OrdersDrawn
  <2> QED BY <1>5, <1>8, <2>1, <2>2, <2>3
<1> QED BY <1>4, <1>9

LEMMA DrawWritten ==
    ASSUME subs \in Seq(Row), Now > 0, NEW draw \in Seq(Nat), subs' = [subs EXCEPT ![Now].draw = draw]
    PROVE  /\ subs' \in Seq(Row) /\ Now' = Now /\ Now \in Nat
           /\ \A i \in 1 .. Now : /\ subs'[i].by = subs[i].by /\ subs'[i].status = subs[i].status
                                  /\ subs'[i].tests = subs[i].tests /\ subs'[i].mark = subs[i].mark
                                  /\ subs'[i].draw = IF i = Now THEN draw ELSE subs[i].draw
<1> DEFINE new == [Current EXCEPT !.draw = draw]
<1>1. Now \in Nat /\ Now \in 1 .. Now /\ DOMAIN subs = 1 .. Now /\ Current \in Row /\ Current = subs[Now]
  BY RowsAre DEF Current
<1>2. /\ new \in Row /\ new.draw = draw /\ new.by = Current.by /\ new.status = Current.status
      /\ new.tests = Current.tests /\ new.mark = Current.mark
  BY <1>1 DEF Row
<1>3. subs' = [subs EXCEPT ![Now] = new]
  BY <1>1 DEF Current
<1> HIDE DEF new
<1>4. subs' \in Seq(Row) /\ Now' = Now /\ subs'[Now] = new /\ \A i \in 1 .. Now : i # Now => subs'[i] = subs[i]
  BY <1>1, <1>2, <1>3 DEF Now
<1> QED BY <1>1, <1>2, <1>4

LEMMA BaseOpenAttempt ==
    ASSUME BaseInv, NEW s \in People, OpenAttempt(s)
    PROVE  BaseInv'
<1>1. /\ Now > 0 /\ Current.status = "QUIZ_SENT" /\ cfg' = cfg /\ check' = check
      /\ attempts' = attempts /\ scores' = scores
  BY DEF OpenAttempt, IsAt
<1>2. PICK draw \in Draws : \E ids \in IdsFor(s, draw) :
         \E arrs \in [DOMAIN ids -> UNION {Arrangements(cfg.quiz, Question(i)) : i \in ToSet(ids)}] :
             /\ \A k \in DOMAIN ids : arrs[k] \in Arrangements(cfg.quiz, Question(ids[k]))
             /\ sheet' = [NoSheet EXCEPT !.student = s, !.ids = ids, !.arrs = arrs]
             /\ subs' = [subs EXCEPT ![Now].draw = draw]
  BY DEF OpenAttempt
<1>3. PICK ids \in IdsFor(s, draw) :
         \E arrs \in [DOMAIN ids -> UNION {Arrangements(cfg.quiz, Question(i)) : i \in ToSet(ids)}] :
             /\ \A k \in DOMAIN ids : arrs[k] \in Arrangements(cfg.quiz, Question(ids[k]))
             /\ sheet' = [NoSheet EXCEPT !.student = s, !.ids = ids, !.arrs = arrs]
             /\ subs' = [subs EXCEPT ![Now].draw = draw]
  BY <1>2
<1>4. PICK arrs :
             /\ \A k \in DOMAIN ids : arrs[k] \in Arrangements(cfg.quiz, Question(ids[k]))
             /\ sheet' = [NoSheet EXCEPT !.student = s, !.ids = ids, !.arrs = arrs]
             /\ subs' = [subs EXCEPT ![Now].draw = draw]
  BY <1>3
<1>5. Drawn(cfg.quiz, draw) /\ Drawn(cfg.quiz, ids)
  BY <1>1, IdsDrawn
<1>6. draw \in Seq(Nat) /\ Len(ids) \in Nat
  <2>1. {i \in DOMAIN cfg.quiz.questions : cfg.quiz.questions[i].type \in Supported} \subseteq Nat
    BY ConfigIs DEF BaseInv, GradesTypeOK, IsDrawable
  <2> QED BY <1>5, <2>1 DEF Drawn
<1>7. subs \in Seq(Row)
  BY DEF BaseInv, GradesTypeOK
<1>8. /\ subs' \in Seq(Row) /\ Now' = Now /\ Now \in Nat
      /\ \A i \in 1 .. Now : /\ subs'[i].by = subs[i].by /\ subs'[i].status = subs[i].status
                             /\ subs'[i].tests = subs[i].tests /\ subs'[i].mark = subs[i].mark
                             /\ subs'[i].draw = IF i = Now THEN draw ELSE subs[i].draw
  BY <1>1, <1>4, <1>6, <1>7, DrawWritten
<1>9. DrawsOK'
  BY <1>1, <1>5, <1>8 DEF BaseInv, DrawsOK
<1>10. CheckOK'
  <2>1. Current'.status = "QUIZ_SENT" /\ Current'.tests = Current.tests
    BY <1>1, <1>7, <1>8, RowsAre DEF Current
  <2>2. "QUIZ_SENT" \in Statuses \ {"PENDING", "VALIDATING"}
    BY StatusNames
  <2> QED BY <1>1, <1>8, <2>1, <2>2, CheckSettled
<1>11. SheetOK'
  <2>1. sheet' = [student |-> s, ids |-> ids, arrs |-> arrs, meant |-> <<>>, points |-> <<>>]
    BY <1>4 DEF NoSheet
  <2>2. \A k \in DOMAIN ids : Question(ids[k]) = cfg.quiz.questions[ids[k]]
    BY DEF Question
  <2>3. Len(<<>>) = 0 /\ <<>> \in Seq(Int) /\ IsSequence(<<>>) /\ DOMAIN <<>> = {}
    BY DEF IsSequence
  <2> DEFINE sh == [student |-> s, ids |-> ids, arrs |-> arrs, meant |-> <<>>, points |-> <<>>]
  <2>4. GoodSheet(cfg.quiz, sh)
    BY <1>4, <1>5, <1>6, <2>2, <2>3 DEF GoodSheet
  <2> QED BY <1>1, <2>1, <2>4 DEF SheetOK
<1> QED BY <1>1, <1>8, <1>9, <1>10, <1>11, TypesKept DEF BaseInv

LEMMA GoodAnswer ==
    ASSUME NEW z, \A i \in DOMAIN z.questions : IsQuestion(z.questions[i]),
           NEW sh, GoodSheet(z, sh), NEW k, k = Len(sh.points) + 1, k <= Len(sh.ids),
           NEW meaning \in Meanings(z.questions[sh.ids[k]])
    PROVE  LET q == z.questions[sh.ids[k]]
           IN  GoodSheet(z, [sh EXCEPT
                  !.meant  = Append(@, meaning),
                  !.points = Append(@, GradeAnswer(q, SnapshotKey(q, sh.arrs[k]),
                                           Posted(q, sh.arrs[k], meaning)))])
<1> DEFINE q == z.questions[sh.ids[k]]
           won == GradeAnswer(q, SnapshotKey(q, sh.arrs[k]), Posted(q, sh.arrs[k], meaning))
           meant == Append(sh.meant, meaning)
           points == Append(sh.points, won)
           new == [sh EXCEPT !.meant = meant, !.points = points]
           Ok == {i \in DOMAIN z.questions : z.questions[i].type \in Supported}
<1>1. /\ DOMAIN sh = {"student", "ids", "arrs", "meant", "points"}
      /\ Drawn(z, sh.ids)
      /\ \A j \in DOMAIN sh.ids : sh.arrs[j] \in Arrangements(z, z.questions[sh.ids[j]])
      /\ sh.points \in Seq(Int) /\ IsSequence(sh.meant)
      /\ Len(sh.meant) = Len(sh.points)
      /\ \A j \in DOMAIN sh.points : sh.points[j] = Worth(z.questions[sh.ids[j]], sh.meant[j])
      /\ sh # NoSheet => sh.student \in People
  BY DEF GoodSheet
<1>2. sh.ids \in Seq(Ok) /\ Len(sh.ids) \in Nat /\ DOMAIN sh.ids = 1 .. Len(sh.ids) /\ Len(sh.points) \in Nat
  BY <1>1 DEF Drawn
<1>3. k \in DOMAIN sh.ids /\ k \in Nat
  BY <1>2
<1>4. sh.ids[k] \in Ok
  BY <1>2, <1>3
<1>5. q.type \in Supported /\ IsQuestion(q) /\ sh.arrs[k] \in Arrangements(z, q)
  BY <1>1, <1>3, <1>4
<1>6. won = Worth(q, meaning)
  BY <1>5, AnswerWorth
<1>7. won \in Int
  <2>1. q.points \in Int
    BY <1>5 DEF IsQuestion
  <2> HIDE DEF q
  <2> QED BY <1>6, <2>1 DEF Worth
<1> HIDE DEF won, q
<1>8. /\ points \in Seq(Int) /\ Len(points) = k /\ points[k] = won /\ DOMAIN points = 1 .. k
      /\ \A j \in 1 .. Len(sh.points) : points[j] = sh.points[j]
  BY <1>1, <1>2, <1>7
<1>9. /\ IsSequence(meant) /\ Len(meant) = k /\ meant[k] = meaning
      /\ \A j \in 1 .. Len(sh.points) : meant[j] = sh.meant[j]
  <2> DEFINE old == sh.meant
             n == Len(sh.meant)
             S == {old[j] : j \in 1 .. n} \cup {meaning}
  <2>1. n \in Nat /\ old = [j \in 1 .. n |-> old[j]] /\ k = n + 1 /\ n = Len(sh.points)
    BY <1>1 DEF IsSequence
  <2>2. old \in Seq(S)
    <3>1. old \in [1 .. n -> S]
      BY <2>1
    <3> QED BY <2>1, <3>1
  <2> HIDE DEF S, old
  <2>3. meaning \in S
    BY DEF S
  <2>4. meant = Append(old, meaning) /\ Len(old) = n
    BY DEF old
  <2>5. /\ Append(old, meaning) \in Seq(S) /\ Len(Append(old, meaning)) = n + 1
        /\ Append(old, meaning)[n + 1] = meaning
        /\ \A j \in 1 .. n : Append(old, meaning)[j] = old[j]
    BY <2>1, <2>2, <2>3, <2>4
  <2> HIDE DEF n, meant
  <2>6. IsSequence(meant)
    BY <2>1, <2>4, <2>5 DEF IsSequence
  <2> QED BY <2>1, <2>4, <2>5, <2>6 DEF old
<1>10. \A j \in 1 .. k : points[j] = Worth(z.questions[sh.ids[j]], meant[j])
  <2> HIDE DEF points, meant
  <2>1. \A j \in 1 .. k : j = k \/ j \in 1 .. Len(sh.points)
    BY <1>2, <1>3
  <2>2. \A j \in 1 .. Len(sh.points) : j \in DOMAIN sh.points
    BY <1>1
  <2> QED BY <1>1, <1>6, <1>8, <1>9, <2>1, <2>2 DEF q
<1>11. /\ DOMAIN new = DOMAIN sh /\ new.student = sh.student /\ new.ids = sh.ids /\ new.arrs = sh.arrs
       /\ new.meant = meant /\ new.points = points
  <2> HIDE DEF points, meant
  <2> QED BY <1>1
<1>12. new # NoSheet /\ sh # NoSheet
  <2>1. points # <<>>
    BY <1>1, <1>2
  <2>2. sh.ids # <<>>
    BY <1>2, <1>3
  <2> HIDE DEF points
  <2> HIDE DEF points, new
  <2> QED BY <1>11, <2>1, <2>2 DEF NoSheet
<1> HIDE DEF points, meant, new
<1>13. GoodSheet(z, new)
  BY <1>1, <1>2, <1>8, <1>9, <1>10, <1>11, <1>12 DEF GoodSheet
<1> QED BY <1>13 DEF new, points, meant, won, q

LEMMA BaseAnswer ==
    ASSUME BaseInv, AnswerQuestion
    PROVE  BaseInv'
<1> DEFINE k == Len(sheet.points) + 1
           q == cfg.quiz.questions[sheet.ids[k]]
<1>1. /\ k <= Len(sheet.ids) /\ cfg' = cfg /\ subs' = subs /\ check' = check
      /\ attempts' = attempts /\ scores' = scores
  BY DEF AnswerQuestion
<1>2. PICK meaning \in Meanings(q) :
          sheet' = [sheet EXCEPT
              !.meant  = Append(@, meaning),
              !.points = Append(@, GradeAnswer(q, SnapshotKey(q, sheet.arrs[k]),
                                       Posted(q, sheet.arrs[k], meaning)))]
  BY DEF AnswerQuestion, Question
<1>3. \A i \in DOMAIN cfg.quiz.questions : IsQuestion(cfg.quiz.questions[i])
  BY ConfigIs DEF BaseInv, GradesTypeOK
<1>4. GoodSheet(cfg.quiz, sheet)
  BY DEF BaseInv, SheetOK
<1>5. GoodSheet(cfg.quiz, sheet')
  <2> HIDE DEF k
  <2>1. k = Len(sheet.points) + 1
    BY DEF k
  <2> QED BY <1>1, <1>2, <1>3, <1>4, <2>1, GoodAnswer
<1>6. SheetOK'
  BY <1>1, <1>5 DEF SheetOK
<1>7. GradesTypeOK'
  BY <1>1, TypesKept DEF BaseInv, GradesTypeOK
<1>8. DrawsOK'
  BY <1>1 DEF BaseInv, DrawsOK, Now
<1>9. CheckOK'
  BY <1>1 DEF BaseInv, CheckOK, Now, Current, IsAt, Plan, Report, AlongPlan, NoCheck
<1> QED BY <1>6, <1>7, <1>8, <1>9 DEF BaseInv

\* What FinishAttempt records.
FScore == Total(sheet.points)
FMax == Total([k \in DOMAIN sheet.ids |-> Question(sheet.ids[k]).points])
FPassed(c) == IsPassed(cfg.quiz, FScore, FMax, c.forced)
FNew(c) == [sub |-> Now, student |-> sheet.student, passed |-> FPassed(c),
            pct |-> Pct(FScore, FMax), conduct |-> c]
FOver == \A p \in Covered(Current.by) : HasPassed(attempts', Now, p)

\* Where it leaves the submission.
FStatus(st, c) ==
    \/ st = "QUIZ_SENT" /\ FPassed(c) /\ ~FOver
    \/ st = "AWAITING_TEACHER_REVIEW" /\ FPassed(c) /\ FOver /\ Scored
    \/ st = "COMPLETED" /\ FPassed(c) /\ FOver /\ (Scored => IsComplete(cfg.g, scores[Current.by]))
    \/ st \in {"FAILED", "QUIZ_SENT"} /\ ~FPassed(c)

LEMMA PassedIs ==
    ASSUME NEW att, NEW i, NEW p
    PROVE  (\E a \in PassedOf(att, i) : a.student = p) <=> HasPassed(att, i, p)
BY DEF PassedOf, HasPassed, ToSet

LEMMA SheetScores ==
    ASSUME BaseInv
    PROVE  FScore \in Int /\ FMax \in Int
<1>1. sheet.points \in Seq(Int) /\ Drawn(cfg.quiz, sheet.ids)
  BY DEF BaseInv, SheetOK, GoodSheet
<1>2. \A i \in DOMAIN cfg.quiz.questions : cfg.quiz.questions[i].points \in Int
  BY ConfigIs DEF BaseInv, GradesTypeOK, IsQuestion
<1>3. Len(sheet.ids) \in Nat /\ DOMAIN sheet.ids = 1 .. Len(sheet.ids)
      /\ \A k \in DOMAIN sheet.ids : sheet.ids[k] \in DOMAIN cfg.quiz.questions
  BY <1>1 DEF Drawn
<1>4. [k \in DOMAIN sheet.ids |-> Question(sheet.ids[k]).points] \in [1 .. Len(sheet.ids) -> Int]
  BY <1>2, <1>3 DEF Question
<1>5. [k \in DOMAIN sheet.ids |-> Question(sheet.ids[k]).points] \in Seq(Int)
  BY <1>3, <1>4
<1> QED BY <1>1, <1>5, TotalIsInt DEF FScore, FMax

LEMMA FinishIs ==
    ASSUME BaseInv, Now > 0, NEW c \in Conducts, FinishAttempt(c)
    PROVE  /\ sheet # NoSheet /\ sheet' = NoSheet /\ cfg' = cfg /\ check' = check /\ scores' = scores
           /\ attempts' = Append(attempts, FNew(c)) /\ FNew(c) \in Attempt
           /\ FPassed(c) => IsSome(Pct(FScore, FMax))
           /\ \E st \in Statuses \ {"PENDING", "VALIDATING"} :
                 FStatus(st, c) /\ Settle(Current, st, attempts', scores)
<1>1. sheet # NoSheet /\ sheet' = NoSheet /\ cfg' = cfg /\ check' = check /\ scores' = scores
  BY DEF FinishAttempt
<1>2. attempts' = Append(attempts, FNew(c))
  BY DEF FinishAttempt, FNew, FPassed, FScore, FMax
<1>3. FScore \in Int /\ FMax \in Int
  BY SheetScores
<1>4. Pct(FScore, FMax) \in Fraction /\ (FPassed(c) => IsSome(Pct(FScore, FMax)))
  BY <1>3 DEF Pct, Fraction, None, Share, IsSome, FPassed, IsPassed
<1>5. FPassed(c) \in BOOLEAN
  BY Zenon DEF FPassed, IsPassed
<1>6. Now \in Nat /\ sheet.student \in People
  BY <1>1, RowsAre DEF BaseInv, GradesTypeOK, SheetOK, GoodSheet
<1>7. FNew(c) \in Attempt
  BY <1>4, <1>5, <1>6 DEF FNew, Attempt
<1> DEFINE over == \A p \in Covered(Current.by) : \E a \in PassedOf(attempts', Now) : a.student = p
           passed == FPassed(c)
           st == CASE passed /\ ~over -> "QUIZ_SENT"
                   [] passed /\ over  ->
                         IF Scored /\ ~IsComplete(cfg.g, scores[Current.by])
                         THEN "AWAITING_TEACHER_REVIEW" ELSE "COMPLETED"
                   [] ~passed -> IF Used(sheet.student) + 1 >= cfg.cap THEN "FAILED"
                                 ELSE "QUIZ_SENT"
<1>8. Settle(Current, st, attempts', scores)
  BY <1>2 DEF FinishAttempt, FNew, FPassed, FScore, FMax
<1>9. over <=> FOver
  BY PassedIs DEF FOver
<1> HIDE DEF over
<1>10. FStatus(st, c)
  BY <1>9 DEF FStatus
<1>11. st \in Statuses \ {"PENDING", "VALIDATING"}
  BY <1>10, StatusNames DEF FStatus
<1> QED BY <1>1, <1>2, <1>4, <1>7, <1>8, <1>10, <1>11

LEMMA NoSheetIsGood ==
    ASSUME NEW z
    PROVE  GoodSheet(z, NoSheet)
<1>1. /\ Len(<<>>) = 0 /\ <<>> \in Seq(Int) /\ IsSequence(<<>>) /\ DOMAIN <<>> = {}
  BY DEF IsSequence
<1>2. Drawn(z, <<>>)
  BY DEF Drawn, IsInjective
<1> QED BY <1>1, <1>2 DEF GoodSheet, NoSheet

LEMMA SheetIsOpen ==
    ASSUME NEW c, FinishAttempt(c), Sitting
    PROVE  Now > 0
BY DEF FinishAttempt, Sitting, IsAt

LEMMA BaseFinish ==
    ASSUME BaseInv, NEW c \in Conducts, Now > 0, FinishAttempt(c)
    PROVE  BaseInv'
<1>1. PICK st \in Statuses \ {"PENDING", "VALIDATING"} : Settle(Current, st, attempts', scores)
  BY FinishIs
<1>2. /\ sheet' = NoSheet /\ cfg' = cfg /\ check' = check /\ scores' = scores
      /\ attempts' = Append(attempts, FNew(c)) /\ FNew(c) \in Attempt
  BY FinishIs
<1>3. Current \in Row /\ Now \in Nat
  BY RowsAre DEF BaseInv, GradesTypeOK
<1>4. /\ subs' \in Seq(Row) /\ DrawsOK' /\ Now' = Now
      /\ Current'.status = st /\ Current'.tests = Current.tests
  BY <1>1, <1>2, <1>3, SettleBase
<1>5. CheckOK'
  BY <1>1, <1>2, <1>4, CheckSettled
<1>6. SheetOK'
  BY <1>2, NoSheetIsGood DEF SheetOK
<1>7. GradesTypeOK'
  <2>1. attempts' \in Seq(Attempt)
    BY <1>2 DEF BaseInv, GradesTypeOK
  <2> QED BY <1>2, <1>4, <2>1 DEF BaseInv, GradesTypeOK, Scored, Forms
<1> QED BY <1>4, <1>5, <1>6, <1>7 DEF BaseInv

-----------------------------------------------------------------------------
(* The teacher's points.                                                   *)

LEMMA MaxIs ==
    ASSUME NEW n \in Nat, NEW S \in SUBSET (1 .. n), S # {}
    PROVE  Max(S) \in S /\ \A y \in S : Max(S) >= y
<1> DEFINE T == {n - x : x \in S}
<1>1. T \in SUBSET Nat /\ T # {}
  OBVIOUS
<1>2. PICK t \in T : \A u \in T : t <= u
  BY <1>1, LeastNat
<1>3. PICK x \in S : t = n - x
  OBVIOUS
<1>4. \A y \in S : x >= y
  <2> TAKE y \in S
  <2>1. n - y \in T
    OBVIOUS
  <2>2. n - x <= n - y
    BY <1>2, <1>3, <2>1
  <2>3. x \in Int /\ y \in Int
    OBVIOUS
  <2> QED BY <2>2, <2>3
<1> QED BY <1>4 DEF Max

\* The latest submission of the student or their squad.
Latest(s) == SelectLastInSeq(subs, LAMBDA r : r.by \in Covered(s))

LEMMA LatestIs ==
    ASSUME subs \in Seq(Row), NEW s
    PROVE  /\ Latest(s) \in 0 .. Now
           /\ Latest(s) > 0 => subs[Latest(s)].by \in Covered(s)
           /\ \A j \in 1 .. Now : j > Latest(s) => subs[j].by \notin Covered(s)
<1> DEFINE I == {i \in 1 .. Now : subs[i].by \in Covered(s)}
<1>1. Latest(s) = IF I # {} THEN Max(I) ELSE 0
  BY DEF Latest, SelectLastInSeq, Now
<1>2. Now \in Nat
  BY DEF Now
<1>3. CASE I = {}
  BY <1>1, <1>2, <1>3
<1>4. CASE I # {}
  <2>1. Latest(s) \in I /\ \A y \in I : Latest(s) >= y
    BY <1>1, <1>2, <1>4, MaxIs
  <2>2. Latest(s) \in 1 .. Now /\ subs[Latest(s)].by \in Covered(s)
    BY <2>1
  <2> QED BY <1>2, <2>1, <2>2
<1> QED BY <1>3, <1>4

LEMMA SavedIs ==
    ASSUME NEW s \in People, NEW form \in Forms, SaveScores(s, form)
    PROVE  LET i == Latest(s)
           IN  /\ Scored /\ cfg' = cfg /\ check' = check /\ sheet' = sheet /\ attempts' = attempts
               /\ scores' = [p \in People |-> IF p \in Covered(s) THEN form ELSE scores[p]]
               /\ \/ /\ i > 0 /\ subs[i].status \in {"AWAITING_TEACHER_REVIEW", "COMPLETED"}
                     /\ IsComplete(cfg.g, form)
                     /\ SettleAt(i, subs[i], "COMPLETED", attempts, scores')
                  \/ /\ i > 0 => subs[i].status # "COMPLETED"
                     /\ subs' = subs /\ grade' = grade
BY DEF SaveScores, AfterScores, Latest

LEMMA BaseSave ==
    ASSUME BaseInv, NEW s \in People, NEW form \in Forms, SaveScores(s, form)
    PROVE  BaseInv'
<1> DEFINE i == Latest(s)
<1>1. /\ cfg' = cfg /\ check' = check /\ sheet' = sheet /\ attempts' = attempts
      /\ scores' = [p \in People |-> IF p \in Covered(s) THEN form ELSE scores[p]]
  BY SavedIs
<1>2. subs \in Seq(Row)
  BY DEF BaseInv, GradesTypeOK
<1>3. Now \in Nat /\ i \in 0 .. Now
  BY <1>2, RowsAre, LatestIs
<1>4. scores' \in [People -> Forms] /\ Forms' = Forms
  BY <1>1 DEF BaseInv, GradesTypeOK, Forms
<1>5. SheetOK'
  BY <1>1, SheetKept DEF BaseInv
<1>6. CASE subs' = subs
  <2>1. GradesTypeOK'
    BY <1>1, <1>4, <1>6 DEF BaseInv, GradesTypeOK, Scored
  <2>2. DrawsOK'
    BY <1>1, <1>6 DEF BaseInv, DrawsOK, Now
  <2>3. CheckOK'
    BY <1>1, <1>6 DEF BaseInv, CheckOK, Now, Current, IsAt, Plan, Report, AlongPlan, NoCheck
  <2> QED BY <1>5, <2>1, <2>2, <2>3 DEF BaseInv
<1>7. CASE /\ i > 0 /\ subs[i].status \in {"AWAITING_TEACHER_REVIEW", "COMPLETED"}
           /\ SettleAt(i, subs[i], "COMPLETED", attempts, scores')
  <2> HIDE DEF i
  <2>1. i \in 1 .. Now
    BY <1>3, <1>7
  <2>2. subs[i] \in Row /\ "COMPLETED" \in Statuses
    BY <1>2, <2>1, RowsAre, StatusNames
  <2>3. /\ subs' \in Seq(Row) /\ Now' = Now
        /\ subs'[i].status = "COMPLETED" /\ subs'[i].tests = subs[i].tests /\ subs'[i].draw = subs[i].draw
        /\ \A j \in 1 .. Now : j # i => subs'[j] = subs[j]
    BY <1>2, <1>7, <2>1, <2>2, SettleIs
  <2>4. GradesTypeOK'
    BY <1>1, <1>4, <2>3 DEF BaseInv, GradesTypeOK, Scored
  <2>5. DrawsOK'
    BY <1>1, <2>3 DEF BaseInv, DrawsOK
  <2>6. Now > 0 /\ Now \in 1 .. Now
    BY <1>3, <2>1
  <2>7. Current'.tests = Current.tests
    BY <2>3, <2>6 DEF Current
  <2>8. Plan' = Plan /\ Report' = Report
    BY <1>1 DEF Plan, Report
  <2>9. AlongPlan' = AlongPlan
    BY <1>1, <2>8 DEF AlongPlan
  <2>10. /\ Current'.status \in {"PENDING", "VALIDATING"} => Current.status = Current'.status
    BY <2>3, <2>6 DEF Current
  <2>11. CheckOK'
    BY <1>1, <2>3, <2>6, <2>7, <2>8, <2>9, <2>10 DEF BaseInv, CheckOK, IsAt, NoCheck
  <2> QED BY <1>5, <2>4, <2>5, <2>11 DEF BaseInv
<1> QED BY <1>6, <1>7, SavedIs

LEMMA BaseInit ==
    ASSUME Init
    PROVE  BaseInv
<1>1. cfg \in Configs /\ (Scored => ValidAssignment(cfg.g))
  BY DEF Init, Scored
<1>2. subs = <<>> /\ check = NoCheck /\ sheet = NoSheet /\ attempts = <<>>
      /\ scores = [s \in People |-> [i \in DOMAIN cfg.g.criteria |-> Blank]]
  BY DEF Init
<1>3. [i \in DOMAIN cfg.g.criteria |-> Blank] \in Forms
  BY GradesAssumption DEF Forms, Blank
<1>4. Now = 0
  BY <1>2 DEF Now
<1>5. GradesTypeOK
  BY <1>1, <1>2, <1>3 DEF GradesTypeOK
<1>6. CheckOK
  BY <1>2, <1>4 DEF CheckOK, NoCheck, IsAt
<1>7. SheetOK
  BY <1>2, NoSheetIsGood DEF SheetOK
<1>8. DrawsOK
  BY <1>4 DEF DrawsOK
<1> QED BY <1>5, <1>6, <1>7, <1>8 DEF BaseInv

-----------------------------------------------------------------------------
(* The order of submissions and attempts.                                  *)

FlowInv == EarlyEnded /\ LastCompleted /\ Sitting /\ AttemptsOK /\ QuizOpen /\ ScoredFlow

LEMMA FlowInit ==
    ASSUME Init
    PROVE  FlowInv
<1>1. Now = 0 /\ sheet = NoSheet /\ attempts = <<>>
  BY DEF Init, Now
<1>2. DOMAIN attempts = {} /\ 1 .. Now = {}
  BY <1>1
<1> QED BY <1>1, <1>2 DEF FlowInv, EarlyEnded, LastCompleted, Sitting, AttemptsOK, QuizOpen, ScoredFlow, IsAt

LEMMA CoveredIs ==
    ASSUME NEW s \in People
    PROVE  /\ s \in Covered(s) /\ Covered(s) \subseteq People
           /\ \A p \in People : p \in Covered(s) <=> s \in Covered(p)
           /\ \A p \in Covered(s) : Covered(p) = Covered(s)
BY DEF Covered

Checking == {"PENDING", "VALIDATING", "AWAITING_AI_REVIEW"}

\* While a work is checked there is no sheet, no attempt and no teacher's mark.
LEMMA WhileChecking ==
    ASSUME BaseInv, FlowInv, Now > 0, Current.status \in Checking
    PROVE  /\ ~Scored /\ sheet = NoSheet /\ \A k \in DOMAIN attempts : attempts[k].sub # Now
<1>1. Now \in 1 .. Now
  BY RowsAre DEF BaseInv, GradesTypeOK
<1>2. ~Scored
  BY <1>1 DEF FlowInv, ScoredFlow, Checking, Current
<1>3. sheet = NoSheet
  BY DEF FlowInv, Sitting, IsAt, Checking
<1> QED BY <1>2, <1>3 DEF FlowInv, AttemptsOK, Checking

LEMMA FlowSettle ==
    ASSUME BaseInv, FlowInv, Now > 0, Current.status \in Checking,
           NEW row \in Row, row.by = Current.by, NEW st \in Statuses,
           NEW att, NEW scr, Settle(row, st, att, scr), cfg' = cfg, sheet' = sheet, attempts' = attempts
    PROVE  FlowInv'
<1>1. subs \in Seq(Row) /\ Now \in 1 .. Now /\ Now \in Nat
  BY RowsAre DEF BaseInv, GradesTypeOK
<1>2. ~Scored /\ sheet = NoSheet /\ \A k \in DOMAIN attempts : attempts[k].sub # Now
  BY WhileChecking
<1>3. /\ Now' = Now /\ subs'[Now].status = st /\ subs'[Now].by = subs[Now].by
      /\ \A j \in 1 .. Now : j # Now => subs'[j] = subs[j]
  BY <1>1, SettleIs DEF Settle, Current
<1>4. \A s : Covered(s)' = Covered(s')
  BY DEF Covered
<1>5. EarlyEnded'
  BY <1>3 DEF FlowInv, EarlyEnded
<1>6. LastCompleted'
  <2> SUFFICES ASSUME NEW i \in 1 .. Now, NEW j \in 1 .. Now, i < j, subs'[i].status = "COMPLETED"
               PROVE  subs'[j].by \notin Covered(subs'[i].by)
    BY <1>3 DEF LastCompleted, Covered
  <2>1. i # Now
    BY <1>1
  <2>2. subs'[i] = subs[i] /\ subs'[j].by = subs[j].by
    BY <1>3, <2>1
  <2> QED BY <2>2 DEF FlowInv, LastCompleted
<1>7. Sitting'
  BY <1>2 DEF Sitting, NoSheet
<1>8. AttemptsOK'
  BY <1>2, <1>3 DEF FlowInv, AttemptsOK
<1>9. QuizOpen'
  <2>1. subs[Now].by \in People
    BY <1>1, RowsAre
  <2>2. subs[Now].by \in Covered(subs[Now].by) /\ ~HasPassed(attempts, Now, subs[Now].by)
    BY <1>2, <2>1, CoveredIs DEF HasPassed
  <2>3. Current'.by = subs[Now].by /\ Covered(Current.by)' = Covered(subs[Now].by)
    BY <1>3 DEF Current, Covered
  <2> QED BY <1>3, <2>2, <2>3 DEF QuizOpen, HasPassed
<1>10. ScoredFlow'
  BY <1>2 DEF ScoredFlow, Scored
<1> QED BY <1>5, <1>6, <1>7, <1>8, <1>9, <1>10 DEF FlowInv

LEMMA FlowUpload ==
    ASSUME BaseInv, FlowInv, NEW s \in People, Upload(s)
    PROVE  FlowInv'
<1> DEFINE st == IF Scored THEN "QUIZ_SENT" ELSE "PENDING"
           new == [by |-> s, tests |-> None, mark |-> None, draw |-> <<>>, status |-> st]
<1>1. /\ subs' = Append(subs, new) /\ cfg' = cfg /\ sheet' = sheet /\ attempts' = attempts
      /\ Now > 0 => Current.status \in Ended
      /\ \A i \in 1 .. Now : subs[i].by \in Covered(s) => subs[i].status # "COMPLETED"
  BY DEF Upload
<1>2. new.by = s /\ new.status = st /\ st # "COMPLETED"
  OBVIOUS
<1> HIDE DEF new
<1>3. subs \in Seq(Row) /\ Now \in Nat /\ Now' = Now + 1 /\ subs'[Now + 1] = new
      /\ \A i \in 1 .. Now : subs'[i] = subs[i]
  BY <1>1 DEF BaseInv, GradesTypeOK, Now
<1>4. \A i \in 1 .. Now + 1 : i # Now + 1 => i \in 1 .. Now
  BY <1>3
<1>5. EarlyEnded'
  <2>1. \A i \in 1 .. Now : subs[i].status \in Ended
    BY <1>1, <1>3 DEF FlowInv, EarlyEnded, Current
  <2> QED BY <1>3, <1>4, <2>1 DEF EarlyEnded
<1>6. LastCompleted'
  <2> SUFFICES ASSUME NEW i \in 1 .. Now + 1, NEW j \in 1 .. Now + 1, i < j, subs'[i].status = "COMPLETED"
               PROVE  subs'[j].by \notin Covered(subs'[i].by)
    BY <1>1, <1>3 DEF LastCompleted, Covered
  <2>1. i \in 1 .. Now
    BY <1>3
  <2>2. subs'[i] = subs[i]
    BY <1>3, <2>1
  <2>3. CASE j = Now + 1
    <3>1. subs[i].by \in People
      BY <1>3, <2>1, RowsAre
    <3>2. subs[i].by \notin Covered(s)
      BY <1>1, <2>1, <2>2
    <3>3. s \notin Covered(subs[i].by)
      BY <3>1, <3>2, CoveredIs
    <3> QED BY <1>2, <1>3, <2>2, <2>3, <3>3
  <2>4. CASE j \in 1 .. Now
    BY <1>3, <2>1, <2>2, <2>4 DEF FlowInv, LastCompleted
  <2> QED BY <1>4, <2>3, <2>4
<1>7. sheet = NoSheet
  BY <1>1 DEF FlowInv, Sitting, IsAt, Ended, Terminal
<1>8. Sitting'
  BY <1>1, <1>7 DEF Sitting, NoSheet
<1>9. \A k \in DOMAIN attempts : attempts[k].sub \in 1 .. Now /\ attempts[k].sub # Now + 1 /\ attempts[k].sub \in 1 .. Now + 1
  BY <1>3 DEF FlowInv, AttemptsOK
<1>10. AttemptsOK'
  BY <1>1, <1>3, <1>9 DEF FlowInv, AttemptsOK
<1>11. QuizOpen'
  <2>1. s \in Covered(s) /\ ~HasPassed(attempts, Now + 1, s)
    BY <1>9, CoveredIs DEF HasPassed
  <2>2. Current'.by = s /\ Covered(Current.by)' = Covered(s)
    BY <1>1, <1>2, <1>3 DEF Current, Covered
  <2> QED BY <1>1, <1>3, <2>1, <2>2 DEF QuizOpen, HasPassed
<1>12. ScoredFlow'
  <2> SUFFICES ASSUME Scored, NEW i \in 1 .. Now + 1
               PROVE  /\ subs'[i].status \in {"QUIZ_SENT", "AWAITING_TEACHER_REVIEW", "COMPLETED", "FAILED"}
                      /\ subs'[i].status \in {"AWAITING_TEACHER_REVIEW", "COMPLETED"}
                            => \E p \in People : HasPassed(attempts, i, p)
    BY <1>1, <1>3 DEF ScoredFlow, Scored
  <2>1. CASE i = Now + 1
    BY <1>2, <1>3, <2>1
  <2>2. CASE i \in 1 .. Now
    BY <1>3, <2>2 DEF FlowInv, ScoredFlow
  <2> QED BY <1>4, <2>1, <2>2
<1> QED BY <1>5, <1>6, <1>8, <1>10, <1>11, <1>12 DEF FlowInv

\* A step that leaves authors, statuses and attempts as they are.
LEMMA FlowQuiet ==
    ASSUME BaseInv, FlowInv, cfg' = cfg, attempts' = attempts, Now' = Now,
           \A i \in 1 .. Now : subs'[i].by = subs[i].by /\ subs'[i].status = subs[i].status,
           Sitting'
    PROVE  FlowInv'
<1>1. Now > 0 => Current'.by = Current.by /\ Current'.status = Current.status
  BY RowsAre DEF BaseInv, GradesTypeOK, Current
<1>2. EarlyEnded'
  BY DEF FlowInv, EarlyEnded
<1>3. LastCompleted'
  BY DEF FlowInv, LastCompleted, Covered
<1>4. AttemptsOK'
  BY <1>1 DEF FlowInv, AttemptsOK
<1>5. QuizOpen'
  BY <1>1 DEF FlowInv, QuizOpen, IsAt, Covered
<1>6. ScoredFlow'
  BY DEF FlowInv, ScoredFlow, Scored
<1> QED BY <1>2, <1>3, <1>4, <1>5, <1>6 DEF FlowInv

LEMMA FlowOpen ==
    ASSUME BaseInv, FlowInv, NEW s \in People, OpenAttempt(s)
    PROVE  FlowInv'
<1>1. /\ Now > 0 /\ Current.status = "QUIZ_SENT" /\ cfg' = cfg /\ attempts' = attempts
      /\ s \in Covered(Current.by) /\ ~HasPassed(attempts, Now, s)
  BY PassedIs DEF OpenAttempt, IsAt
<1>2. PICK draw \in Draws :
          \E ids \in IdsFor(s, draw) : \E arrs :
             /\ sheet' = [NoSheet EXCEPT !.student = s, !.ids = ids, !.arrs = arrs]
             /\ subs' = [subs EXCEPT ![Now].draw = draw]
  BY DEF OpenAttempt
<1>3. Drawn(cfg.quiz, draw)
  BY <1>1, <1>2, IdsDrawn
<1>4. draw \in Seq(Nat)
  <2>1. {i \in DOMAIN cfg.quiz.questions : cfg.quiz.questions[i].type \in Supported} \subseteq Nat
    BY ConfigIs DEF BaseInv, GradesTypeOK, IsDrawable
  <2> QED BY <1>3, <2>1 DEF Drawn
<1>5. subs \in Seq(Row)
  BY DEF BaseInv, GradesTypeOK
<1>6. /\ Now' = Now
      /\ \A i \in 1 .. Now : subs'[i].by = subs[i].by /\ subs'[i].status = subs[i].status
  BY <1>1, <1>2, <1>4, <1>5, DrawWritten
<1>7. sheet'.student = s
  BY <1>2 DEF NoSheet
<1>8. Sitting'
  <2>1. Current'.by = Current.by /\ Current'.status = Current.status
    BY <1>1, <1>5, <1>6, RowsAre DEF Current
  <2> QED BY <1>1, <1>6, <1>7, <2>1 DEF Sitting, IsAt, Covered
<1> QED BY <1>1, <1>6, <1>8, FlowQuiet

LEMMA FlowAnswer ==
    ASSUME BaseInv, FlowInv, AnswerQuestion
    PROVE  FlowInv'
<1>1. cfg' = cfg /\ subs' = subs /\ attempts' = attempts /\ Now' = Now /\ Current' = Current /\ sheet # NoSheet
  BY DEF AnswerQuestion, Now, Current
<1>2. sheet'.student = sheet.student
  <2>1. DOMAIN sheet = {"student", "ids", "arrs", "meant", "points"}
    BY DEF BaseInv, SheetOK, GoodSheet
  <2> QED BY <2>1 DEF AnswerQuestion
<1>3. Sitting'
  BY <1>1, <1>2 DEF FlowInv, Sitting, IsAt, Covered
<1> QED BY <1>1, <1>3, FlowQuiet

LEMMA FlowRun ==
    ASSUME BaseInv, FlowInv, NEW r, RunScript(r)
    PROVE  FlowInv'
<1>1. cfg' = cfg /\ subs' = subs /\ attempts' = attempts /\ sheet' = sheet /\ Now' = Now /\ Current' = Current
  BY DEF RunScript, Now, Current
<1>2. Sitting'
  BY <1>1 DEF FlowInv, Sitting, IsAt, Covered, NoSheet
<1> QED BY <1>1, <1>2, FlowQuiet

\* One attempt more.
LEMMA Appended ==
    ASSUME attempts \in Seq(Attempt), NEW a \in Attempt, attempts' = Append(attempts, a)
    PROVE  /\ Len(attempts) \in Nat /\ DOMAIN attempts = 1 .. Len(attempts)
           /\ DOMAIN attempts' = 1 .. Len(attempts) + 1
           /\ attempts'[Len(attempts) + 1] = a
           /\ \A k \in 1 .. Len(attempts) : attempts'[k] = attempts[k]
           /\ \A i, p : HasPassed(attempts', i, p)
                           <=> HasPassed(attempts, i, p) \/ (a.sub = i /\ a.passed /\ a.student = p)
<1>1. /\ Len(attempts) \in Nat /\ DOMAIN attempts = 1 .. Len(attempts)
      /\ DOMAIN attempts' = 1 .. Len(attempts) + 1
      /\ attempts'[Len(attempts) + 1] = a
      /\ \A k \in 1 .. Len(attempts) : attempts'[k] = attempts[k]
  OBVIOUS
<1>2. \A k \in DOMAIN attempts' : k \in DOMAIN attempts \/ k = Len(attempts) + 1
  BY <1>1
<1>3. Len(attempts) + 1 \in DOMAIN attempts' /\ \A k \in DOMAIN attempts : k \in DOMAIN attempts'
  BY <1>1
<1>4. ASSUME NEW i, NEW p
      PROVE  HasPassed(attempts', i, p)
                <=> HasPassed(attempts, i, p) \/ (a.sub = i /\ a.passed /\ a.student = p)
  BY <1>1, <1>2, <1>3, Zenon DEF HasPassed
<1> QED BY <1>1, <1>4

LEMMA FlowFinish ==
    ASSUME BaseInv, FlowInv, NEW c \in Conducts, FinishAttempt(c)
    PROVE  FlowInv'
<1>1. Now > 0 /\ Current.status = "QUIZ_SENT" /\ sheet.student \in Covered(Current.by)
      /\ ~HasPassed(attempts, Now, sheet.student) /\ sheet.student \in People
  <2>1. sheet # NoSheet
    BY DEF FinishAttempt
  <2> QED BY <2>1 DEF FlowInv, Sitting, IsAt, BaseInv, SheetOK, GoodSheet
<1>2. PICK st \in Statuses \ {"PENDING", "VALIDATING"} : FStatus(st, c) /\ Settle(Current, st, attempts', scores)
  BY <1>1, FinishIs
<1>3. /\ sheet' = NoSheet /\ cfg' = cfg /\ FNew(c) \in Attempt
      /\ attempts' = Append(attempts, FNew(c)) /\ (FPassed(c) => IsSome(Pct(FScore, FMax)))
  BY <1>1, FinishIs
<1>4. subs \in Seq(Row) /\ attempts \in Seq(Attempt)
  BY DEF BaseInv, GradesTypeOK
<1>5. Now \in Nat /\ Now \in 1 .. Now /\ Current \in Row /\ Current.by \in People
  BY <1>1, <1>4, RowsAre DEF Current
<1>6. /\ Now' = Now /\ subs'[Now].status = st /\ subs'[Now].by = subs[Now].by
      /\ \A j \in 1 .. Now : j # Now => subs'[j] = subs[j]
  BY <1>2, <1>4, <1>5, SettleIs DEF Settle, Current
<1> DEFINE a == FNew(c)
<1>7. /\ a.sub = Now /\ a.student = sheet.student /\ a.passed = FPassed(c) /\ a.pct = Pct(FScore, FMax)
  BY DEF FNew
<1> HIDE DEF a
<1>8. /\ Len(attempts) \in Nat /\ DOMAIN attempts = 1 .. Len(attempts)
      /\ DOMAIN attempts' = 1 .. Len(attempts) + 1
      /\ attempts'[Len(attempts) + 1] = a
      /\ \A k \in 1 .. Len(attempts) : attempts'[k] = attempts[k]
      /\ \A i, p : HasPassed(attempts', i, p)
                      <=> HasPassed(attempts, i, p) \/ (a.sub = i /\ a.passed /\ a.student = p)
  BY <1>3, <1>4, Appended DEF a
<1>9. EarlyEnded'
  BY <1>6 DEF FlowInv, EarlyEnded
<1>10. LastCompleted'
  <2> SUFFICES ASSUME NEW i \in 1 .. Now, NEW j \in 1 .. Now, i < j, subs'[i].status = "COMPLETED"
               PROVE  subs'[j].by \notin Covered(subs'[i].by)
    BY <1>3, <1>6 DEF LastCompleted, Covered
  <2>1. i # Now
    BY <1>5
  <2>2. subs'[i] = subs[i] /\ subs'[j].by = subs[j].by
    BY <1>6, <2>1
  <2> QED BY <2>2 DEF FlowInv, LastCompleted
<1>11. Sitting'
  BY <1>3 DEF Sitting, NoSheet
<1>12. AttemptsOK'
  <2>1. \A k \in DOMAIN attempts' : k \in DOMAIN attempts \/ k = Len(attempts) + 1
    BY <1>8
  <2>2. \A k \in DOMAIN attempts' : /\ attempts'[k].sub \in 1 .. Now
                                    /\ attempts'[k].passed => IsSome(attempts'[k].pct)
    BY <1>3, <1>5, <1>7, <1>8, <2>1 DEF FlowInv, AttemptsOK
  <2>3. \A k \in DOMAIN attempts : ~(a.passed /\ attempts[k].passed /\ attempts[k].sub = a.sub /\ attempts[k].student = a.student)
    BY <1>1, <1>7 DEF HasPassed
  <2>4. \A k, l \in DOMAIN attempts' :
          /\ attempts'[k].passed /\ attempts'[l].passed
          /\ attempts'[k].sub = attempts'[l].sub /\ attempts'[k].student = attempts'[l].student
          => k = l
    <3> SUFFICES ASSUME NEW k \in DOMAIN attempts', NEW l \in DOMAIN attempts',
                        attempts'[k].passed, attempts'[l].passed,
                        attempts'[k].sub = attempts'[l].sub, attempts'[k].student = attempts'[l].student
                 PROVE  k = l
      OBVIOUS
    <3>1. CASE k \in DOMAIN attempts /\ l \in DOMAIN attempts
      BY <1>8, <3>1 DEF FlowInv, AttemptsOK
    <3>2. CASE k \in DOMAIN attempts /\ l = Len(attempts) + 1
      BY <1>8, <2>3, <3>2
    <3>3. CASE k = Len(attempts) + 1 /\ l \in DOMAIN attempts
      BY <1>8, <2>3, <3>3
    <3> QED BY <2>1, <3>1, <3>2, <3>3
  <2>5. Current'.status \notin {"PENDING", "VALIDATING", "AWAITING_AI_REVIEW"}
    BY <1>2, <1>6 DEF Current, FStatus
  <2> QED BY <1>6, <2>2, <2>4, <2>5 DEF AttemptsOK
<1>13. QuizOpen'
  <2>1. Current'.by = Current.by /\ Current'.status = st /\ Covered(Current.by)' = Covered(Current.by)
    BY <1>3, <1>6 DEF Current, Covered
  <2>2. SUFFICES ASSUME st = "QUIZ_SENT" PROVE \E p \in Covered(Current.by) : ~HasPassed(attempts', Now, p)
    BY <1>6, <2>1 DEF QuizOpen, IsAt
  <2>3. CASE FPassed(c)
    BY <1>2, <2>2, <2>3 DEF FStatus, FOver
  <2>4. CASE ~FPassed(c)
    <3>1. ~a.passed
      BY <1>7, <2>4
    <3>2. PICK p \in Covered(Current.by) : ~HasPassed(attempts, Now, p)
      BY <1>1 DEF FlowInv, QuizOpen, IsAt
    <3> QED BY <1>8, <3>1, <3>2
  <2> QED BY <2>3, <2>4
<1>14. ScoredFlow'
  <2> SUFFICES ASSUME Scored, NEW i \in 1 .. Now
               PROVE  /\ subs'[i].status \in {"QUIZ_SENT", "AWAITING_TEACHER_REVIEW", "COMPLETED", "FAILED"}
                      /\ subs'[i].status \in {"AWAITING_TEACHER_REVIEW", "COMPLETED"}
                            => \E p \in People : HasPassed(attempts', i, p)
    BY <1>3, <1>6 DEF ScoredFlow, Scored
  <2>1. CASE i = Now
    <3>1. st \in {"QUIZ_SENT", "AWAITING_TEACHER_REVIEW", "COMPLETED", "FAILED"}
      BY <1>2 DEF FStatus
    <3>2. st \in {"AWAITING_TEACHER_REVIEW", "COMPLETED"} => FPassed(c)
      BY <1>2 DEF FStatus
    <3>3. FPassed(c) => HasPassed(attempts', Now, sheet.student)
      BY <1>7, <1>8
    <3> QED BY <1>1, <1>6, <2>1, <3>1, <3>2, <3>3
  <2>2. CASE i # Now
    BY <1>6, <1>8, <2>2 DEF FlowInv, ScoredFlow
  <2> QED BY <2>1, <2>2
<1> QED BY <1>9, <1>10, <1>11, <1>12, <1>13, <1>14 DEF FlowInv

LEMMA FlowSave ==
    ASSUME BaseInv, FlowInv, NEW s \in People, NEW form \in Forms, SaveScores(s, form)
    PROVE  FlowInv'
<1> DEFINE i == Latest(s)
<1>1. Scored /\ cfg' = cfg /\ sheet' = sheet /\ attempts' = attempts
  BY SavedIs
<1>2. subs \in Seq(Row)
  BY DEF BaseInv, GradesTypeOK
<1>3. Now \in Nat /\ i \in 0 .. Now
  BY <1>2, RowsAre, LatestIs
<1>4. CASE subs' = subs
  <2>1. Now' = Now /\ Current' = Current
    BY <1>4 DEF Now, Current
  <2>2. Sitting'
    BY <1>1, <2>1 DEF FlowInv, Sitting, IsAt, Covered, NoSheet
  <2> QED BY <1>1, <1>4, <2>1, <2>2, FlowQuiet
<1>5. CASE /\ i > 0 /\ subs[i].status \in {"AWAITING_TEACHER_REVIEW", "COMPLETED"}
           /\ SettleAt(i, subs[i], "COMPLETED", attempts, scores')
  <2> HIDE DEF i
  <2>1. i \in 1 .. Now /\ Now > 0 /\ Now \in 1 .. Now
    BY <1>3, <1>5
  <2>2. subs[i] \in Row /\ "COMPLETED" \in Statuses
    BY <1>2, <2>1, RowsAre, StatusNames
  <2>3. /\ Now' = Now /\ subs'[i].status = "COMPLETED" /\ subs'[i].by = subs[i].by
        /\ \A j \in 1 .. Now : j # i => subs'[j] = subs[j]
    BY <1>2, <1>5, <2>1, <2>2, SettleIs
  <2>4. \A j \in 1 .. Now : subs'[j].by = subs[j].by
    BY <2>3
  <2>5. i # Now => subs[i].status = "COMPLETED"
    BY <1>5, <2>1 DEF FlowInv, EarlyEnded, Ended, Terminal
  <2>6. EarlyEnded'
    BY <2>3 DEF FlowInv, EarlyEnded, Ended, Terminal
  <2>7. LastCompleted'
    <3> SUFFICES ASSUME NEW a \in 1 .. Now, NEW b \in 1 .. Now, a < b, subs'[a].status = "COMPLETED"
                 PROVE  subs'[b].by \notin Covered(subs'[a].by)
      BY <1>1, <2>3 DEF LastCompleted, Covered
    <3>1. a # Now
      BY <1>3
    <3>2. subs[a].status = "COMPLETED"
      BY <2>3, <2>5, <3>1
    <3> QED BY <2>4, <3>2 DEF FlowInv, LastCompleted
  <2>8. Current'.status = "COMPLETED" \/ Current'.status = Current.status
    BY <2>1, <2>3 DEF Current
  <2>9. Current.status = "QUIZ_SENT" => Current' = Current
    BY <1>5, <2>1, <2>3 DEF Current
  <2>10. Sitting'
    BY <1>1, <2>3, <2>9 DEF FlowInv, Sitting, IsAt, Covered, NoSheet
  <2>11. AttemptsOK'
    BY <1>1, <2>3, <2>8 DEF FlowInv, AttemptsOK
  <2>12. QuizOpen'
    BY <1>1, <2>3, <2>8, <2>9 DEF FlowInv, QuizOpen, IsAt, Covered
  <2>13. ScoredFlow'
    <3> SUFFICES ASSUME NEW j \in 1 .. Now
                 PROVE  /\ subs'[j].status \in {"QUIZ_SENT", "AWAITING_TEACHER_REVIEW", "COMPLETED", "FAILED"}
                        /\ subs'[j].status \in {"AWAITING_TEACHER_REVIEW", "COMPLETED"}
                              => \E p \in People : HasPassed(attempts, j, p)
      BY <1>1, <2>3 DEF ScoredFlow, Scored
    <3>1. CASE j = i
      BY <1>1, <1>5, <2>1, <2>3, <3>1 DEF FlowInv, ScoredFlow
    <3>2. CASE j # i
      BY <1>1, <2>3, <3>2 DEF FlowInv, ScoredFlow
    <3> QED BY <3>1, <3>2
  <2> QED BY <2>6, <2>7, <2>10, <2>11, <2>12, <2>13 DEF FlowInv
<1> QED BY <1>4, <1>5, SavedIs

-----------------------------------------------------------------------------
(* The evidence.                                                           *)

\* A student passes the quiz of a submission once, with a score.
PassOnce(att) ==
    /\ \A k \in DOMAIN att : att[k].passed => IsSome(att[k].pct)
    /\ \A k, l \in DOMAIN att :
          att[k].passed /\ att[l].passed /\ att[k].sub = att[l].sub /\ att[k].student = att[l].student => k = l

LEMMA PassedAre ==
    ASSUME NEW att \in Seq(Attempt), PassOnce(att), NEW i
    PROVE  /\ \A a \in PassedOf(att, i) : a.pct \in Value /\ a.student \in People
           /\ \A a, b \in PassedOf(att, i) : a.student = b.student => a = b
<1>1. \A k \in DOMAIN att : att[k] \in Attempt
  BY Element, Zenon
<1>2. \A a \in PassedOf(att, i) : \E k \in DOMAIN att : a = att[k] /\ att[k].sub = i /\ att[k].passed
  BY DEF PassedOf, ToSet
<1>3. \A a \in Attempt : IsSome(a.pct) => a.pct \in Value
  BY DEF Attempt, IsSome, Fraction, Value
<1>4. \A a \in Attempt : a.student \in People
  BY DEF Attempt
<1>5. \A a \in PassedOf(att, i) : a.pct \in Value /\ a.student \in People
  BY <1>1, <1>2, <1>3, <1>4 DEF PassOnce
<1>6. ASSUME NEW a \in PassedOf(att, i), NEW b \in PassedOf(att, i), a.student = b.student PROVE a = b
  <2>1. PICK k \in DOMAIN att : a = att[k] /\ att[k].sub = i /\ att[k].passed
    BY <1>2
  <2>2. PICK l \in DOMAIN att : b = att[l] /\ att[l].sub = i /\ att[l].passed
    BY <1>2
  <2>3. k = l
    BY <1>6, <2>1, <2>2 DEF PassOnce
  <2> QED BY <2>1, <2>2, <2>3
<1> QED BY <1>5, <1>6

LEMMA SquadPctIs ==
    ASSUME NEW passed,
           \A a \in passed : a.pct \in Value /\ a.student \in People,
           \A a, b \in passed : a.student = b.student => a = b
    PROVE  SquadQuizPct(passed) \in Fraction /\ (passed # {} => IsSome(SquadQuizPct(passed)))
<1> DEFINE Of(s) == {a \in passed : a.student = s}
           Best(s) == CHOOSE a \in Of(s) : \A b \in Of(s) : AtLeast(a.pct, b.pct)
           sat == {s \in People : Of(s) # {}}
           fs == [i \in DOMAIN Students |-> IF Students[i] \in sat THEN Best(Students[i]).pct ELSE Share(0, 1)]
           sum == SumOf(fs)
<1>1. SquadQuizPct(passed) = IF sat = {} THEN None ELSE Share(sum.n, sum.d * Cardinality(sat))
  BY DEF SquadQuizPct
<1>2. \A s \in sat : Best(s).pct \in Value
  <2> TAKE s \in sat
  <2>1. PICK a \in passed : a.student = s
    OBVIOUS
  <2>2. \A b \in Of(s) : b = a
    BY <2>1
  <2>3. AtLeast(a.pct, a.pct)
    <3>1. a.pct.n \in Int /\ a.pct.d \in Int
      BY DEF Value
    <3> QED BY <3>1 DEF AtLeast
  <2>4. a \in Of(s)
    BY <2>1
  <2>5. Best(s) \in Of(s)
    <3> HIDE DEF Of
    <3> QED BY <2>2, <2>3, <2>4
  <2> QED BY <2>2, <2>5
<1>3. Share(0, 1) \in Value
  BY DEF Share, Value
<1>4. fs \in Seq(Value)
  <2> HIDE DEF sat, Best
  <2>1. fs \in [1 .. Len(Students) -> Value]
    BY <1>2, <1>3, PeopleAre
  <2>2. Len(Students) \in Nat
    BY PeopleAre
  <2> QED BY <2>1, <2>2
<1> HIDE DEF fs
<1>5. sum \in Value
  BY <1>4, SumOfIsValue
<1>6. IsFiniteSet(sat) /\ Cardinality(sat) \in Nat /\ (sat # {} => Cardinality(sat) # 0)
  <2>1. sat \in SUBSET People
    OBVIOUS
  <2> HIDE DEF sat
  <2>2. IsFiniteSet(sat)
    BY <2>1, PeopleAre, FS_Subset
  <2> QED BY <2>2, FS_CardinalityType, FS_EmptySet
<1>7. passed # {} => sat # {}
  OBVIOUS
<1> HIDE DEF sum, sat
<1>8. CASE sat = {}
  BY <1>1, <1>7, <1>8 DEF None, Fraction
<1>9. CASE sat # {}
  <2> DEFINE c == Cardinality(sat)
  <2>1. c \in Nat \ {0} /\ sum.n \in Int /\ sum.d \in Nat \ {0}
    BY <1>5, <1>6, <1>9 DEF Value
  <2> HIDE DEF c
  <2>2. sum.d * c \in Nat \ {0}
    BY <2>1, TimesPos
  <2>3. SquadQuizPct(passed) = Share(sum.n, sum.d * c)
    BY <1>1, <1>9 DEF c
  <2> QED BY <2>1, <2>2, <2>3 DEF Share, Fraction, IsSome
<1> QED BY <1>8, <1>9

LEMMA QuizPctIs ==
    ASSUME NEW att \in Seq(Attempt), PassOnce(att), NEW i
    PROVE  /\ QuizPct(i, att) \in Fraction
           /\ \A p : HasPassed(att, i, p) => IsSome(QuizPct(i, att))
<1> DEFINE passed == PassedOf(att, i)
<1>1. /\ \A a \in passed : a.pct \in Value /\ a.student \in People
      /\ \A a, b \in passed : a.student = b.student => a = b
  BY PassedAre
<1>2. \A p : HasPassed(att, i, p) => passed # {}
  BY PassedIs
<1>3. QuizPct(i, att) = IF cfg.squad THEN SquadQuizPct(passed)
                        ELSE IF passed = {} THEN None ELSE (CHOOSE a \in passed : TRUE).pct
  BY DEF QuizPct
<1> HIDE DEF passed
<1>4. CASE cfg.squad
  <2>1. SquadQuizPct(passed) \in Fraction /\ (passed # {} => IsSome(SquadQuizPct(passed)))
    BY <1>1, SquadPctIs
  <2> QED BY <1>2, <1>3, <1>4, <2>1
<1>5. CASE ~cfg.squad /\ passed = {}
  BY <1>2, <1>3, <1>5 DEF None, Fraction
<1>6. CASE ~cfg.squad /\ passed # {}
  <2>1. QuizPct(i, att) \in Value
    BY <1>1, <1>3, <1>6
  <2> QED BY <2>1 DEF Value, Fraction, IsSome
<1> QED BY <1>4, <1>5, <1>6

-----------------------------------------------------------------------------
(* Grades.                                                                 *)

Earns(i) == GradeOf(Evidence(i, subs[i], attempts, scores[subs[i].by]))

GradedInv ==
    /\ grade \in [People -> Int]
    /\ \A i \in 1 .. Now : subs[i].status = "COMPLETED" => \A s \in Covered(subs[i].by) : grade[s] = Earns(i)
    /\ GradeEarned

LEMMA PassOnceHere ==
    ASSUME FlowInv
    PROVE  PassOnce(attempts)
BY DEF FlowInv, AttemptsOK, PassOnce

\* Points are whole numbers, a blank being one less than none.
LEMMA FormsAre ==
    ASSUME NEW form \in Forms
    PROVE  form \in [DOMAIN cfg.g.criteria -> Int] /\ \A i \in DOMAIN cfg.g.criteria : form[i] >= Blank
BY GradesAssumption DEF Forms, Blank

LEMMA AtLeastSelf ==
    ASSUME NEW f \in Fraction
    PROVE  AtLeast(f, f)
<1>1. f.n \in Int /\ f.d \in Int
  BY DEF Fraction
<1> QED BY <1>1 DEF AtLeast

\* The grade of evidence that is whole.
LEMMA GradeIs ==
    ASSUME cfg \in Configs, NEW e, e.works \in Fraction, e.mark \in Fraction, e.quiz \in Fraction,
           e.points \in Forms, Scored => IsSome(e.quiz)
    PROVE  GradeOf(e) \in Int /\ GradeOf(e) >= cfg.g.min /\ cfg.g.min \in Nat
<1>1. cfg.g \in GradingBlock /\ cfg.g.min <= cfg.g.max /\ cfg.squad \in BOOLEAN
  BY ConfigIs
<1>2. AtLeast(e.works, e.works) /\ AtLeast(e.mark, e.mark) /\ AtLeast(e.quiz, e.quiz)
  BY AtLeastSelf
<1>3. cfg.g.min \in Nat
  BY <1>1 DEF GradingBlock
<1>4. CASE Scored
  <2>1. e.quiz \in Value
    BY <1>4 DEF IsSome, Fraction, Value
  <2>2. e.points \in [DOMAIN cfg.g.criteria -> Int] /\ \A i \in DOMAIN cfg.g.criteria : e.points[i] >= e.points[i] /\ e.points[i] >= Blank
    BY FormsAre
  <2>3. /\ ComputeScored(cfg.g, e.quiz, e.points, cfg.squad) \in Int
        /\ ComputeScored(cfg.g, e.quiz, e.points, cfg.squad) >= cfg.g.min
    BY <1>1, <1>2, <2>1, <2>2, ScoredGrows
  <2> QED BY <1>3, <1>4, <2>3 DEF GradeOf
<1>5. CASE ~Scored
  <2>1. /\ ComputeGrade(cfg.g, e.works, e.mark, e.quiz, cfg.squad) \in Int
        /\ ComputeGrade(cfg.g, e.works, e.mark, e.quiz, cfg.squad) >= cfg.g.min
    BY <1>1, <1>2, ComputeGrows
  <2> QED BY <1>3, <1>5, <2>1 DEF GradeOf
<1> QED BY <1>4, <1>5

LEMMA EarnsSame ==
    ASSUME cfg' = cfg, NEW i, subs'[i].tests = subs[i].tests, subs'[i].mark = subs[i].mark,
           subs'[i].by = subs[i].by, PassedOf(attempts', i) = PassedOf(attempts, i),
           scores'[subs[i].by] = scores[subs[i].by]
    PROVE  Earns(i)' = Earns(i)
BY DEF Earns, GradeOf, Evidence, QuizPct, Scored

\* Settling submission i, for whatever reason.
LEMMA GradedSettle ==
    ASSUME BaseInv, FlowInv, GradedInv, cfg' = cfg, PassOnce(attempts'), attempts' \in Seq(Attempt),
           scores' \in [People -> Forms],
           NEW i \in 1 .. Now, NEW row \in Row, row.by = subs[i].by, NEW st \in Statuses,
           SettleAt(i, row, st, attempts', scores'),
           subs[i].status = "COMPLETED" => st = "COMPLETED",
           st = "COMPLETED" /\ Scored => /\ \E p : HasPassed(attempts', i, p)
                                         /\ IsComplete(cfg.g, scores'[row.by]),
           \A j \in 1 .. Now : j # i /\ subs[j].status = "COMPLETED" =>
               /\ Earns(j)' = Earns(j)
               /\ st = "COMPLETED" => Covered(subs[j].by) \cap Covered(subs[i].by) = {}
    PROVE  GradedInv'
<1>1. subs \in Seq(Row) /\ cfg \in Configs
  BY DEF BaseInv, GradesTypeOK
<1>2. /\ subs' \in Seq(Row) /\ Now' = Now /\ subs'[i].status = st /\ subs'[i].by = row.by
      /\ subs'[i].tests = row.tests /\ subs'[i].mark = row.mark
      /\ \A j \in 1 .. Now : j # i => subs'[j] = subs[j]
  BY <1>1, SettleIs
<1> DEFINE e == Evidence(i, row, attempts', scores'[row.by])
           there == st = "COMPLETED" /\ (Scored => IsSome(e.quiz) /\ IsComplete(cfg.g, e.points))
<1>3. grade' = [s \in People |-> IF there /\ s \in Covered(row.by) THEN GradeOf(e) ELSE grade[s]]
  BY DEF SettleAt
<1>4. /\ e.works = row.tests /\ e.mark = row.mark /\ e.quiz = QuizPct(i, attempts') /\ e.points = scores'[row.by]
  BY DEF Evidence
<1>5. row.by \in People /\ row.tests \in Fraction /\ row.mark \in Fraction
  BY DEF Row
<1>6. QuizPct(i, attempts') \in Fraction /\ \A p : HasPassed(attempts', i, p) => IsSome(QuizPct(i, attempts'))
  BY QuizPctIs
<1>7. scores'[row.by] \in Forms
  BY <1>5
<1>8. Earns(i)' = GradeOf(e)
  BY <1>2 DEF Earns, GradeOf, Evidence, QuizPct, Scored
<1> HIDE DEF e
<1>9. there <=> st = "COMPLETED"
  BY <1>4, <1>6
<1>10. there => GradeOf(e) \in Int
  BY <1>1, <1>4, <1>5, <1>6, <1>7, GradeIs
<1> HIDE DEF there
<1>11. grade' \in [People -> Int]
  BY <1>3, <1>10 DEF GradedInv
<1>12. ASSUME NEW j \in 1 .. Now, subs'[j].status = "COMPLETED", NEW s \in Covered(subs'[j].by)
       PROVE  grade'[s] = Earns(j)'
  <2>1. subs'[j].by \in People
    BY <1>2, RowsAre, <1>1, <1>5
  <2>2. s \in People
    BY <1>12, <2>1, CoveredIs
  <2>3. CASE j = i
    BY <1>2, <1>3, <1>8, <1>9, <1>12, <2>2, <2>3
  <2>4. CASE j # i
    <3>1. subs'[j] = subs[j] /\ subs[j].status = "COMPLETED" /\ Earns(j)' = Earns(j)
      BY <1>2, <1>12, <2>4
    <3>2. grade[s] = Earns(j)
      BY <1>12, <3>1 DEF GradedInv
    <3>3. ~(there /\ s \in Covered(row.by))
      BY <1>9, <1>12, <2>4, <3>1
    <3> QED BY <1>3, <2>2, <3>1, <3>2, <3>3
  <2> QED BY <2>3, <2>4
<1>13. ASSUME NEW s \in People, grade'[s] # Blank
       PROVE  \E j \in 1 .. Now : subs'[j].status = "COMPLETED" /\ s \in Covered(subs'[j].by)
  <2>1. CASE there /\ s \in Covered(row.by)
    BY <1>2, <1>9, <2>1
  <2>2. CASE ~(there /\ s \in Covered(row.by))
    <3>1. grade[s] # Blank
      BY <1>3, <1>13, <2>2
    <3>2. PICK j \in 1 .. Now : subs[j].status = "COMPLETED" /\ s \in Covered(subs[j].by)
      BY <3>1 DEF GradedInv, GradeEarned
    <3>3. subs'[j].status = "COMPLETED" /\ subs'[j].by = subs[j].by
      BY <1>2, <3>2
    <3> QED BY <3>2, <3>3
  <2> QED BY <2>1, <2>2
<1>14. \A s : Covered(s) = IF cfg'.squad THEN People ELSE {s}
  BY DEF Covered
<1>15. GradeEarned'
  BY <1>2, <1>13, <1>14 DEF GradeEarned, Covered
<1>16. \A j \in 1 .. Now' : subs'[j].status = "COMPLETED" => \A s \in Covered(subs[j].by)' : grade'[s] = Earns(j)'
  BY <1>2, <1>12, <1>14 DEF Covered
<1> QED BY <1>11, <1>15, <1>16 DEF GradedInv

LEMMA GradedInit ==
    ASSUME Init
    PROVE  GradedInv
<1>1. Now = 0 /\ grade = [s \in People |-> Blank]
  BY DEF Init, Now
<1> QED BY <1>1 DEF GradedInv, GradeEarned, Blank

\* A step that leaves the evidence and the grades alone.
LEMMA GradedQuiet ==
    ASSUME BaseInv, GradedInv, cfg' = cfg, attempts' = attempts, grade' = grade, Now' = Now,
           \A i \in 1 .. Now : /\ subs'[i].by = subs[i].by /\ subs'[i].status = subs[i].status
                               /\ subs'[i].tests = subs[i].tests /\ subs'[i].mark = subs[i].mark
                               /\ subs[i].status = "COMPLETED" => scores'[subs[i].by] = scores[subs[i].by]
    PROVE  GradedInv'
<1>1. \A i \in 1 .. Now : subs[i].status = "COMPLETED" => Earns(i)' = Earns(i)
  BY EarnsSame
<1>2. \A i \in 1 .. Now : subs'[i].status = "COMPLETED" => \A s \in Covered(subs[i].by)' : grade'[s] = Earns(i)'
  BY <1>1 DEF GradedInv, Covered
<1>3. GradeEarned'
  BY DEF GradedInv, GradeEarned, Covered
<1> QED BY <1>2, <1>3 DEF GradedInv

\* A completed work and a later one are of different students.
LEMMA Apart ==
    ASSUME BaseInv, FlowInv, NEW i \in 1 .. Now, NEW j \in 1 .. Now, i < j, subs[i].status = "COMPLETED"
    PROVE  Covered(subs[i].by) \cap Covered(subs[j].by) = {}
<1>1. subs[i].by \in People /\ subs[j].by \in People
  BY RowsAre DEF BaseInv, GradesTypeOK
<1>2. subs[j].by \notin Covered(subs[i].by)
  BY DEF FlowInv, LastCompleted
<1> QED BY <1>1, <1>2, CoveredIs DEF Covered

LEMMA GradedUpload ==
    ASSUME BaseInv, GradedInv, NEW s \in People, Upload(s)
    PROVE  GradedInv'
<1> DEFINE new == [by |-> s, tests |-> None, mark |-> None, draw |-> <<>>,
                   status |-> IF Scored THEN "QUIZ_SENT" ELSE "PENDING"]
<1>1. /\ subs' = Append(subs, new) /\ cfg' = cfg /\ attempts' = attempts /\ scores' = scores /\ grade' = grade
  BY DEF Upload
<1>2. new.status # "COMPLETED"
  OBVIOUS
<1> HIDE DEF new
<1>3. subs \in Seq(Row) /\ Now \in Nat /\ Now' = Now + 1 /\ subs'[Now + 1] = new
      /\ \A i \in 1 .. Now : subs'[i] = subs[i]
  BY <1>1 DEF BaseInv, GradesTypeOK, Now
<1>4. \A i \in 1 .. Now + 1 : subs'[i].status = "COMPLETED" => i \in 1 .. Now
  <2>1. \A i \in 1 .. Now + 1 : i = Now + 1 \/ i \in 1 .. Now
    BY <1>3
  <2> QED BY <1>2, <1>3, <2>1
<1>5. \A i \in 1 .. Now : Earns(i)' = Earns(i)
  BY <1>1, <1>3, EarnsSame
<1>6. \A i \in 1 .. Now' : subs'[i].status = "COMPLETED" => \A p \in Covered(subs[i].by)' : grade'[p] = Earns(i)'
  <2> SUFFICES ASSUME NEW i \in 1 .. Now', subs'[i].status = "COMPLETED", NEW p \in Covered(subs[i].by)'
               PROVE  grade'[p] = Earns(i)'
    OBVIOUS
  <2>1. i \in 1 .. Now
    BY <1>3, <1>4
  <2>2. subs'[i] = subs[i]
    BY <1>3, <2>1
  <2>3. p \in Covered(subs[i].by)
    BY <1>1, <2>2 DEF Covered
  <2>4. grade[p] = Earns(i)
    BY <2>1, <2>2, <2>3 DEF GradedInv
  <2> QED BY <1>1, <1>5, <2>1, <2>4
<1>7. GradeEarned'
  <2> SUFFICES ASSUME NEW p \in People, grade[p] # Blank
               PROVE  \E i \in 1 .. Now + 1 : subs'[i].status = "COMPLETED" /\ p \in Covered(subs'[i].by)
    BY <1>1, <1>3 DEF GradeEarned, Covered
  <2>1. PICK i \in 1 .. Now : subs[i].status = "COMPLETED" /\ p \in Covered(subs[i].by)
    BY DEF GradedInv, GradeEarned
  <2>2. i \in 1 .. Now + 1 /\ subs'[i] = subs[i]
    BY <1>3
  <2> QED BY <2>1, <2>2
<1> QED BY <1>1, <1>6, <1>7 DEF GradedInv

\* The steps of the checks.
LEMMA GradedChecks ==
    ASSUME BaseInv, FlowInv, GradedInv, Now > 0, Current.status \in Checking,
           NEW row \in Row, row.by = Current.by, NEW st \in Statuses,
           Settle(row, st, attempts, scores), cfg' = cfg, attempts' = attempts, scores' = scores
    PROVE  GradedInv'
<1>1. /\ subs \in Seq(Row) /\ attempts' \in Seq(Attempt) /\ scores' \in [People -> Forms] /\ PassOnce(attempts')
  BY PassOnceHere DEF BaseInv, GradesTypeOK
<1>2. Now \in 1 .. Now /\ Now \in Nat /\ Current = subs[Now]
  BY <1>1, RowsAre DEF Current
<1>3. ~Scored
  BY WhileChecking
<1>4. subs[Now].status # "COMPLETED"
  BY <1>2 DEF Checking
<1>5. /\ \A j \in 1 .. Now : j # Now => subs'[j] = subs[j]
  BY <1>1, <1>2, SettleIs DEF Settle
<1>6. ASSUME NEW j \in 1 .. Now, j # Now, subs[j].status = "COMPLETED"
      PROVE  Earns(j)' = Earns(j) /\ Covered(subs[j].by) \cap Covered(subs[Now].by) = {}
  <2>1. Earns(j)' = Earns(j)
    BY <1>5, <1>6, EarnsSame
  <2>2. j < Now
    BY <1>2, <1>6
  <2> QED BY <1>2, <1>6, <2>1, <2>2, Apart
<1>7. SettleAt(Now, row, st, attempts', scores')
  BY DEF Settle
<1> QED BY <1>1, <1>2, <1>3, <1>4, <1>6, <1>7, GradedSettle

LEMMA GradedFinish ==
    ASSUME BaseInv, FlowInv, GradedInv, NEW c \in Conducts, FinishAttempt(c), BaseInv', FlowInv'
    PROVE  GradedInv'
<1>1. Now > 0 /\ Current.status = "QUIZ_SENT"
  BY DEF FinishAttempt, FlowInv, Sitting, IsAt
<1>2. PICK st \in Statuses \ {"PENDING", "VALIDATING"} : FStatus(st, c) /\ Settle(Current, st, attempts', scores)
  BY <1>1, FinishIs
<1>3. /\ cfg' = cfg /\ FNew(c) \in Attempt /\ scores' = scores /\ attempts' = Append(attempts, FNew(c))
  BY <1>1, FinishIs
<1>4. /\ subs \in Seq(Row) /\ attempts \in Seq(Attempt) /\ scores' \in [People -> Forms]
  BY <1>3 DEF BaseInv, GradesTypeOK
<1>5. attempts' \in Seq(Attempt)
  BY <1>3, <1>4
<1>6. PassOnce(attempts')
  BY DEF FlowInv, AttemptsOK, PassOnce
<1>7. Now \in 1 .. Now /\ Now \in Nat /\ Current = subs[Now] /\ Current \in Row
  BY <1>1, <1>4, RowsAre DEF Current
<1>8. FNew(c).sub = Now /\ FNew(c).passed = FPassed(c) /\ FNew(c).student = sheet.student
  BY DEF FNew
<1>9. /\ \A j \in 1 .. Now : j # Now => subs'[j] = subs[j]
  BY <1>2, <1>4, <1>7, SettleIs DEF Settle
<1>10. \A j \in 1 .. Now : j # Now => PassedOf(attempts', j) = PassedOf(attempts, j)
  <2> TAKE j \in 1 .. Now
  <2> HAVE j # Now
  <2> DEFINE a == FNew(c)
  <2>1. ToSet(attempts') = ToSet(attempts) \cup {a}
    <3> HIDE DEF a
    <3>1. /\ Len(attempts) \in Nat /\ DOMAIN attempts = 1 .. Len(attempts)
          /\ DOMAIN attempts' = 1 .. Len(attempts) + 1
          /\ attempts'[Len(attempts) + 1] = a
          /\ \A k \in 1 .. Len(attempts) : attempts'[k] = attempts[k]
      BY <1>3, <1>4, Appended DEF a
    <3>2. 1 .. Len(attempts) + 1 = (1 .. Len(attempts)) \cup {Len(attempts) + 1}
      BY <3>1
    <3> QED BY <3>1, <3>2 DEF ToSet
  <2>2. a.sub # j
    BY <1>8
  <2> HIDE DEF a
  <2> QED BY <2>1, <2>2 DEF PassedOf
<1>11. ASSUME NEW j \in 1 .. Now, j # Now, subs[j].status = "COMPLETED"
       PROVE  Earns(j)' = Earns(j) /\ Covered(subs[j].by) \cap Covered(subs[Now].by) = {}
  <2>1. Earns(j)' = Earns(j)
    BY <1>3, <1>9, <1>10, <1>11, EarnsSame
  <2>2. j < Now
    BY <1>7, <1>11
  <2> QED BY <1>7, <1>11, <2>1, <2>2, Apart
<1>12. st = "COMPLETED" /\ Scored => /\ \E p : HasPassed(attempts', Now, p)
                                     /\ IsComplete(cfg.g, scores'[Current.by])
  <2>1. SUFFICES ASSUME st = "COMPLETED", Scored
                 PROVE  (\E p : HasPassed(attempts', Now, p)) /\ IsComplete(cfg.g, scores'[Current.by])
    OBVIOUS
  <2>2. FPassed(c) /\ IsComplete(cfg.g, scores[Current.by])
    BY <1>2, <2>1 DEF FStatus
  <2>3. HasPassed(attempts', Now, sheet.student)
    BY <1>3, <1>4, <1>8, <2>2, Appended
  <2> QED BY <1>3, <2>2, <2>3
<1>13. subs[Now].status # "COMPLETED"
  BY <1>1, <1>7
<1>14. SettleAt(Now, Current, st, attempts', scores')
  BY <1>2, <1>3 DEF Settle
<1> QED BY <1>3, <1>4, <1>5, <1>6, <1>7, <1>11, <1>12, <1>13, <1>14, GradedSettle

LEMMA GradedSave ==
    ASSUME BaseInv, FlowInv, GradedInv, NEW s \in People, NEW form \in Forms, SaveScores(s, form), BaseInv'
    PROVE  GradedInv'
<1> DEFINE i == Latest(s)
<1>1. /\ Scored /\ cfg' = cfg /\ attempts' = attempts
      /\ scores' = [p \in People |-> IF p \in Covered(s) THEN form ELSE scores[p]]
  BY SavedIs
<1>2. subs \in Seq(Row) /\ attempts' \in Seq(Attempt) /\ scores' \in [People -> Forms] /\ PassOnce(attempts')
  <2>1. Forms' = Forms
    BY <1>1 DEF Forms
  <2> QED BY <1>1, <2>1, PassOnceHere DEF BaseInv, GradesTypeOK
<1>3. /\ Now \in Nat /\ i \in 0 .. Now /\ (i > 0 => subs[i].by \in Covered(s))
      /\ \A j \in 1 .. Now : j > i => subs[j].by \notin Covered(s)
      /\ \A j \in 1 .. Now : subs[j].by \in People
  BY <1>2, RowsAre, LatestIs
<1> HIDE DEF i
\* Only the latest of the student's works can be completed.
<1>4. \A j \in 1 .. Now : subs[j].status = "COMPLETED" /\ subs[j].by \in Covered(s) => j = i
  <2> SUFFICES ASSUME NEW j \in 1 .. Now, subs[j].status = "COMPLETED", subs[j].by \in Covered(s), j # i
               PROVE  FALSE
    OBVIOUS
  <2>1. j < i /\ i \in 1 .. Now
    BY <1>3
  <2>2. Covered(subs[j].by) \cap Covered(subs[i].by) = {}
    BY <2>1, Apart
  <2>3. Covered(subs[i].by) = Covered(s) /\ Covered(subs[j].by) = Covered(s) /\ s \in Covered(s)
    BY <1>3, <2>1, CoveredIs
  <2> QED BY <2>2, <2>3
<1>5. \A j \in 1 .. Now : subs[j].status = "COMPLETED" /\ j # i => scores'[subs[j].by] = scores[subs[j].by]
  BY <1>1, <1>3, <1>4
<1>6. CASE (i > 0 => subs[i].status # "COMPLETED") /\ subs' = subs /\ grade' = grade
  <2>1. Now' = Now
    BY <1>6 DEF Now
  <2>2. \A j \in 1 .. Now : subs[j].status = "COMPLETED" => scores'[subs[j].by] = scores[subs[j].by]
    BY <1>3, <1>5, <1>6
  <2> QED BY <1>1, <1>6, <2>1, <2>2, GradedQuiet
<1>7. CASE /\ i > 0 /\ subs[i].status \in {"AWAITING_TEACHER_REVIEW", "COMPLETED"}
           /\ IsComplete(cfg.g, form) /\ SettleAt(i, subs[i], "COMPLETED", attempts, scores')
  <2>1. i \in 1 .. Now /\ subs[i] \in Row /\ "COMPLETED" \in Statuses
    BY <1>2, <1>3, <1>7, RowsAre, StatusNames
  <2>2. \A j \in 1 .. Now : j # i => subs'[j] = subs[j]
    BY <1>2, <1>7, <2>1, SettleIs
  <2>3. (\E p : HasPassed(attempts', i, p)) /\ IsComplete(cfg.g, scores'[subs[i].by])
    <3>1. scores'[subs[i].by] = form
      BY <1>1, <1>3, <2>1
    <3>2. \E p : HasPassed(attempts, i, p)
      BY <1>1, <1>7, <2>1 DEF FlowInv, ScoredFlow
    <3> QED BY <1>1, <1>7, <3>1, <3>2
  <2>4. ASSUME NEW j \in 1 .. Now, j # i, subs[j].status = "COMPLETED"
        PROVE  Earns(j)' = Earns(j) /\ Covered(subs[j].by) \cap Covered(subs[i].by) = {}
    <3>1. Earns(j)' = Earns(j)
      BY <1>1, <1>5, <2>2, <2>4, EarnsSame
    <3>2. subs[j].by \notin Covered(s)
      BY <1>4, <2>4
    <3>3. subs[i].by \in Covered(s)
      BY <1>3, <1>7
    <3>4. Covered(subs[j].by) \cap Covered(subs[i].by) = {}
      BY <1>3, <2>1, <3>2, <3>3, CoveredIs DEF Covered
    <3> QED BY <3>1, <3>4
  <2>5. SettleAt(i, subs[i], "COMPLETED", attempts', scores')
    BY <1>1, <1>7
  <2> QED BY <1>1, <1>2, <2>1, <2>3, <2>4, <2>5, GradedSettle
<1> QED BY <1>6, <1>7, SavedIs DEF i

-----------------------------------------------------------------------------
(* The invariant holds.                                                    *)

GradesInv == BaseInv /\ FlowInv /\ GradedInv

LEMMA InvInit == Init => GradesInv
BY BaseInit, FlowInit, GradedInit DEF GradesInv

LEMMA InvStartCheck ==
    ASSUME GradesInv, NEW ok \in BOOLEAN, StartCheck(ok)
    PROVE  GradesInv'
<1>1. /\ Now > 0 /\ Current.status \in Checking /\ cfg' = cfg /\ sheet' = sheet
      /\ attempts' = attempts /\ scores' = scores
  BY DEF StartCheck, IsAt, Checking
<1>2. PICK st \in Statuses : Settle(Current, st, attempts, scores)
  BY StatusNames DEF StartCheck
<1>3. Current \in Row
  BY <1>1, RowsAre DEF GradesInv, BaseInv, GradesTypeOK
<1>4. BaseInv'
  BY BaseStartCheck DEF GradesInv
<1>5. FlowInv'
  BY <1>1, <1>2, <1>3, FlowSettle DEF GradesInv
<1>6. GradedInv'
  BY <1>1, <1>2, <1>3, GradedChecks DEF GradesInv
<1> QED BY <1>4, <1>5, <1>6 DEF GradesInv

LEMMA InvScriptBreaks ==
    ASSUME GradesInv, ScriptBreaks
    PROVE  GradesInv'
<1>1. /\ Now > 0 /\ Current.status \in Checking /\ cfg' = cfg /\ sheet' = sheet
      /\ attempts' = attempts /\ scores' = scores /\ Settle(Current, "VALIDATION_FAILED", attempts, scores)
  BY DEF ScriptBreaks, IsAt, Checking
<1>2. Current \in Row /\ "VALIDATION_FAILED" \in Statuses
  BY <1>1, RowsAre, StatusNames DEF GradesInv, BaseInv, GradesTypeOK
<1>3. BaseInv'
  BY BaseScriptBreaks DEF GradesInv
<1>4. FlowInv'
  BY <1>1, <1>2, FlowSettle DEF GradesInv
<1>5. GradedInv'
  BY <1>1, <1>2, GradedChecks DEF GradesInv
<1> QED BY <1>3, <1>4, <1>5 DEF GradesInv

LEMMA InvDecideChecks ==
    ASSUME GradesInv, DecideChecks
    PROVE  GradesInv'
<1> DEFINE e == Earned(check.ran)
           m == MaxPoints(check.ran)
           row == [Current EXCEPT !.tests = Pct(e, m)]
           st == IF ~ChecksPassed(cfg.check, check.ran) THEN "TEST_FAILED"
                 ELSE IF WithAi THEN "AWAITING_AI_REVIEW" ELSE AfterReview
<1>1. /\ Now > 0 /\ Current.status \in Checking /\ cfg' = cfg /\ sheet' = sheet
      /\ attempts' = attempts /\ scores' = scores /\ Settle(row, st, attempts, scores)
  BY DEF DecideChecks, IsAt, Checking
<1>2. Current \in Row
  BY <1>1, RowsAre DEF GradesInv, BaseInv, GradesTypeOK
<1>3. st \in Statuses
  BY StatusNames DEF AfterReview
<1>4. e \in Int /\ m \in Int
  <2>1. check.ran \in Seq([script : ToSet(Plan), earned : Int, max : Int])
    BY DEF GradesInv, BaseInv, CheckOK, Report
  <2> QED BY <2>1, SumsAreInt
<1> HIDE DEF st, e, m
<1>5. Pct(e, m) \in Fraction
  BY <1>4 DEF Pct, Fraction, None, Share
<1>6. row \in Row /\ row.by = Current.by
  BY <1>2, <1>5 DEF Row
<1> HIDE DEF row
<1>7. BaseInv'
  BY BaseDecideChecks DEF GradesInv
<1>8. FlowInv'
  BY <1>1, <1>3, <1>6, FlowSettle DEF GradesInv
<1>9. GradedInv'
  BY <1>1, <1>3, <1>6, GradedChecks DEF GradesInv
<1> QED BY <1>7, <1>8, <1>9 DEF GradesInv

LEMMA InvAiReview ==
    ASSUME GradesInv, NEW mark \in AiMarks, AiReview(mark)
    PROVE  GradesInv'
<1> DEFINE row == [Current EXCEPT !.mark = mark]
<1>1. /\ Now > 0 /\ Current.status \in Checking /\ cfg' = cfg /\ sheet' = sheet
      /\ attempts' = attempts /\ scores' = scores /\ Settle(row, AfterReview, attempts, scores)
  BY DEF AiReview, IsAt, Checking
<1>2. Current \in Row
  BY <1>1, RowsAre DEF GradesInv, BaseInv, GradesTypeOK
<1>3. AfterReview \in Statuses
  BY StatusNames DEF AfterReview
<1>4. row \in Row /\ row.by = Current.by
  BY <1>2, GradesAssumption DEF Row
<1> HIDE DEF row
<1>5. BaseInv'
  BY BaseAiReview DEF GradesInv
<1>6. FlowInv'
  BY <1>1, <1>3, <1>4, FlowSettle DEF GradesInv
<1>7. GradedInv'
  BY <1>1, <1>3, <1>4, GradedChecks DEF GradesInv
<1> QED BY <1>5, <1>6, <1>7 DEF GradesInv

LEMMA InvOpen ==
    ASSUME GradesInv, NEW s \in People, OpenAttempt(s)
    PROVE  GradesInv'
<1>1. BaseInv'
  BY BaseOpenAttempt DEF GradesInv
<1>2. FlowInv'
  BY FlowOpen DEF GradesInv
<1>3. GradedInv'
  <2>1. Now > 0 /\ cfg' = cfg /\ attempts' = attempts /\ scores' = scores /\ grade' = grade
    BY DEF OpenAttempt, IsAt
  <2>2. PICK draw \in Draws : subs' = [subs EXCEPT ![Now].draw = draw] /\ \E ids \in IdsFor(s, draw) : TRUE
    BY DEF OpenAttempt
  <2>3. Drawn(cfg.quiz, draw)
    BY <2>1, <2>2, IdsDrawn DEF GradesInv
  <2>4. draw \in Seq(Nat)
    <3>1. {i \in DOMAIN cfg.quiz.questions : cfg.quiz.questions[i].type \in Supported} \subseteq Nat
      BY ConfigIs DEF GradesInv, BaseInv, GradesTypeOK, IsDrawable
    <3> QED BY <2>3, <3>1 DEF Drawn
  <2>5. subs \in Seq(Row)
    BY DEF GradesInv, BaseInv, GradesTypeOK
  <2>6. /\ Now' = Now
        /\ \A i \in 1 .. Now : /\ subs'[i].by = subs[i].by /\ subs'[i].status = subs[i].status
                               /\ subs'[i].tests = subs[i].tests /\ subs'[i].mark = subs[i].mark
    BY <2>1, <2>2, <2>4, <2>5, DrawWritten
  <2> QED BY <2>1, <2>6, GradedQuiet DEF GradesInv
<1> QED BY <1>1, <1>2, <1>3 DEF GradesInv

LEMMA InvRest ==
    ASSUME GradesInv, cfg' = cfg, subs' = subs, attempts' = attempts, scores' = scores, grade' = grade
    PROVE  GradedInv'
<1>1. Now' = Now
  BY DEF Now
<1> QED BY <1>1, GradedQuiet DEF GradesInv

LEMMA InvStep == GradesInv /\ [Next]_vars => GradesInv'
<1> SUFFICES ASSUME GradesInv, [Next]_vars PROVE GradesInv'
  OBVIOUS
<1>1. ASSUME NEW s \in People, Upload(s) PROVE GradesInv'
  BY <1>1, BaseUpload, FlowUpload, GradedUpload DEF GradesInv
<1>2. ASSUME NEW ok \in BOOLEAN, StartCheck(ok) PROVE GradesInv'
  BY <1>2, InvStartCheck
<1>3. ASSUME NEW r \in Reports, RunScript(r) PROVE GradesInv'
  <2>1. cfg' = cfg /\ subs' = subs /\ attempts' = attempts /\ scores' = scores /\ grade' = grade
    BY <1>3 DEF RunScript
  <2>2. GradedInv'
    BY <2>1, InvRest
  <2>3. BaseInv' /\ FlowInv'
    BY <1>3, BaseRunScript, FlowRun DEF GradesInv
  <2> QED BY <2>2, <2>3 DEF GradesInv
<1>4. CASE ScriptBreaks
  BY <1>4, InvScriptBreaks
<1>5. CASE DecideChecks
  BY <1>5, InvDecideChecks
<1>6. ASSUME NEW mark \in AiMarks, AiReview(mark) PROVE GradesInv'
  BY <1>6, InvAiReview
<1>7. ASSUME NEW s \in People, OpenAttempt(s) PROVE GradesInv'
  BY <1>7, InvOpen
<1>8. CASE AnswerQuestion
  <2>1. cfg' = cfg /\ subs' = subs /\ attempts' = attempts /\ scores' = scores /\ grade' = grade
    BY <1>8 DEF AnswerQuestion
  <2>2. GradedInv'
    BY <2>1, InvRest
  <2>3. BaseInv' /\ FlowInv'
    BY <1>8, BaseAnswer, FlowAnswer DEF GradesInv
  <2> QED BY <2>2, <2>3 DEF GradesInv
<1>9. ASSUME NEW c \in Conducts, FinishAttempt(c) PROVE GradesInv'
  <2>1. Now > 0
    BY <1>9, SheetIsOpen DEF GradesInv, FlowInv
  <2>2. BaseInv' /\ FlowInv'
    BY <1>9, <2>1, BaseFinish, FlowFinish DEF GradesInv
  <2> QED BY <1>9, <2>2, GradedFinish DEF GradesInv
<1>10. ASSUME NEW s \in People, NEW form \in Forms, SaveScores(s, form) PROVE GradesInv'
  <2>1. BaseInv' /\ FlowInv'
    BY <1>10, BaseSave, FlowSave DEF GradesInv
  <2> QED BY <1>10, <2>1, GradedSave DEF GradesInv
<1>11. CASE UNCHANGED vars
  <2>1. /\ cfg' = cfg /\ subs' = subs /\ check' = check /\ sheet' = sheet /\ attempts' = attempts
        /\ scores' = scores /\ grade' = grade
    BY <1>11 DEF vars
  <2>2. Now' = Now /\ Current' = Current
    BY <2>1 DEF Now, Current
  <2>3. SheetOK' /\ GradesTypeOK' /\ DrawsOK' /\ CheckOK'
    <3>1. SheetOK'
      BY <2>1, SheetKept DEF GradesInv, BaseInv
    <3>2. GradesTypeOK'
      BY <2>1, TypesKept DEF GradesInv, BaseInv, GradesTypeOK
    <3>3. DrawsOK'
      BY <2>1, <2>2 DEF GradesInv, BaseInv, DrawsOK
    <3>4. CheckOK'
      BY <2>1, <2>2 DEF GradesInv, BaseInv, CheckOK, IsAt, Plan, Report, AlongPlan, NoCheck
    <3> QED BY <3>1, <3>2, <3>3, <3>4
  <2>4. Sitting'
    BY <2>1, <2>2 DEF GradesInv, FlowInv, Sitting, IsAt, Covered, NoSheet
  <2>5. FlowInv'
    BY <2>1, <2>2, <2>4, FlowQuiet DEF GradesInv
  <2>6. GradedInv'
    BY <2>1, InvRest
  <2> QED BY <2>3, <2>5, <2>6 DEF GradesInv, BaseInv
<1> QED BY <1>1, <1>2, <1>3, <1>4, <1>5, <1>6, <1>7, <1>8, <1>9, <1>10, <1>11 DEF Next

\* The inductive invariant: types, the check along its plan, sheets and draws
\* by the config, the flow of a submission through quiz and points, and the
\* grade of a COMPLETED work being what its evidence earns.
THEOREM GradesInvariant == Spec => []GradesInv
BY InvInit, InvStep, PTL DEF Spec

-----------------------------------------------------------------------------
(* Exact evidence.                                                         *)

LEMMA PartOf ==
    \A a, b, c \in Nat : a + b = c => a <= c
OBVIOUS

LEMMA ExactNow == GradesInv => EvidenceIsExact
<1> SUFFICES ASSUME GradesInv PROVE EvidenceIsExact
  OBVIOUS
<1>1. BaseInv /\ CheckOK /\ GoodSheet(cfg.quiz, sheet)
  BY DEF GradesInv, BaseInv, SheetOK
<1> DEFINE scripts == [i \in DOMAIN check.ran |-> check.ran[i].script]
<1>2. /\ Plan \in Seq(ToSet(Plan)) /\ IsInjective(Plan) /\ ToSet(Plan) = Named
      /\ Len(Plan) \in Nat /\ DOMAIN Plan = 1 .. Len(Plan)
  BY <1>1, PlanOf
<1>3. /\ check.ran \in Seq(Report) /\ check.left \in Seq(ToSet(Plan))
  BY <1>1 DEF CheckOK
<1>4. Len(check.ran) \in Nat /\ DOMAIN check.ran = 1 .. Len(check.ran) /\ Len(check.left) \in Nat
  BY <1>3
<1>5. AlongPlan => /\ DOMAIN check.ran \subseteq DOMAIN Plan
                   /\ \A i \in DOMAIN check.ran : scripts[i] = Plan[i]
  <2> SUFFICES ASSUME AlongPlan
               PROVE  DOMAIN check.ran \subseteq DOMAIN Plan /\ \A i \in DOMAIN check.ran : scripts[i] = Plan[i]
    OBVIOUS
  <2>1. Len(check.ran) + Len(check.left) = Len(Plan) /\ \A i \in DOMAIN check.ran : check.ran[i].script = Plan[i]
    BY DEF AlongPlan
  <2>2. Len(check.ran) <= Len(Plan)
    BY <1>2, <1>4, <2>1, PartOf
  <2>3. DOMAIN check.ran \subseteq DOMAIN Plan
    BY <1>2, <1>4, <2>2
  <2> QED BY <2>1, <2>3
<1>6. IsInjective(scripts)
  <2>1. CASE check = NoCheck
    BY <2>1 DEF NoCheck, IsInjective
  <2>2. CASE AlongPlan
    <3>1. \A i \in DOMAIN check.ran : i \in DOMAIN Plan /\ scripts[i] = Plan[i]
      BY <1>5, <2>2
    <3>2. \A i, j \in DOMAIN Plan : Plan[i] = Plan[j] => i = j
      BY <1>2 DEF IsInjective
    <3>3. \A i, j \in DOMAIN check.ran : scripts[i] = scripts[j] => i = j
      BY <3>1, <3>2
    <3>4. DOMAIN scripts = DOMAIN check.ran
      OBVIOUS
    <3> HIDE DEF scripts
    <3> QED BY <3>3, <3>4 DEF IsInjective
  <2> QED BY <1>1, <2>1, <2>2 DEF CheckOK
<1>7. AlongPlan /\ check.left = <<>> => ToSet(scripts) = Named
  <2> SUFFICES ASSUME AlongPlan, check.left = <<>> PROVE ToSet(scripts) = ToSet(Plan)
    BY <1>2
  <2>1. Len(check.ran) = Len(Plan)
    BY <1>2, <1>4 DEF AlongPlan
  <2>2. DOMAIN scripts = DOMAIN Plan /\ \A i \in DOMAIN Plan : scripts[i] = Plan[i]
    BY <1>2, <1>4, <1>5, <2>1
  <2> HIDE DEF scripts
  <2> QED BY <2>2 DEF ToSet
<1>8. EachScriptCountsOnce
  BY <1>1, <1>6, <1>7 DEF EachScriptCountsOnce, CheckOK
<1>9. ShuffleKeepsTheKey
  <2>1. sheet.ids \in Seq({i \in DOMAIN cfg.quiz.questions : cfg.quiz.questions[i].type \in Supported})
        /\ IsInjective(sheet.ids)
    BY <1>1 DEF GoodSheet, Drawn
  <2>2. \A i \in ToSet(sheet.ids) : Question(i).type \in Supported
    BY <2>1 DEF ToSet, Question
  <2>3. \A k \in DOMAIN sheet.points : sheet.points[k] = Worth(Question(sheet.ids[k]), sheet.meant[k])
    BY <1>1 DEF GoodSheet, Question
  <2> QED BY <2>1, <2>2, <2>3 DEF ShuffleKeepsTheKey
<1> QED BY <1>8, <1>9 DEF EvidenceIsExact

\* Every script the config names is counted once in the tests
\* (check_core.resolve_check_plan), and every answer earns its worth however
\* the options were shuffled (student_quiz._snapshot_questions).
THEOREM EvidenceExact == Spec => []EvidenceIsExact
BY GradesInvariant, ExactNow, PTL

-----------------------------------------------------------------------------
(* Fair grades.                                                            *)

\* Evidence whose components are there or not, and whose points are points.
Sound(e) ==
    /\ e.works \in Fraction /\ e.mark \in Fraction /\ e.quiz \in Fraction
    /\ e.points \in [DOMAIN cfg.g.criteria -> Int]
    /\ \A i \in DOMAIN cfg.g.criteria : e.points[i] >= Blank

SameComponents(e, f) ==
    /\ IsSome(e.works) <=> IsSome(f.works)
    /\ IsSome(e.mark) <=> IsSome(f.mark)
    /\ IsSome(e.quiz) <=> IsSome(f.quiz)

LEMMA VariantsAre ==
    ASSUME NEW f \in Fraction, NEW v \in Variants(f)
    PROVE  v \in Fraction /\ (IsSome(v) <=> IsSome(f))
BY DEF Variants, Fraction, IsSome, Share, None

LEMMA AlternativesAre ==
    ASSUME cfg \in Configs, NEW e, Sound(e), NEW f \in Alternatives(e)
    PROVE  Sound(f) /\ SameComponents(e, f)
<1>1. /\ f.works \in Variants(e.works) /\ f.mark \in Variants(e.mark) /\ f.quiz \in Variants(e.quiz)
      /\ f.points \in {e.points, [i \in DOMAIN e.points |-> 0],
                       [i \in DOMAIN e.points |-> cfg.g.criteria[i].max]}
  BY DEF Alternatives
<1>2. /\ e.works \in Fraction /\ e.mark \in Fraction /\ e.quiz \in Fraction
      /\ e.points \in [DOMAIN cfg.g.criteria -> Int]
      /\ \A i \in DOMAIN cfg.g.criteria : e.points[i] >= Blank
  BY DEF Sound
<1>3. /\ f.works \in Fraction /\ f.mark \in Fraction /\ f.quiz \in Fraction /\ SameComponents(e, f)
  BY <1>1, <1>2, VariantsAre DEF SameComponents
<1>4. cfg.g.criteria \in Seq([max : Nat \ {0}, optional : BOOLEAN])
  BY ConfigIs DEF GradingBlock
<1>5. \A i \in DOMAIN cfg.g.criteria : cfg.g.criteria[i] \in [max : Nat \ {0}, optional : BOOLEAN]
  BY <1>4, Element, Zenon
<1>6. \A i \in DOMAIN cfg.g.criteria : cfg.g.criteria[i].max \in Nat
  BY <1>5
<1>7. DOMAIN e.points = DOMAIN cfg.g.criteria
  BY <1>2
<1>8. f.points \in [DOMAIN cfg.g.criteria -> Int] /\ \A i \in DOMAIN cfg.g.criteria : f.points[i] >= Blank
  BY <1>1, <1>2, <1>6, <1>7 DEF Blank
<1> QED BY <1>3, <1>8 DEF Sound

LEMMA GradeIsInt ==
    ASSUME cfg \in Configs, NEW e, Sound(e), Scored => IsSome(e.quiz)
    PROVE  GradeOf(e) \in Int
<1>1. cfg.g \in GradingBlock /\ cfg.g.min <= cfg.g.max /\ cfg.squad \in BOOLEAN
  BY ConfigIs
<1>2. /\ e.works \in Fraction /\ e.mark \in Fraction /\ e.quiz \in Fraction
      /\ e.points \in [DOMAIN cfg.g.criteria -> Int]
      /\ \A i \in DOMAIN cfg.g.criteria : e.points[i] >= Blank
  BY DEF Sound
<1>3. AtLeast(e.works, e.works) /\ AtLeast(e.mark, e.mark) /\ AtLeast(e.quiz, e.quiz)
  BY <1>2, AtLeastSelf
<1>4. CASE Scored
  <2>1. e.quiz \in Value
    BY <1>2, <1>4 DEF IsSome, Fraction, Value
  <2>2. \A i \in DOMAIN cfg.g.criteria : e.points[i] >= e.points[i] /\ e.points[i] >= Blank
    BY <1>2
  <2>3. ComputeScored(cfg.g, e.quiz, e.points, cfg.squad) \in Int
    BY <1>1, <1>2, <1>3, <2>1, <2>2, ScoredGrows
  <2> QED BY <1>4, <2>3 DEF GradeOf
<1>5. CASE ~Scored
  <2>1. ComputeGrade(cfg.g, e.works, e.mark, e.quiz, cfg.squad) \in Int
    BY <1>1, <1>2, <1>3, ComputeGrows
  <2> QED BY <1>5, <2>1 DEF GradeOf
<1> QED BY <1>4, <1>5

\* Better evidence of the same components earns no less.
LEMMA GradeGrows ==
    ASSUME cfg \in Configs, NEW e, NEW f, Sound(e), Sound(f), SameComponents(e, f),
           Scored => IsSome(e.quiz), NotWorse(e, f)
    PROVE  GradeOf(e) >= GradeOf(f)
<1>1. cfg.g \in GradingBlock /\ cfg.g.min <= cfg.g.max /\ cfg.squad \in BOOLEAN
  BY ConfigIs
<1>2. AtLeast(e.works, f.works) /\ AtLeast(e.mark, f.mark) /\ AtLeast(e.quiz, f.quiz)
  BY DEF NotWorse
<1>3. /\ e.works \in Fraction /\ e.mark \in Fraction /\ e.quiz \in Fraction
      /\ f.works \in Fraction /\ f.mark \in Fraction /\ f.quiz \in Fraction
      /\ e.points \in [DOMAIN cfg.g.criteria -> Int] /\ f.points \in [DOMAIN cfg.g.criteria -> Int]
      /\ \A i \in DOMAIN cfg.g.criteria : f.points[i] >= Blank
  BY DEF Sound
<1>4. CASE Scored
  <2>1. e.quiz \in Value /\ f.quiz \in Value
    BY <1>3, <1>4 DEF SameComponents, IsSome, Fraction, Value
  <2>2. \A i \in DOMAIN cfg.g.criteria : e.points[i] >= f.points[i] /\ f.points[i] >= Blank
    BY <1>3 DEF NotWorse
  <2>3. ComputeScored(cfg.g, e.quiz, e.points, cfg.squad) >= ComputeScored(cfg.g, f.quiz, f.points, cfg.squad)
    BY <1>1, <1>2, <1>3, <2>1, <2>2, ScoredGrows
  <2> QED BY <1>4, <2>3 DEF GradeOf
<1>5. CASE ~Scored
  <2>1. ComputeGrade(cfg.g, e.works, e.mark, e.quiz, cfg.squad)
           >= ComputeGrade(cfg.g, f.works, f.mark, f.quiz, cfg.squad)
    BY <1>1, <1>2, <1>3, ComputeGrows DEF SameComponents
  <2> QED BY <1>5, <2>1 DEF GradeOf
<1> QED BY <1>4, <1>5

\* Full marks on what is there give the maximum.
LEMMA GradeFull ==
    ASSUME cfg \in Configs, Scored => ValidAssignment(cfg.g), NEW e, Sound(e),
           Scored => IsSome(e.quiz), IsFull(e), Counts(e)
    PROVE  GradeOf(e) = cfg.g.max
<1>1. cfg.g \in GradingBlock /\ cfg.g.min <= cfg.g.max /\ cfg.squad \in BOOLEAN
  BY ConfigIs
<1>2. /\ e.works \in Fraction /\ e.mark \in Fraction /\ e.quiz \in Fraction
      /\ e.points \in [DOMAIN cfg.g.criteria -> Int]
  BY DEF Sound
<1>3. /\ IsSome(e.works) => e.works.n = e.works.d
      /\ IsSome(e.mark) => e.mark.n = e.mark.d
      /\ IsSome(e.quiz) => e.quiz.n = e.quiz.d
      /\ \A i \in DOMAIN cfg.g.criteria : e.points[i] = cfg.g.criteria[i].max
  BY <1>2 DEF IsFull
<1>4. CASE Scored
  <2>1. e.quiz \in Value /\ e.quiz.n = e.quiz.d
    BY <1>2, <1>3, <1>4 DEF IsSome, Fraction, Value
  <2>2. ComputeScored(cfg.g, e.quiz, e.points, cfg.squad) = cfg.g.max
    BY <1>1, <1>2, <1>3, <1>4, <2>1, ScoredFull
  <2> QED BY <1>4, <2>2 DEF GradeOf
<1>5. CASE ~Scored
  <2>1. ComputeGrade(cfg.g, e.works, e.mark, e.quiz, cfg.squad) = cfg.g.max
    BY <1>1, <1>2, <1>3, <1>5, ComputeFull DEF Counts
  <2> QED BY <1>5, <2>1 DEF GradeOf
<1> QED BY <1>4, <1>5

LEMMA EvidenceIs ==
    ASSUME GradesInv, NEW i \in 1 .. Now
    PROVE  LET e == Evidence(i, subs[i], attempts, scores[subs[i].by])
           IN  /\ Sound(e) /\ e.points \in Forms
               /\ subs[i].status = "COMPLETED" /\ Scored => IsSome(e.quiz)
<1> DEFINE e == Evidence(i, subs[i], attempts, scores[subs[i].by])
<1>1. subs \in Seq(Row) /\ attempts \in Seq(Attempt) /\ scores \in [People -> Forms]
  BY DEF GradesInv, BaseInv, GradesTypeOK
<1>2. subs[i].by \in People /\ subs[i].tests \in Fraction /\ subs[i].mark \in Fraction
  BY <1>1, RowsAre
<1>3. scores[subs[i].by] \in Forms
  BY <1>1, <1>2
<1>4. QuizPct(i, attempts) \in Fraction /\ \A p : HasPassed(attempts, i, p) => IsSome(QuizPct(i, attempts))
  BY <1>1, PassOnceHere, QuizPctIs DEF GradesInv
<1>5. /\ e.works = subs[i].tests /\ e.mark = subs[i].mark
      /\ e.quiz = QuizPct(i, attempts) /\ e.points = scores[subs[i].by]
  BY DEF Evidence
<1> HIDE DEF e
<1>6. Sound(e)
  BY <1>2, <1>3, <1>4, <1>5, FormsAre DEF Sound
<1>7. subs[i].status = "COMPLETED" /\ Scored => \E p \in People : HasPassed(attempts, i, p)
  BY DEF GradesInv, FlowInv, ScoredFlow
<1> QED BY <1>3, <1>4, <1>5, <1>6, <1>7 DEF e

LEMMA FairNow == GradesInv => GradeIsFair
<1> SUFFICES ASSUME GradesInv, NEW i \in 1 .. Now, subs[i].status = "COMPLETED",
                    NEW s \in Covered(subs[i].by)
             PROVE  LET e == Evidence(i, subs[i], attempts, scores[subs[i].by])
                    IN  /\ \A f \in Alternatives(e) :
                             /\ NotWorse(f, e) => GradeOf(f) >= grade[s]
                             /\ NotWorse(e, f) => GradeOf(f) <= grade[s]
                        /\ IsFull(e) /\ Counts(e) => grade[s] = cfg.g.max
  BY DEF GradeIsFair
<1> DEFINE e == Evidence(i, subs[i], attempts, scores[subs[i].by])
<1>1. Sound(e) /\ e.points \in Forms /\ (Scored => IsSome(e.quiz))
  BY EvidenceIs
<1>2. cfg \in Configs /\ (Scored => ValidAssignment(cfg.g))
  BY DEF GradesInv, BaseInv, GradesTypeOK
<1>3. grade[s] = GradeOf(e)
  BY DEF GradesInv, GradedInv, Earns
<1> HIDE DEF e
<1>4. GradeOf(e) \in Int
  BY <1>1, <1>2, GradeIs DEF Sound
<1>5. ASSUME NEW f \in Alternatives(e)
      PROVE  /\ NotWorse(f, e) => GradeOf(f) >= grade[s]
             /\ NotWorse(e, f) => GradeOf(f) <= grade[s]
  <2>1. Sound(f) /\ SameComponents(e, f)
    BY <1>1, <1>2, AlternativesAre
  <2>2. SameComponents(f, e) /\ (Scored => IsSome(f.quiz))
    BY <1>1, <2>1 DEF SameComponents
  <2>3. NotWorse(f, e) => GradeOf(f) >= GradeOf(e)
    BY <1>1, <1>2, <2>1, <2>2, GradeGrows
  <2>4. NotWorse(e, f) => GradeOf(e) >= GradeOf(f)
    BY <1>1, <1>2, <2>1, GradeGrows
  <2>5. GradeOf(f) \in Int
    BY <1>2, <2>1, <2>2, GradeIsInt
  <2>6. NotWorse(e, f) => GradeOf(f) <= GradeOf(e)
    BY <1>4, <2>4, <2>5
  <2> QED BY <1>3, <2>3, <2>6
<1>6. IsFull(e) /\ Counts(e) => grade[s] = cfg.g.max
  BY <1>1, <1>2, <1>3, GradeFull
<1> QED BY <1>5, <1>6 DEF e

\* The grade of a COMPLETED work is monotone in its evidence as it is now and
\* full marks give the maximum (grading.compute_grade, teacher_scores.compute).
THEOREM GradesFair == Spec => []GradeIsFair
BY GradesInvariant, FairNow, PTL

-----------------------------------------------------------------------------
(* The books.                                                              *)

LEMMA TablesAre ==
    /\ Tables.subs = subs /\ Tables.attempts = attempts /\ Tables.grade = grade
    /\ Tables.squad = cfg.squad /\ Tables.min = cfg.g.min
BY DEF Tables

\* The last place of a sequence where something holds.
LEMMA OwnLatestIs ==
    ASSUME subs \in Seq(Row), NEW s
    PROVE  /\ OwnLatest(Tables, s) \in 0 .. Now
           /\ OwnLatest(Tables, s) > 0 => subs[OwnLatest(Tables, s)].by = s
           /\ OwnLatest(Tables, s) = 0 => \A j \in 1 .. Now : subs[j].by # s
<1> DEFINE I == {i \in 1 .. Now : subs[i].by = s}
<1>1. OwnLatest(Tables, s) = IF I # {} THEN Max(I) ELSE 0
  BY TablesAre DEF OwnLatest, SelectLastInSeq, Now
<1>2. Now \in Nat
  BY DEF Now
<1>3. CASE I = {}
  BY <1>1, <1>2, <1>3
<1>4. CASE I # {}
  <2>1. Max(I) \in I
    BY <1>2, <1>4, MaxIs
  <2> QED BY <1>1, <1>2, <1>4, <2>1
<1> QED BY <1>3, <1>4

LEMMA ScopeLatestIs ==
    ASSUME subs \in Seq(Row), cfg.squad \in BOOLEAN, NEW s
    PROVE  /\ ScopeLatest(Tables, s) = IF cfg.squad THEN Now ELSE OwnLatest(Tables, s)
           /\ ScopeLatest(Tables, s) \in 0 .. Now
<1>1. Now \in Nat
  BY DEF Now
<1>2. CASE cfg.squad
  <2> DEFINE I == {i \in 1 .. Now : TRUE}
  <2>1. ScopeLatest(Tables, s) = IF I # {} THEN Max(I) ELSE 0
    BY <1>2, TablesAre DEF ScopeLatest, SelectLastInSeq, Now
  <2>2. I = 1 .. Now
    OBVIOUS
  <2>3. ASSUME Now > 0 PROVE Max(1 .. Now) = Now
    <3> DEFINE J == 1 .. Now
    <3>1. Now \in J
      BY <1>1, <2>3
    <3>2. J \in SUBSET (1 .. Now) /\ J # {} /\ Now \in J
      BY <3>1, Zenon
    <3> HIDE DEF J
    <3>3. Max(J) \in J /\ \A y \in J : Max(J) >= y
      BY <1>1, <3>2, MaxIs
    <3>4. Max(J) \in 1 .. Now /\ Max(J) >= Now
      BY <3>2, <3>3
    <3>5. Max(J) = Now
      BY <1>1, <3>4
    <3> QED BY <3>5 DEF J
  <2>4. Now > 0 => Max(I) = Now
    BY <2>2, <2>3
  <2> QED BY <1>1, <1>2, <2>1, <2>2, <2>4
<1>3. CASE ~cfg.squad
  <2>1. \A i \in 1 .. Now : (cfg.squad \/ subs[i].by = s) <=> subs[i].by = s
    BY <1>3
  <2>2. ScopeLatest(Tables, s) = OwnLatest(Tables, s)
    BY <1>3, <2>1, TablesAre DEF ScopeLatest, OwnLatest, SelectLastInSeq, Now
  <2> QED BY <1>3, <2>2, OwnLatestIs
<1> QED BY <1>2, <1>3

\* A work that is done is the last for whom it covers, and graded.
LEMMA GradedHere ==
    ASSUME GradesInv, NEW i \in 1 .. Now, subs[i].status = "COMPLETED", NEW s \in Covered(subs[i].by)
    PROVE  grade[s] \in Int /\ grade[s] >= cfg.g.min /\ grade[s] # Blank
<1> DEFINE e == Evidence(i, subs[i], attempts, scores[subs[i].by])
<1>1. Sound(e) /\ e.points \in Forms /\ (Scored => IsSome(e.quiz))
  BY EvidenceIs
<1>2. cfg \in Configs
  BY DEF GradesInv, BaseInv, GradesTypeOK
<1>3. grade[s] = GradeOf(e)
  BY DEF GradesInv, GradedInv, Earns
<1> HIDE DEF e
<1>4. GradeOf(e) \in Int /\ GradeOf(e) >= cfg.g.min /\ cfg.g.min \in Nat
  BY <1>1, <1>2, GradeIs DEF Sound
<1> QED BY <1>3, <1>4 DEF Blank

\* In a squad whose quiz is shown as open, the last submission's is.
LEMMA QuizShown ==
    ASSUME GradesInv, NEW s \in People, IsWaiting(Tables, s)
    PROVE  /\ cfg.squad /\ Now > 0 /\ subs[Now].status = "QUIZ_SENT"
           /\ s \in PassedIds(Tables, Now)
<1>1. subs \in Seq(Row) /\ cfg.squad \in BOOLEAN
  BY ConfigIs DEF GradesInv, BaseInv, GradesTypeOK
<1>2. Now \in Nat
  BY <1>1, RowsAre
<1>3. SharedLatest(Tables) = IF cfg.squad THEN Now ELSE 0
  BY TablesAre DEF SharedLatest, Now
<1>4. cfg.squad /\ Now > 0 /\ SharedLatest(Tables) = Now
  BY <1>2, <1>3 DEF IsWaiting
<1>5. s \in PassedIds(Tables, Now) /\ GridStatus(Tables, s) = "QUIZ_SENT"
  BY <1>4 DEF IsWaiting
<1> DEFINE k == OwnLatest(Tables, s)
<1>6. k \in 0 .. Now
  BY <1>1, OwnLatestIs
<1> HIDE DEF k
<1>7. \/ StatusAt(Tables, Now) = "QUIZ_SENT"
      \/ StatusAt(Tables, k) = "QUIZ_SENT"
  BY <1>4, <1>5 DEF GridStatus, k
<1>8. /\ StatusAt(Tables, Now) = subs[Now].status
      /\ StatusAt(Tables, k) = IF k = 0 THEN NoStatus ELSE subs[k].status
  BY <1>4, TablesAre DEF StatusAt
<1>9. k # 0 /\ k # Now => subs[k].status \in Ended
  BY <1>2, <1>6 DEF GradesInv, FlowInv, EarlyEnded
<1>10. subs[Now].status = "QUIZ_SENT"
  BY <1>7, <1>8, <1>9 DEF NoStatus, Ended, Terminal
<1> QED BY <1>4, <1>5, <1>10

\* A student with a grade waits for nobody and is at least at the minimum.
LEMMA GradedPasses ==
    ASSUME GradesInv, NEW s \in People, grade[s] # Blank
    PROVE  grade[s] >= cfg.g.min /\ ~IsWaiting(Tables, s)
<1>1. subs \in Seq(Row)
  BY DEF GradesInv, BaseInv, GradesTypeOK
<1>2. PICK i \in 1 .. Now : subs[i].status = "COMPLETED" /\ s \in Covered(subs[i].by)
  BY DEF GradesInv, GradedInv, GradeEarned
<1>3. grade[s] >= cfg.g.min
  BY <1>2, GradedHere
<1>4. ASSUME IsWaiting(Tables, s) PROVE FALSE
  <2>1. cfg.squad /\ Now > 0 /\ subs[Now].status = "QUIZ_SENT"
    BY <1>4, QuizShown
  <2>2. Now \in 1 .. Now /\ i # Now /\ i < Now
    <3>1. Now \in Nat
      BY <1>1, RowsAre
    <3>2. i # Now
      BY <1>2, <2>1
    <3> QED BY <2>1, <3>1, <3>2
  <2>3. subs[Now].by \in Covered(subs[i].by)
    BY <1>1, <2>1, <2>2, RowsAre DEF Covered
  <2> QED BY <1>2, <2>2, <2>3 DEF GradesInv, FlowInv, LastCompleted
<1> QED BY <1>3, <1>4

LEMMA CellIs ==
    ASSUME GradesInv, NEW s \in People
    PROVE  /\ Cell(Tables, s) = "passed" <=> grade[s] # Blank
           /\ IsPending(RosterRow(Tables, s)) => Cell(Tables, s) \in {"pending", "waiting_partner"}
           /\ Cell(Tables, s) = "waiting_partner" => IsWaiting(Tables, s)
<1>1. Cell(Tables, s) = IF IsWaiting(Tables, s) THEN "waiting_partner"
                        ELSE CellStatus(grade[s], cfg.g.min, GridStatus(Tables, s))
  BY TablesAre DEF Cell
<1>2. CASE grade[s] # Blank
  <2>1. grade[s] >= cfg.g.min /\ ~IsWaiting(Tables, s)
    BY <1>2, GradedPasses
  <2>2. Cell(Tables, s) = "passed"
    BY <1>1, <1>2, <2>1 DEF CellStatus
  <2>3. ~IsPending(RosterRow(Tables, s))
    BY <1>2, TablesAre DEF IsPending, RosterRow
  <2> QED BY <1>2, <2>2, <2>3
<1>3. CASE grade[s] = Blank
  <2> DEFINE st == GridStatus(Tables, s)
  <2>1. CellStatus(grade[s], cfg.g.min, st)
           = IF st \notin Terminal \cup {NoStatus} THEN "pending" ELSE "not_submitted"
    BY <1>3 DEF CellStatus
  <2>2. IsPending(RosterRow(Tables, s)) => st \notin Terminal \cup {NoStatus}
    BY DEF IsPending, RosterRow, GridStatus
  <2> HIDE DEF st
  <2> QED BY <1>1, <1>3, <2>1, <2>2 DEF st
<1> QED BY <1>2, <1>3

LEMMA BooksNow == GradesInv => BooksAgree
<1> SUFFICES ASSUME GradesInv PROVE BooksAgree
  OBVIOUS
<1>1. subs \in Seq(Row) /\ attempts \in Seq(Attempt) /\ cfg.squad \in BOOLEAN
  BY ConfigIs DEF GradesInv, BaseInv, GradesTypeOK
<1>2. Now \in Nat
  BY <1>1, RowsAre
<1>3. CachedStats(Tables).passed = Cardinality({s \in People : Cell(Tables, s) = "passed"})
  <2>1. CachedStats(Tables).passed = Cardinality({s \in Graded(Tables) : RosterRow(Tables, s).grade >= Tables.min})
    BY DEF CachedStats
  <2>2. \A s \in People : RosterRow(Tables, s).grade = grade[s]
    BY TablesAre DEF RosterRow
  <2>3. {s \in Graded(Tables) : RosterRow(Tables, s).grade >= Tables.min} = {s \in People : grade[s] # Blank}
    BY <2>2, TablesAre, GradedPasses DEF Graded
  <2>4. {s \in People : Cell(Tables, s) = "passed"} = {s \in People : grade[s] # Blank}
    BY CellIs
  <2> QED BY <2>1, <2>3, <2>4
<1>4. CachedStats(Tables).pending <= Cardinality({s \in People : Cell(Tables, s) \in {"pending", "waiting_partner"}})
  <2> DEFINE P == {s \in People : IsPending(RosterRow(Tables, s))}
             Q == {s \in People : Cell(Tables, s) \in {"pending", "waiting_partner"}}
  <2>1. CachedStats(Tables).pending = Cardinality(P)
    BY DEF CachedStats
  <2>2. P \subseteq Q
    BY CellIs
  <2>3. IsFiniteSet(Q)
    <3>1. Q \subseteq People
      OBVIOUS
    <3> QED BY <3>1, PeopleAre, FS_Subset
  <2> HIDE DEF P, Q
  <2>4. Cardinality(P) <= Cardinality(Q)
    BY <2>2, <2>3, FS_Subset
  <2> QED BY <2>1, <2>4 DEF Q
<1>5. ASSUME NEW s \in People
      PROVE  LET sat == {i \in DOMAIN attempts : attempts[i].student = s}
             IN  Integrity(Tables, s) = IF sat = {} THEN 0 ELSE Max(sat)
  <2>1. DOMAIN attempts = 1 .. Len(attempts)
    BY <1>1
  <2> QED BY <2>1, TablesAre DEF Integrity, SelectLastInSeq, AttemptOwner
<1>6. ASSUME NEW s \in People
      PROVE  SummaryStatus(Tables, s) = PageStatus(Tables, s)
  <2>1. ScopeLatest(Tables, s) = (IF cfg.squad THEN Now ELSE OwnLatest(Tables, s))
    BY <1>1, ScopeLatestIs
  <2>2. OwnLatest(Tables, s) \in 0 .. Now
    BY <1>1, OwnLatestIs
  <2>3. cfg.squad /\ ~(ScopeLatest(Tables, s) > 0) => OwnLatest(Tables, s) = ScopeLatest(Tables, s)
    BY <1>2, <2>1, <2>2
  <2> QED BY <1>1, <2>1, <2>3, TablesAre DEF SummaryStatus, PageStatus
<1>7. ASSUME NEW s \in People, PageStatus(Tables, s) = "COMPLETED"
      PROVE  Cell(Tables, s) = "passed"
  <2> DEFINE k == ScopeLatest(Tables, s)
  <2>1. k \in 0 .. Now /\ k = (IF cfg.squad THEN Now ELSE OwnLatest(Tables, s))
    BY <1>1, ScopeLatestIs
  <2>2. k # 0 /\ subs[k].status = "COMPLETED"
    BY <1>7, TablesAre DEF PageStatus, StatusAt, NoStatus
  <2>3. cfg.squad \/ subs[k].by = s
    BY <1>1, <1>2, <2>1, <2>2, OwnLatestIs
  <2> HIDE DEF k
  <2>4. k \in 1 .. Now
    BY <1>2, <2>1, <2>2
  <2>5. s \in Covered(subs[k].by)
    BY <2>3 DEF Covered
  <2>6. grade[s] # Blank
    BY <2>2, <2>4, <2>5, GradedHere
  <2> QED BY <2>6, CellIs
<1>8. ASSUME NEW s \in People, Cell(Tables, s) = "waiting_partner"
      PROVE  WaitingFor(Tables, s) # {}
  <2>1. IsWaiting(Tables, s)
    BY <1>8, CellIs
  <2>2. cfg.squad /\ Now > 0 /\ subs[Now].status = "QUIZ_SENT" /\ s \in PassedIds(Tables, Now)
    BY <2>1, QuizShown
  <2>3. ScopeLatest(Tables, s) = Now
    BY <1>1, <2>2, ScopeLatestIs
  <2>4. PageStatus(Tables, s) = "QUIZ_SENT"
    BY <2>2, <2>3, TablesAre DEF PageStatus, StatusAt
  <2>5. WaitingFor(Tables, s) = People \ PassedIds(Tables, Now)
    BY <2>2, <2>3, <2>4, TablesAre DEF WaitingFor
  <2>6. PICK p \in People : ~HasPassed(attempts, Now, p)
    <3>1. IsAt("QUIZ_SENT") /\ Covered(Current.by) = People
      BY <2>2 DEF IsAt, Current, Covered
    <3> QED BY <3>1 DEF GradesInv, FlowInv, QuizOpen
  <2>7. p \notin PassedIds(Tables, Now)
    BY <2>6, TablesAre DEF PassedIds, HasPassed, ToSet
  <2> QED BY <2>5, <2>6, <2>7
<1>9. \A s \in People : IsPending(RosterRow(Tables, s)) => Cell(Tables, s) \in {"pending", "waiting_partner"}
  BY CellIs
<1> HIDE DEF GradesInv
<1> QED BY <1>3, <1>4, <1>5, <1>6, <1>7, <1>8, <1>9 DEF BooksAgree

\* The cards, the grid and the student's pages, computed apart, agree
\* (gradebook.compute_cached_stats, build_student_grid, student_portal).
THEOREM BooksAgreeAlways == Spec => []BooksAgree
BY GradesInvariant, BooksNow, PTL
=============================================================================
