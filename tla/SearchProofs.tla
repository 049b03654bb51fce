----------------------------- MODULE SearchProofs -----------------------------
(* What is looked for and where, for every value of the constants: matches,     *)
(* searches for supervisors, calls of a source, builds of the configuration.    *)
EXTENDS Seeking, LoopProofs, FiniteSetTheorems

-----------------------------------------------------------------------------
(* Matches: the ranking of postings.                                           *)

LEMMA QuotientFloor ==
  ASSUME NEW x \in Int, NEW L \in Nat \ {0}
  PROVE  x \div L \in Int /\ (x \div L) * L <= x /\ x < (x \div L) * L + L
OBVIOUS

LEMMA ProductOrder ==
  ASSUME NEW L \in Nat \ {0}, NEW k \in Int, NEW m \in Int
  PROVE  (k <= m => k * L <= m * L) /\ (k < m => k * L + L <= m * L) /\ k * L \in Int
OBVIOUS

LEMMA QuotientOrder ==
  ASSUME NEW x \in Int, NEW L \in Nat \ {0}, NEW k \in Int
  PROVE  k <= x \div L <=> k * L <= x
<1> DEFINE q == x \div L
<1>1. q \in Int /\ q * L <= x /\ x < q * L + L
  BY QuotientFloor
<1> HIDE DEF q
<1>2. k <= q => k * L <= q * L
  BY <1>1, ProductOrder
<1>3. q < k => q * L + L <= k * L
  BY <1>1, ProductOrder
<1>4. k * L \in Int /\ q * L \in Int
  BY <1>1, ProductOrder
<1>5. (k <= q) <=> k * L <= x
  BY <1>1, <1>2, <1>3, <1>4
<1> QED
  BY <1>5 DEF q

\* A larger number has no smaller quotient, and a multiple has its factor for one.
LEMMA QuotientMonotone ==
  ASSUME NEW x \in Int, NEW y \in Int, NEW L \in Nat \ {0}, x <= y
  PROVE  x \div L <= y \div L
<1> DEFINE q == x \div L
<1>1. q \in Int /\ q * L <= x
  BY QuotientFloor
<1> HIDE DEF q
<1>2. q * L \in Int
  BY <1>1, ProductOrder
<1>3. q * L <= y
  BY <1>1, <1>2
<1>4. q <= y \div L
  BY <1>1, <1>3, QuotientOrder
<1> QED
  BY <1>4 DEF q

LEMMA QuotientExact ==
  ASSUME NEW k \in Nat, NEW L \in Nat \ {0}
  PROVE  (k * L) \div L = k
<1> DEFINE q == (k * L) \div L
<1>1. k * L \in Int
  BY ProductOrder
<1>2. q \in Int /\ q * L <= k * L /\ k * L < q * L + L
  BY <1>1, QuotientFloor
<1> HIDE DEF q
<1>3. (k < q => k * L + L <= q * L) /\ (q < k => q * L + L <= k * L) /\ q * L \in Int
  BY <1>2, ProductOrder
<1>4. q = k
  BY <1>1, <1>2, <1>3
<1> QED
  BY <1>4 DEF q

LEMMA MatchingLoops ==
  ASSUME NEW s, NEW S
  PROVE  X!Among(s, S) = Among(s, S)
<1> QED
  BY DEF X!Among, X!Picked, Among, Picked

\* The list of places is as long as the scores, and begins with a place of the highest.
BestSteps(f, scores) ==
    /\ f[0] = <<>>
    /\ \A n \in 1 .. Len(scores) : LET ahead == {i \in 1 .. n : scores[i] >= scores[n]} IN
         f[n] = Append(Among(f[n - 1], ahead), n) \o Among(f[n - 1], (1 .. n) \ ahead)

LEMMA BestFirstSteps ==
  ASSUME NEW scores \in Seq(Int)
  PROVE  \E f \in [0 .. Len(scores) -> Seq(1 .. Len(scores))] : BestSteps(f, scores) /\ X!BestFirst(scores) = f[Len(scores)]
<1> DEFINE len == Len(scores)
           W == Seq(1 .. len)
           Ahead(n) == {i \in 1 .. n : scores[i] >= scores[n]}
           Next1(v, n) == Append(Among(v, Ahead(n)), n) \o Among(v, (1 .. n) \ Ahead(n))
           h == [n \in 1 .. len |-> [v \in W |-> Next1(v, n)]]
           G1 == CHOOSE f : f = [n \in 0 .. len |-> IF n = 0 THEN <<>> ELSE Next1(f[n - 1], n)]
<1>1. len \in Nat
  OBVIOUS
<1>2. ASSUME NEW n \in 1 .. len, NEW v \in W PROVE h[n][v] = Next1(v, n) /\ h[n][v] \in W
  <2>1. h[n][v] = Next1(v, n)
    OBVIOUS
  <2>2. Among(v, Ahead(n)) \in W /\ Among(v, (1 .. n) \ Ahead(n)) \in W
    <3> HIDE DEF Ahead, len
    <3> QED
      BY AmongItems
  <2> HIDE DEF h, Ahead, len
  <2>3. Next1(v, n) \in W
    BY <2>2
  <2> QED
    BY <2>1, <2>3
<1> HIDE DEF Next1
<1>3. PICK f \in [0 .. len -> W] : Follows(f, <<>>, len, h)
  <2>1. <<>> \in W
    OBVIOUS
  <2>2. Steps(h, len, W)
    <3> HIDE DEF h, W, len
    <3> QED
      BY <1>2 DEF Steps
  <2> HIDE DEF h, len, G1, W
  <2> QED
    BY <1>1, <2>1, <2>2, Recursion
<1> HIDE DEF h, G1, W, len
<1>4. ASSUME NEW n \in 1 .. len PROVE f[n] = Next1(f[n - 1], n)
  <2>1. f[n - 1] \in W
    BY <1>1
  <2> QED
    BY <1>2, <1>3, <2>1 DEF Follows
<1>5. f = [n \in 0 .. len |-> IF n = 0 THEN <<>> ELSE Next1(f[n - 1], n)]
  <2>1. ASSUME NEW n \in 0 .. len PROVE f[n] = IF n = 0 THEN <<>> ELSE Next1(f[n - 1], n)
    <3>1. CASE n = 0
      BY <1>3, <3>1 DEF Follows
    <3>2. CASE n # 0
      <4>1. n \in 1 .. len
        BY <1>1, <3>2
      <4> QED
        BY <1>4, <3>2, <4>1
    <3> QED
      BY <3>1, <3>2
  <2> QED
    BY <2>1
<1>6. G1 = [n \in 0 .. len |-> IF n = 0 THEN <<>> ELSE Next1(G1[n - 1], n)]
  BY <1>5 DEF G1
<1>7. G1[len] = f[len]
  <2>1. f[0] = G1[0]
    BY <1>1, <1>3, <1>6 DEF Follows
  <2>2. ASSUME NEW n \in 1 .. len, f[n - 1] = G1[n - 1] PROVE f[n] = G1[n]
    <3>1. n \in 0 .. len /\ n # 0
      BY <1>1
    <3>2. G1[n] = Next1(G1[n - 1], n)
      BY <1>6, <3>1
    <3> QED
      BY <1>4, <2>2, <3>2
  <2>3. \A n \in 0 .. len : f[n] = G1[n]
    <3>1. Alike(f, G1, len)
      BY <2>1, <2>2 DEF Alike
    <3> QED
      BY <1>1, <3>1, Agreement
  <2> QED
    BY <1>1, <2>3
<1>8. X!BestFirst(scores) = G1[len]
  BY MatchingLoops DEF X!BestFirst, G1, Next1, Ahead, len
<1>9. BestSteps(f, scores)
  BY <1>3, <1>4 DEF BestSteps, Follows, Next1, Ahead, len
<1> QED
  BY <1>3, <1>7, <1>8, <1>9 DEF len, W

LEMMA BestFirstIsBest ==
  ASSUME NEW scores \in Seq(Int)
  PROVE  /\ X!BestFirst(scores) \in Seq(1 .. Len(scores))
         /\ X!BestFirst(scores) # <<>> => \A i \in 1 .. Len(scores) : scores[i] <= scores[X!BestFirst(scores)[1]]
<1> DEFINE len == Len(scores)
           Top(v, n) == v \in Seq(1 .. n) /\ (n > 0 => v # <<>> /\ \A i \in 1 .. n : scores[i] <= scores[v[1]])
<1>1. PICK f \in [0 .. len -> Seq(1 .. len)] : BestSteps(f, scores) /\ X!BestFirst(scores) = f[len]
  BY BestFirstSteps
<1>2. len \in Nat /\ \A i \in 1 .. len : scores[i] \in Int
  OBVIOUS
<1> DEFINE T == {n \in Nat : n \in 0 .. len => Top(f[n], n)}
<1>3. 0 \in T
  BY <1>1 DEF BestSteps
<1>4. ASSUME NEW n \in Nat, n \in T PROVE n + 1 \in T
  <2> SUFFICES ASSUME n + 1 \in 0 .. len PROVE Top(f[n + 1], n + 1)
    BY <1>4
  <2> DEFINE ahead == {i \in 1 .. (n + 1) : scores[i] >= scores[n + 1]}
             a == Among(f[n], ahead)
             b == Among(f[n], (1 .. (n + 1)) \ ahead)
  <2>0. (n + 1) - 1 = n /\ n \in 0 .. len /\ n + 1 \in 1 .. len
    BY <1>2, <1>4
  <2>1. f[n + 1] = Append(a, n + 1) \o b
    BY <1>1, <2>0 DEF BestSteps, len
  <2>2. Top(f[n], n)
    BY <1>4, <2>0
  <2>3. f[n] \in Seq(1 .. n) /\ f[n] \in Seq(1 .. (n + 1))
    BY <2>2, Wider
  <2>4. a \in Seq(1 .. (n + 1)) /\ b \in Seq(1 .. (n + 1))
    <3> HIDE DEF ahead
    <3> QED
      BY <2>3, AmongItems
  <2>5. f[n + 1] \in Seq(1 .. (n + 1)) /\ f[n + 1] # <<>> /\ f[n + 1][1] = IF a = <<>> THEN n + 1 ELSE a[1]
    <3> HIDE DEF a, b
    <3> HIDE DEF ahead, Top, T
    <3>1. n + 1 \in 1 .. (n + 1)
      BY <1>4
    <3> DEFINE w == Append(a, n + 1)
    <3>2. w \in Seq(1 .. (n + 1)) /\ Len(w) > 0
      BY <2>4, <3>1
    <3>3. w[1] = IF a = <<>> THEN n + 1 ELSE a[1]
      BY <2>4, <3>1
    <3> HIDE DEF w
    <3>4. w \o b \in Seq(1 .. (n + 1)) /\ w \o b # <<>> /\ (w \o b)[1] = w[1]
      BY <2>4, <3>2
    <3> QED
      BY <2>1, <3>3, <3>4 DEF w
  <2>6. CASE n = 0
    <3>1. f[n] = <<>>
      BY <2>3, <2>6
    <3>2. Range(f[n]) \intersect ahead = {}
      BY <3>1 DEF Range
    <3>3. a = <<>>
      BY <2>3, <3>2, AmongItems
    <3> HIDE DEF a, b
    <3> QED
      BY <1>2, <2>0, <2>5, <2>6, <3>3
  <2>7. CASE n > 0
    <3>1. f[n] # <<>> /\ f[n][1] \in 1 .. n /\ \A i \in 1 .. n : scores[i] <= scores[f[n][1]]
      BY <2>2, <2>3, <2>7
    <3>2. CASE f[n][1] \in ahead
      <4>1. a # <<>> /\ a[1] = f[n][1]
        <5> HIDE DEF ahead, T, Top
        <5>1. Len(a) > 0 /\ a[1] = f[n][1]
          BY <2>3, <3>1, <3>2, AmongItems
        <5> HIDE DEF a, b
        <5> QED
          BY <2>4, <5>1
      <4>2. scores[n + 1] <= scores[f[n][1]]
        BY <1>2, <2>0, <3>1, <3>2
      <4>3. \A i \in 1 .. (n + 1) : scores[i] <= scores[f[n][1]]
        BY <3>1, <4>2
      <4> HIDE DEF a, b
      <4> QED
        BY <2>5, <4>1, <4>3
    <3>3. CASE f[n][1] \notin ahead
      <4>1. scores[f[n][1]] < scores[n + 1]
        BY <1>2, <2>0, <3>1, <3>3
      <4>2. ASSUME NEW i \in 1 .. n PROVE i \notin ahead /\ scores[i] <= scores[n + 1]
        <5>1. i \in 1 .. len /\ f[n][1] \in 1 .. len /\ scores[i] <= scores[f[n][1]]
          BY <1>2, <2>0, <3>1
        <5> QED
          BY <1>2, <2>0, <4>1, <5>1
      <4>3. Range(f[n]) \intersect ahead = {}
        <5> HIDE DEF ahead, T, Top
        <5>1. \A x \in DOMAIN f[n] : f[n][x] \in 1 .. n
          BY <2>3
        <5> QED
          BY <4>2, <5>1 DEF Range
      <4>4. a = <<>>
        BY <2>3, <4>3, AmongItems
      <4>5. \A i \in 1 .. (n + 1) : scores[i] <= scores[n + 1]
        BY <1>2, <2>0, <4>2
      <4> HIDE DEF a, b
      <4> QED
        BY <2>5, <4>4, <4>5
    <3> QED
      BY <3>2, <3>3
  <2> QED
    BY <2>6, <2>7
<1> HIDE DEF T
<1>5. len \in T
  BY <1>2, <1>3, <1>4, Induction
<1>6. Top(f[len], len)
  BY <1>2, <1>5 DEF T
<1>7. f[len] # <<>> => len > 0
  BY <1>2, <1>6
<1> QED
  BY <1>1, <1>2, <1>6, <1>7

\* A taxonomy of finitely many terms.
Finite(t) == IsFiniteSet(t.core) /\ IsFiniteSet(t.context)

LEMMA MatchingCounts ==
  ASSUME NEW S
  PROVE  X!Cardinality(S) = Cardinality(S)
BY DEF X!Cardinality, Cardinality

LEMMA NamedCounts ==
  ASSUME NEW terms, IsFiniteSet(terms), NEW o, NEW y \in Nat
  PROVE  /\ Cardinality(terms \intersect o.title) \in Nat
         /\ Cardinality(terms \intersect (o.text \union o.title)) \in Nat
         /\ X!Named(terms, o, 2 * y, y) = y * Cardinality(terms \intersect o.title) + y * Cardinality(terms \intersect (o.text \union o.title))
         /\ X!Named(terms, o, 2 * y, y) \in Nat
<1> DEFINE T == terms \intersect o.title
           R == terms \intersect (o.text \ o.title)
           B == terms \intersect (o.text \union o.title)
<1>1. IsFiniteSet(T) /\ IsFiniteSet(R) /\ Cardinality(T) \in Nat /\ Cardinality(R) \in Nat
  BY Fewer
<1>2. B = T \union R /\ T \intersect R = {}
  OBVIOUS
<1>3. Cardinality(B) = Cardinality(T) + Cardinality(R)
  <2>1. Cardinality({}) = 0
    BY FS_EmptySet
  <2> HIDE DEF T, R, B
  <2>2. Cardinality(T \union R) = Cardinality(T) + Cardinality(R) - Cardinality(T \intersect R)
    BY <1>1, FS_Union
  <2>3. Cardinality(B) = Cardinality(T \union R)
    BY <1>2, Zenon
  <2>4. Cardinality(T \intersect R) = 0
    BY <1>2, <2>1, Zenon
  <2> QED
    BY <1>1, <2>2, <2>3, <2>4
<1>4. X!Named(terms, o, 2 * y, y) = 2 * y * Cardinality(T) + y * Cardinality(R)
  BY MatchingCounts DEF X!Named
<1> HIDE DEF T, R, B
<1>5. \A t \in Nat, r \in Nat : 2 * y * t + y * r = y * t + y * (t + r) /\ 2 * y * t + y * r \in Nat /\ t + r \in Nat
  OBVIOUS
<1>6. X!Named(terms, o, 2 * y, y) = y * Cardinality(T) + y * Cardinality(B) /\ X!Named(terms, o, 2 * y, y) \in Nat /\ Cardinality(B) \in Nat
  BY <1>1, <1>3, <1>4, <1>5
<1> QED
  BY <1>1, <1>6 DEF T, B

\* Naming more is no less relevant.
LEMMA RelevanceOrder ==
  ASSUME NEW t, Finite(t), NEW less, NEW o, less.title \subseteq o.title, less.text \subseteq o.text \union o.title
  PROVE  X!TopicScore(t, less) \in Nat /\ X!TopicScore(t, o) \in Nat /\ X!TopicScore(t, less) <= X!TopicScore(t, o)
<1> DEFINE c(q) == Cardinality(t.core \intersect q.title)
           d(q) == Cardinality(t.core \intersect (q.text \union q.title))
           e(q) == Cardinality(t.context \intersect q.title)
           g(q) == Cardinality(t.context \intersect (q.text \union q.title))
           Sum(q) == (5 * c(q) + 5 * d(q)) + (1 * e(q) + 1 * g(q))
<1>1. IsFiniteSet(t.core) /\ IsFiniteSet(t.context)
  BY DEF Finite
<1>2. ASSUME NEW q PROVE X!ScoreRelevance(t, q) = Sum(q) /\ c(q) \in Nat /\ d(q) \in Nat /\ e(q) \in Nat /\ g(q) \in Nat
  <2>1. X!Named(t.core, q, 10, 5) = 5 * c(q) + 5 * d(q) /\ c(q) \in Nat /\ d(q) \in Nat
    <3>1. 2 * 5 = 10
      OBVIOUS
    <3> QED
      BY <1>1, <3>1, NamedCounts
  <2>2. X!Named(t.context, q, 2, 1) = 1 * e(q) + 1 * g(q) /\ e(q) \in Nat /\ g(q) \in Nat
    <3>1. 2 * 1 = 2
      OBVIOUS
    <3> QED
      BY <1>1, <3>1, NamedCounts
  <2> QED
    BY <2>1, <2>2 DEF X!ScoreRelevance
<1>3. c(less) <= c(o) /\ d(less) <= d(o) /\ e(less) <= e(o) /\ g(less) <= g(o)
  <2>1. t.core \intersect less.title \subseteq t.core \intersect o.title /\ t.context \intersect less.title \subseteq t.context \intersect o.title
         /\ t.core \intersect (less.text \union less.title) \subseteq t.core \intersect (o.text \union o.title)
         /\ t.context \intersect (less.text \union less.title) \subseteq t.context \intersect (o.text \union o.title)
    OBVIOUS
  <2>2. IsFiniteSet(t.core \intersect o.title) /\ IsFiniteSet(t.context \intersect o.title)
         /\ IsFiniteSet(t.core \intersect (o.text \union o.title)) /\ IsFiniteSet(t.context \intersect (o.text \union o.title))
    BY <1>1, Fewer
  <2> QED
    BY <2>1, <2>2, Fewer
<1>4. less.title \union less.text # {} => o.title \union o.text # {}
  OBVIOUS
<1> HIDE DEF c, d, e, g
<1>5. X!ScoreRelevance(t, less) \in Nat /\ X!ScoreRelevance(t, o) \in Nat /\ X!ScoreRelevance(t, less) <= X!ScoreRelevance(t, o)
  BY <1>2, <1>3
<1>6. \A q : X!TopicScore(t, q) = IF q.title \union q.text = {} THEN 0 ELSE
                 IF 1000 < 50 * X!ScoreRelevance(t, q) THEN 1000 ELSE 50 * X!ScoreRelevance(t, q)
  BY DEF X!TopicScore, X!Least
<1> QED
  BY <1>4, <1>5, <1>6

LEMMA MethodOrder ==
  ASSUME NEW p \in Seekers, NEW less, NEW o, X!Hay(less) \subseteq X!Hay(o)
  PROVE  X!MethodScore(p, less) \in Int /\ X!MethodScore(p, o) \in Int /\ X!MethodScore(p, less) <= X!MethodScore(p, o)
<1> DEFINE ms == X!Methods(p)
           n == Cardinality(ms)
           c(q) == Cardinality(ms \intersect X!Hay(q))
<1>1. IsFiniteSet(ms)
  BY MatchingAssumption, FS_Union DEF X!Methods
<1>2. CASE ms = {}
  BY <1>2 DEF X!MethodScore, X!NEUTRAL
<1>3. CASE ms # {}
  <2>1. n \in Nat \ {0}
    BY <1>1, <1>3, FS_CardinalityType, FS_EmptySet
  <2>2. ASSUME NEW q PROVE X!MethodScore(p, q) = (1000 * c(q)) \div n
    BY <1>3, MatchingCounts DEF X!MethodScore
  <2>3. c(less) \in Nat /\ c(o) \in Nat /\ c(less) <= c(o)
    <3>1. ms \intersect X!Hay(less) \subseteq ms \intersect X!Hay(o) /\ IsFiniteSet(ms \intersect X!Hay(o))
      BY <1>1, Fewer
    <3> QED
      BY <3>1, Fewer
  <2> HIDE DEF c, n, ms
  <2>4. 1000 * c(less) \in Int /\ 1000 * c(o) \in Int /\ 1000 * c(less) <= 1000 * c(o)
    BY <2>3
  <2> QED
    BY <2>1, <2>2, <2>4, QuotientMonotone, QuotientFloor
<1> QED
  BY <1>2, <1>3

LEMMA OverallOrder ==
  ASSUME NEW p \in Seekers, NEW t, Finite(t), NEW less, NEW o, less.title \subseteq o.title, less.text \subseteq o.text \union o.title,
         X!Hay(less) \subseteq X!Hay(o), X!LocationScore(p, less) <= X!LocationScore(p, o)
  PROVE  X!Overall(p, t, less) \in Int /\ X!Overall(p, t, o) \in Int /\ X!Overall(p, t, less) <= X!Overall(p, t, o)
<1>1. X!LocationScore(p, less) \in Int /\ X!LocationScore(p, o) \in Int
  BY DEF X!LocationScore, X!NEUTRAL
<1>2. X!TopicScore(t, less) \in Nat /\ X!TopicScore(t, o) \in Nat /\ X!TopicScore(t, less) <= X!TopicScore(t, o)
  BY RelevanceOrder
<1>3. X!MethodScore(p, less) \in Int /\ X!MethodScore(p, o) \in Int /\ X!MethodScore(p, less) <= X!MethodScore(p, o)
  BY MethodOrder
<1> DEFINE S(q) == 5 * X!TopicScore(t, q) + 3 * X!MethodScore(p, q) + 2 * X!LocationScore(p, q)
<1>4. S(less) \in Int /\ S(o) \in Int /\ S(less) <= S(o)
  BY <1>1, <1>2, <1>3
<1>5. X!Overall(p, t, less) = S(less) \div 10 /\ X!Overall(p, t, o) = S(o) \div 10
  BY DEF X!Overall
<1> HIDE DEF S
<1> QED
  BY <1>4, <1>5, QuotientMonotone, QuotientFloor

LEMMA PercentileOrder ==
  ASSUME NEW scores \in Seq(Int), scores # <<>>, NEW x \in Int, NEW y \in Int, x <= y
  PROVE  /\ X!Percentile(scores, x) \in Int /\ X!Percentile(scores, y) \in Int
         /\ X!Percentile(scores, x) <= X!Percentile(scores, y)
         /\ (\A i \in DOMAIN scores : scores[i] <= y) => X!Percentile(scores, y) = 100
<1> DEFINE n == Len(scores)
           Below(z) == {i \in DOMAIN scores : scores[i] <= z}
           c(z) == Cardinality(Below(z))
<1>1. n \in Nat \ {0} /\ DOMAIN scores = 1 .. n /\ \A i \in DOMAIN scores : scores[i] \in Int
  OBVIOUS
<1>2. IsFiniteSet(1 .. n) /\ Cardinality(1 .. n) = n
  BY <1>1, FS_Interval
<1>3. ASSUME NEW z \in Int PROVE X!Percentile(scores, z) = (100 * c(z)) \div n /\ c(z) \in Nat /\ 100 * c(z) \in Int
  <2>1. X!Percentile(scores, z) = (100 * c(z)) \div n
    BY MatchingCounts DEF X!Percentile
  <2>2. c(z) \in Nat
    BY <1>1, <1>2, Fewer
  <2> HIDE DEF c, n
  <2> QED
    BY <2>1, <2>2
<1>4. c(x) <= c(y)
  <2>1. Below(x) \subseteq Below(y)
    BY <1>1
  <2>2. IsFiniteSet(Below(y))
    BY <1>1, <1>2, Fewer
  <2> HIDE DEF Below
  <2> QED
    BY <2>1, <2>2, Fewer
<1>5. ASSUME \A i \in DOMAIN scores : scores[i] <= y PROVE c(y) = n
  <2>1. Below(y) = 1 .. n
    BY <1>1, <1>5
  <2> HIDE DEF Below
  <2> QED
    BY <1>2, <2>1
<1> HIDE DEF c, n
<1>6. (100 * n) \div n = 100
  BY <1>1, QuotientExact
<1>7. 100 * c(x) <= 100 * c(y)
  BY <1>3, <1>4
<1>8. (100 * c(x)) \div n \in Int /\ (100 * c(y)) \div n \in Int /\ (100 * c(x)) \div n <= (100 * c(y)) \div n
  BY <1>1, <1>3, <1>7, QuotientMonotone, QuotientFloor
<1> HIDE DEF Below
<1>9. (\A i \in DOMAIN scores : scores[i] <= y) => X!Percentile(scores, y) = 100
  BY <1>3, <1>5, <1>6
<1> QED
  BY <1>3, <1>8, <1>9

\* A list made with a finite taxonomy is fair.
LEMMA RankedIsFair ==
  ASSUME matched \in Seekers, NEW t, Finite(t), matches = X!Ranked(matched, t)
  PROVE  X!NamingMoreNeverCosts /\ X!PercentilesRank
<1> DEFINE scores == [i \in DOMAIN Offers |-> X!Overall(matched, t, Offers[i])]
           best == X!BestFirst(scores)
<1>1. Offers \in Seq({Offers[i] : i \in DOMAIN Offers}) /\ DOMAIN Offers = 1 .. Len(Offers) /\ Len(Offers) \in Nat
  BY MatchingAssumption DEF IsList
<1>2. ASSUME NEW i \in DOMAIN Offers PROVE scores[i] \in Int /\ scores[i] = X!Overall(matched, t, Offers[i])
  <2>1. X!LocationScore(matched, Offers[i]) \in Int
    BY DEF X!LocationScore, X!NEUTRAL
  <2> QED
    BY <2>1, OverallOrder
<1>3. scores \in Seq(Int) /\ Len(scores) = Len(Offers) /\ DOMAIN scores = DOMAIN Offers
  BY <1>1, <1>2
<1>4. best \in Seq(1 .. Len(Offers)) /\ (best # <<>> => \A i \in 1 .. Len(Offers) : scores[i] <= scores[best[1]])
  <2> HIDE DEF scores
  <2> QED
    BY <1>3, BestFirstIsBest
<1>5. matches = [k \in DOMAIN best |-> [posting |-> best[k], score |-> scores[best[k]], percentile |-> X!Percentile(scores, scores[best[k]]),
                               missing |-> X!MissingMethods(matched, Offers[best[k]])]]
  BY DEF X!Ranked
<1>6. ASSUME NEW k \in DOMAIN matches
      PROVE  /\ k \in DOMAIN best /\ best[k] \in DOMAIN Offers /\ best # <<>> /\ scores # <<>> /\ 1 \in DOMAIN matches
             /\ matches[k].posting = best[k]
             /\ matches[k].score = scores[best[k]]
             /\ matches[k].percentile = X!Percentile(scores, scores[best[k]])
  <2> HIDE DEF scores, best
  <2>1. k \in DOMAIN best /\ best[k] \in 1 .. Len(Offers) /\ best # <<>> /\ 1 \in DOMAIN best
    BY <1>4, <1>5
  <2>2. scores # <<>>
    BY <1>1, <1>3, <2>1
  <2> QED
    BY <1>1, <1>5, <2>1, <2>2
<1>7. X!NamingMoreNeverCosts
  <2> SUFFICES ASSUME NEW k \in DOMAIN matches, NEW j \in DOMAIN matches,
                      LET o == Offers[matches[k].posting]
                          less == Offers[matches[j].posting]
                      IN less.title \subseteq o.title /\ less.text \subseteq o.text \union o.title /\ X!Hay(less) \subseteq X!Hay(o)
                           /\ X!LocationScore(matched, less) <= X!LocationScore(matched, o)
               PROVE  matches[k].score >= matches[j].score
    BY DEF X!NamingMoreNeverCosts
  <2>1. X!Overall(matched, t, Offers[best[k]]) \in Int /\ X!Overall(matched, t, Offers[best[j]]) \in Int
         /\ X!Overall(matched, t, Offers[best[j]]) <= X!Overall(matched, t, Offers[best[k]])
    <3> HIDE DEF scores, best
    <3> QED
      BY <1>6, OverallOrder
  <2>2. matches[k].score = X!Overall(matched, t, Offers[best[k]]) /\ matches[j].score = X!Overall(matched, t, Offers[best[j]])
    <3> HIDE DEF scores, best
    <3> QED
      BY <1>2, <1>6
  <2> HIDE DEF scores, best
  <2> QED
    BY <2>1, <2>2
<1>8. X!PercentilesRank
  <2> HIDE DEF scores, best
  <2> SUFFICES ASSUME NEW k \in DOMAIN matches, NEW j \in DOMAIN matches
               PROVE  /\ matches[k].score = matches[j].score => matches[k].percentile = matches[j].percentile
                      /\ matches[k].score > matches[j].score => matches[k].percentile >= matches[j].percentile
                      /\ matches[1].percentile = 100
    BY DEF X!PercentilesRank
  <2>1. scores[best[k]] \in Int /\ scores[best[j]] \in Int /\ scores # <<>>
    BY <1>2, <1>6
  <2>2. matches[k].score = matches[j].score => matches[k].percentile = matches[j].percentile
    BY <1>6
  <2>3. matches[k].score > matches[j].score => matches[k].percentile >= matches[j].percentile
    <3> SUFFICES ASSUME matches[k].score > matches[j].score PROVE matches[k].percentile >= matches[j].percentile
      OBVIOUS
    <3>1. scores[best[j]] <= scores[best[k]]
      BY <1>6, <2>1
    <3>2. /\ X!Percentile(scores, scores[best[j]]) \in Int /\ X!Percentile(scores, scores[best[k]]) \in Int
          /\ X!Percentile(scores, scores[best[j]]) <= X!Percentile(scores, scores[best[k]])
      BY <1>3, <2>1, <3>1, PercentileOrder
    <3> QED
      BY <1>6, <3>2
  <2>4. matches[1].percentile = 100
    <3>1. 1 \in DOMAIN matches /\ best # <<>>
      BY <1>6
    <3>2. best[1] \in DOMAIN Offers /\ matches[1].percentile = X!Percentile(scores, scores[best[1]])
      BY <1>6, <3>1
    <3>3. scores[best[1]] \in Int /\ \A i \in DOMAIN scores : scores[i] <= scores[best[1]]
      BY <1>1, <1>2, <1>3, <1>4, <3>1, <3>2
    <3>4. scores[best[1]] <= scores[best[1]]
      BY <3>3
    <3>5. X!Percentile(scores, scores[best[1]]) = 100
      <4> DEFINE y == scores[best[1]]
      <4>1. y \in Int /\ y <= y /\ \A i \in DOMAIN scores : scores[i] <= y
        BY <3>3, <3>4
      <4> HIDE DEF y
      <4>2. X!Percentile(scores, y) = 100
        BY <1>3, <2>1, <4>1, PercentileOrder
      <4> QED
        BY <4>2 DEF y
    <3> QED
      BY <3>2, <3>5
  <2> QED
    BY <2>2, <2>3, <2>4
<1> QED
  BY <1>7, <1>8

\* What the list is made of, and that its pages go on.
MatchInv ==
    /\ matched \in Seekers
    /\ \A k \in DOMAIN mini : Finite(mini[k])
    /\ matches = <<>> \/ \E t : Finite(t) /\ matches = X!Ranked(matched, t)
    /\ asked = <<>> \/ \E field \in Fields \union {"none"}, least \in Thresholds : asked = <<field, least>> /\ X!IsPrefix(shown, X!Wanted(field, least))
    /\ \E S : shown \in Seq(S) /\ matches \in Seq(S)

LEMMA CompiledIsFinite ==
  ASSUME NEW p \in Seekers
  PROVE  Finite(X!Compiled(p)) /\ ((\A k \in DOMAIN mini : Finite(mini[k])) => Finite(X!Taxonomy(p)))
<1>1. Finite(X!Compiled(p))
  <2>1. IsFiniteSet(p.domain) /\ IsFiniteSet(p.skills) /\ IsFiniteSet(p.methods) /\ IsFiniteSet(p.tools)
    BY MatchingAssumption DEF IsList
  <2>2. IsFiniteSet((p.skills \union p.methods) \union p.tools)
    BY <2>1, FS_Union
  <2>3. X!Compiled(p) = [core |-> p.domain, context |-> (p.skills \union p.methods) \union p.tools]
    BY DEF X!Compiled
  <2> QED
    BY <2>1, <2>2, <2>3 DEF Finite
<1> QED
  BY <1>1 DEF X!Taxonomy

LEMMA RankedIsList ==
  ASSUME NEW p, NEW t, Finite(t), p \in Seekers
  PROVE  \E S : X!Ranked(p, t) \in Seq(S) /\ <<>> \in Seq(S)
<1> DEFINE scores == [i \in DOMAIN Offers |-> X!Overall(p, t, Offers[i])]
           best == X!BestFirst(scores)
<1>1. DOMAIN Offers = 1 .. Len(Offers) /\ Len(Offers) \in Nat
  BY MatchingAssumption DEF IsList
<1>2. ASSUME NEW i \in DOMAIN Offers PROVE scores[i] \in Int
  <2>1. X!LocationScore(p, Offers[i]) \in Int
    BY DEF X!LocationScore, X!NEUTRAL
  <2> QED
    BY <2>1, OverallOrder
<1>3. scores \in Seq(Int)
  BY <1>1, <1>2
<1>4. best \in Seq(1 .. Len(scores))
  <2> HIDE DEF scores
  <2> QED
    BY <1>3, BestFirstIsBest
<1> DEFINE R(k) == [posting |-> best[k], score |-> scores[best[k]], percentile |-> X!Percentile(scores, scores[best[k]]),
                    missing |-> X!MissingMethods(p, Offers[best[k]])]
           S == {R(k) : k \in DOMAIN best}
<1>5. X!Ranked(p, t) = [k \in DOMAIN best |-> R(k)]
  BY DEF X!Ranked
<1> HIDE DEF scores, best, R
<1>6. [k \in DOMAIN best |-> R(k)] \in Seq(S)
  BY <1>4
<1> QED
  BY <1>5, <1>6

LEMMA WantedIsList ==
  ASSUME NEW S, matches \in Seq(S), NEW field, NEW least
  PROVE  /\ X!Wanted(field, least) \in Seq(S)
         /\ field # "none" /\ FieldKeywords[field] = {} => X!Wanted(field, least) = <<>>
<1> DEFINE those == {m \in X!Range(matches) : (field = "none" \/ X!HitsField(Offers[m.posting], field)) /\ m.score >= least}
<1>1. X!Wanted(field, least) = Among(matches, those)
  BY MatchingLoops DEF X!Wanted
<1>2. field # "none" /\ FieldKeywords[field] = {} => those = {}
  BY DEF X!HitsField
<1> HIDE DEF those
<1>3. those = {} => Range(matches) \intersect those = {}
  OBVIOUS
<1> QED
  BY <1>1, <1>2, <1>3, AmongItems

LEMMA PrefixGoesOn ==
  ASSUME NEW S, NEW u \in Seq(S), NEW w \in Seq(S), X!IsPrefix(u, w), NEW L \in Nat
  PROVE  LET v == u \o SubSeq(w, Len(u) + 1, X!Least(Len(u) + L, Len(w))) IN v \in Seq(S) /\ X!IsPrefix(v, w)
<1> DEFINE n == Len(u)
           m == X!Least(Len(u) + L, Len(w))
           v == u \o SubSeq(w, n + 1, m)
<1>1. n \in Nat /\ n <= Len(w) /\ Len(w) \in Nat /\ SubSeq(u, 1, n) = SubSeq(w, 1, n)
  BY DEF X!IsPrefix
<1>2. m \in n .. Len(w)
  BY <1>1 DEF X!Least
<1> HIDE DEF m
<1>3. \A i \in 1 .. n : u[i] = w[i]
  <2> SUFFICES ASSUME NEW i \in 1 .. n PROVE u[i] = w[i]
    OBVIOUS
  <2>1. SubSeq(u, 1, n)[i] = u[i] /\ SubSeq(w, 1, n)[i] = w[i]
    BY <1>1
  <2> QED
    BY <1>1, <2>1
<1>4. SubSeq(w, n + 1, m) \in Seq(S) /\ Len(SubSeq(w, n + 1, m)) = m - n /\ \A i \in 1 .. (m - n) : SubSeq(w, n + 1, m)[i] = w[n + i]
  <2>1. SubSeq(w, n + 1, m) = [i \in 1 .. (m - n) |-> w[n + i]]
    BY <1>1, <1>2
  <2>2. \A i \in 1 .. (m - n) : w[n + i] \in S /\ m - n \in Nat
    BY <1>1, <1>2
  <2> QED
    BY <1>1, <1>2, <2>1, <2>2
<1>5. v \in Seq(S) /\ Len(v) = m /\ \A i \in 1 .. m : v[i] = w[i]
  <2> DEFINE x == SubSeq(w, n + 1, m)
  <2>1. x \in Seq(S) /\ Len(x) = m - n /\ \A i \in 1 .. (m - n) : x[i] = w[n + i]
    BY <1>4
  <2> HIDE DEF x
  <2>2. u \o x \in Seq(S) /\ Len(u \o x) = m
    BY <1>1, <1>2, <2>1
  <2>3. ASSUME NEW i \in 1 .. m PROVE (u \o x)[i] = w[i]
    <3>1. CASE i <= n
      BY <1>1, <1>2, <1>3, <2>1, <3>1
    <3>2. CASE i > n
      <4>1. i - n \in 1 .. (m - n) /\ n + (i - n) = i /\ i \in 1 .. (n + Len(x)) /\ ~(i <= n)
        BY <1>1, <1>2, <2>1, <3>2
      <4>2. (u \o x)[i] = x[i - n]
        BY <1>1, <2>1, <4>1
      <4> QED
        BY <2>1, <4>1, <4>2
    <3>3. i <= n \/ i > n
      BY <1>1, <1>2
    <3> QED
      BY <3>1, <3>2, <3>3
  <2> QED
    BY <2>2, <2>3 DEF x
<1> HIDE DEF v
<1>6. SubSeq(v, 1, m) = SubSeq(w, 1, m)
  BY <1>1, <1>2, <1>5
<1>7. v \in Seq(S) /\ X!IsPrefix(v, w)
  BY <1>1, <1>2, <1>5, <1>6 DEF X!IsPrefix
<1> QED
  BY <1>7 DEF v, m

LEMMA MatchInit == ASSUME X!Init PROVE MatchInv
<1> QED
  BY DEF X!Init, MatchInv

LEMMA MatchCompute ==
  ASSUME MatchInv, NEW p \in Seekers, X!ComputeMatches(p)
  PROVE  MatchInv'
<1>0. Finite(X!Compiled(p)) /\ Finite(X!Taxonomy(p))
  BY CompiledIsFinite DEF MatchInv
<1>1. matched' \in Seekers
  BY DEF X!ComputeMatches
<1>2. (\A k \in DOMAIN mini : Finite(mini[k]))'
  <2>1. mini' = [k \in DOMAIN mini \union {X!KeyOf(p)} |-> IF k \in DOMAIN mini THEN mini[k] ELSE X!Compiled(p)]
    BY DEF X!ComputeMatches
  <2>2. \A k \in DOMAIN mini : Finite(mini[k])
    BY DEF MatchInv
  <2> SUFFICES ASSUME NEW k \in DOMAIN mini' PROVE Finite(mini'[k])
    BY DEF Finite
  <2> QED
    BY <1>0, <2>1, <2>2
<1>3. (matches = <<>> \/ \E t : Finite(t) /\ matches = X!Ranked(matched, t))'
  <2>1. PICK t : t = X!Taxonomy(p)
    OBVIOUS
  <2>2. Finite(t) /\ matches' = X!Ranked(p, t) /\ matched' = p
    BY <1>0, <2>1 DEF X!ComputeMatches
  <2> QED
    BY <2>2
<1>4. asked' = <<>>
  BY DEF X!ComputeMatches
<1>5. (\E S : shown \in Seq(S) /\ matches \in Seq(S))'
  <2>1. matches' = X!Ranked(p, X!Taxonomy(p)) /\ shown' = <<>>
    BY DEF X!ComputeMatches
  <2> QED
    BY <1>0, <2>1, RankedIsList
<1> QED
  BY <1>1, <1>2, <1>3, <1>4, <1>5 DEF MatchInv

LEMMA MatchList ==
  ASSUME MatchInv, X!ListMatches
  PROVE  MatchInv'
<1>1. PICK field \in Fields \union {"none"}, least \in Thresholds :
        LET sofar == IF asked = <<field, least>> THEN shown ELSE <<>> IN
           /\ asked = <<>> \/ asked = <<field, least>>
           /\ asked' = <<field, least>>
           /\ shown' = sofar \o SubSeq(X!Wanted(field, least), Len(sofar) + 1, X!Least(Len(sofar) + ListPage, Len(X!Wanted(field, least))))
  BY DEF X!ListMatches
<1>2. UNCHANGED <<mini, matched, matches>>
  BY DEF X!ListMatches
<1>3. PICK S : shown \in Seq(S) /\ matches \in Seq(S)
  BY DEF MatchInv
<1> DEFINE sofar == IF asked = <<field, least>> THEN shown ELSE <<>>
           w == X!Wanted(field, least)
<1>4. w \in Seq(S) /\ sofar \in Seq(S)
  BY <1>3, WantedIsList
<1>5. X!IsPrefix(sofar, w)
  <2>1. CASE asked = <<field, least>>
    <3>1. PICK f \in Fields \union {"none"}, l \in Thresholds : asked = <<f, l>> /\ X!IsPrefix(shown, X!Wanted(f, l))
      BY <2>1 DEF MatchInv
    <3>2. f = field /\ l = least
      BY <2>1, <3>1
    <3> QED
      BY <2>1, <3>1, <3>2
  <2>2. CASE asked # <<field, least>>
    <3>1. sofar = <<>>
      BY <2>2
    <3> HIDE DEF sofar, w
    <3>2. Len(w) \in Nat /\ SubSeq(<<>>, 1, 0) = SubSeq(w, 1, 0)
      BY <1>4
    <3> QED
      BY <3>1, <3>2 DEF X!IsPrefix
  <2> QED
    BY <2>1, <2>2
<1>6. shown' \in Seq(S) /\ X!IsPrefix(shown', w)
  <2>1. shown' = sofar \o SubSeq(w, Len(sofar) + 1, X!Least(Len(sofar) + ListPage, Len(w)))
    BY <1>1
  <2> HIDE DEF sofar, w
  <2> QED
    BY <1>4, <1>5, <2>1, MatchingAssumption, PrefixGoesOn
<1>7. X!Wanted(field, least)' = w
  BY <1>2 DEF X!Wanted, X!HitsField
<1>8. (X!IsPrefix(shown, X!Wanted(field, least)))'
  BY <1>6, <1>7 DEF X!IsPrefix
<1>9. (asked = <<>> \/ \E f \in Fields \union {"none"}, l \in Thresholds : asked = <<f, l>> /\ X!IsPrefix(shown, X!Wanted(f, l)))'
  BY <1>1, <1>8
<1>10. (\E Q1 : shown \in Seq(Q1) /\ matches \in Seq(Q1))'
  BY <1>2, <1>3, <1>6
<1>11. (matched \in Seekers)' /\ (\A k \in DOMAIN mini : Finite(mini[k]))'
  BY <1>2 DEF MatchInv
<1>12. (matches = <<>> \/ \E t : Finite(t) /\ matches = X!Ranked(matched, t))'
  BY <1>2 DEF MatchInv
<1> QED
  BY <1>9, <1>10, <1>11, <1>12 DEF MatchInv

LEMMA MatchStutter ==
  ASSUME MatchInv, UNCHANGED matching
  PROVE  MatchInv'
<1>1. UNCHANGED <<mini, matched, matches, shown, asked>>
  BY DEF matching
<1>2. (asked = <<>> \/ \E f \in Fields \union {"none"}, l \in Thresholds : asked = <<f, l>> /\ X!IsPrefix(shown, X!Wanted(f, l)))'
  <2>1. CASE asked = <<>>
    BY <1>1, <2>1
  <2>2. CASE asked # <<>>
    <3>1. PICK f \in Fields \union {"none"}, l \in Thresholds : asked = <<f, l>> /\ X!IsPrefix(shown, X!Wanted(f, l))
      BY <2>2 DEF MatchInv
    <3>2. X!Wanted(f, l)' = X!Wanted(f, l)
      BY <1>1 DEF X!Wanted, X!HitsField
    <3> QED
      BY <1>1, <3>1, <3>2
  <2> QED
    BY <2>1, <2>2
<1>3. (matched \in Seekers)' /\ (\A k \in DOMAIN mini : Finite(mini[k]))' /\ (\E S : shown \in Seq(S) /\ matches \in Seq(S))'
  BY <1>1 DEF MatchInv
<1>4. (matches = <<>> \/ \E t : Finite(t) /\ matches = X!Ranked(matched, t))'
  BY <1>1 DEF MatchInv
<1> QED
  BY <1>2, <1>3, <1>4 DEF MatchInv

LEMMA MatchFair ==
  ASSUME MatchInv
  PROVE  X!RankingIsFair
<1>1. X!NamingMoreNeverCosts /\ X!PercentilesRank
  <2>1. CASE matches = <<>>
    BY <2>1 DEF X!NamingMoreNeverCosts, X!PercentilesRank
  <2>2. CASE matches # <<>>
    <3>1. PICK t : Finite(t) /\ matches = X!Ranked(matched, t)
      BY <2>2 DEF MatchInv
    <3> QED
      BY <3>1, RankedIsFair DEF MatchInv
  <2> QED
    BY <2>1, <2>2
<1>2. X!PagesShowAll
  <2> SUFFICES ASSUME asked # <<>>
               PROVE  /\ X!IsPrefix(shown, X!Wanted(asked[1], asked[2]))
                      /\ asked[1] # "none" /\ FieldKeywords[asked[1]] = {} => shown = <<>>
    BY DEF X!PagesShowAll
  <2>1. PICK f \in Fields \union {"none"}, l \in Thresholds : asked = <<f, l>> /\ X!IsPrefix(shown, X!Wanted(f, l))
    BY DEF MatchInv
  <2>2. asked[1] = f /\ asked[2] = l
    BY <2>1
  <2>3. PICK S : shown \in Seq(S) /\ matches \in Seq(S)
    BY DEF MatchInv
  <2>4. ASSUME f # "none", FieldKeywords[f] = {} PROVE shown = <<>>
    <3>1. X!Wanted(f, l) = <<>>
      BY <2>3, <2>4, WantedIsList
    <3>2. Len(shown) <= 0
      BY <2>1, <3>1 DEF X!IsPrefix
    <3> QED
      BY <2>3, <3>2
  <2> QED
    BY <2>1, <2>2, <2>4
<1> QED
  BY <1>1, <1>2 DEF X!RankingIsFair

-----------------------------------------------------------------------------
(* Supervisors: candidates and what is saved of them.                          *)

LEMMA SupervisorsLoops ==
  ASSUME NEW s, NEW S
  PROVE  V!Among(s, S) = Among(s, S)
BY DEF V!Among, V!Picked, Among, Picked

LEMMA SupervisorsCounts ==
  ASSUME NEW S
  PROVE  V!Cardinality(S) = Cardinality(S)
BY DEF V!Cardinality, Cardinality

\* What a page delivers: its papers, each once.
LEMMA SortedOnce ==
  ASSUME NEW S, S \subseteq DOMAIN Papers
  PROVE  V!Sorted(S) \in Seq(DOMAIN Papers) /\ Range(V!Sorted(S)) = S /\ NoRepeats(V!Sorted(S))
<1> DEFINE n == Len(Papers)
           down == [i \in DOMAIN Papers |-> (n + 1) - i]
<1>1. DOMAIN Papers = 1 .. n /\ n \in Nat
  BY SupervisorsAssumption DEF IsList
<1>2. down \in Seq(1 .. n) /\ Len(down) = n /\ \A i \in 1 .. n : down[i] = (n + 1) - i /\ (n + 1) - i \in 1 .. n /\ down[(n + 1) - i] = i
  BY <1>1
<1>3. V!Sorted(S) = Among(down, S)
  BY SupervisorsLoops DEF V!Sorted
<1> HIDE DEF down, n
<1>4. NoRepeats(down)
  BY <1>1, <1>2 DEF NoRepeats
<1>5. Range(down) = 1 .. n
  <2>1. DOMAIN down = 1 .. n
    BY <1>1, <1>2
  <2> QED
    BY <1>2, <2>1 DEF Range
<1>6. Among(down, S) \in Seq(1 .. n) /\ Range(Among(down, S)) = Range(down) \intersect S
  BY <1>2, AmongItems
<1>7. NoRepeats(Among(down, S))
  BY <1>2, <1>4, AmongDistinct
<1> QED
  BY <1>1, <1>3, <1>5, <1>6, <1>7

\* Where an author stands in a list of papers, each paper by its number.
Own(ds, a) == {<<ds[i], j>> : i \in DOMAIN ds, j \in 1 .. MaxAuthors} \intersect
    {x \in (DOMAIN Papers) \X (1 .. MaxAuthors) : x[2] <= Len(Papers[x[1]]) /\ Papers[x[1]][x[2]].who = a}

LEMMA PairsAreFinite ==
  ASSUME NEW n \in Nat, NEW m \in Nat
  PROVE  IsFiniteSet((1 .. n) \X (1 .. m))
<1>1. IsFiniteSet(1 .. n) /\ IsFiniteSet(1 .. m)
  BY FS_Interval
<1> QED
  BY <1>1, FS_Product

LEMMA AppearancesCount ==
  ASSUME NEW ds \in Seq(DOMAIN Papers), NEW a, NEW origin
  PROVE  /\ IsFiniteSet(V!Appearances(ds, a, origin))
         /\ Cardinality(V!Appearances(ds, a, origin)) \in Nat
         /\ V!Senior(ds, V!Appearances(ds, a, origin)) \in Nat
         /\ NoRepeats(ds) => Cardinality(V!Appearances(ds, a, origin)) <= Cardinality(Own(ds, a))
<1> DEFINE xs == V!Appearances(ds, a, origin)
           n == Len(ds)
<1>1. n \in Nat /\ DOMAIN ds = 1 .. n /\ MaxAuthors \in Nat /\ \A i \in 1 .. n : ds[i] \in DOMAIN Papers
  BY SupervisorsAssumption DEF IsList
<1>2. xs = {x \in (1 .. n) \X (1 .. MaxAuthors) :
        /\ x[2] <= Len(Papers[ds[x[1]]]) /\ Len(Papers[ds[x[1]]]) <= MaxAuthors
        /\ LET p == Papers[ds[x[1]]][x[2]] IN p.who = a /\ V!Counts(p, origin)}
  BY <1>1 DEF V!Appearances
<1>3. IsFiniteSet(xs) /\ Cardinality(xs) \in Nat
  <2>1. IsFiniteSet((1 .. n) \X (1 .. MaxAuthors))
    BY <1>1, PairsAreFinite
  <2>2. xs \subseteq (1 .. n) \X (1 .. MaxAuthors)
    BY <1>2
  <2> HIDE DEF xs, n
  <2> QED
    BY <2>1, <2>2, Fewer
<1>4. V!Senior(ds, xs) \in Nat
  <2> DEFINE late == {x \in xs : x[2] = Len(Papers[ds[x[1]]]) /\ x[2] > 1}
  <2>1. V!Senior(ds, xs) = Cardinality(late)
    BY SupervisorsCounts DEF V!Senior
  <2>2. late \subseteq xs
    OBVIOUS
  <2> HIDE DEF late, xs
  <2> QED
    BY <1>3, <2>1, <2>2, Fewer
<1>5. ASSUME NoRepeats(ds) PROVE Cardinality(xs) <= Cardinality(Own(ds, a))
  <2> DEFINE f == [x \in xs |-> <<ds[x[1]], x[2]>>]
             all == {<<ds[i], j>> : i \in DOMAIN ds, j \in 1 .. MaxAuthors}
  <2>1. ASSUME NEW x \in xs PROVE x[1] \in 1 .. n /\ x[2] \in 1 .. MaxAuthors /\ x = <<x[1], x[2]>> /\ f[x] \in Own(ds, a)
    <3>1. x[1] \in 1 .. n /\ x[2] \in 1 .. MaxAuthors /\ x = <<x[1], x[2]>>
            /\ x[2] <= Len(Papers[ds[x[1]]]) /\ Papers[ds[x[1]]][x[2]].who = a
      BY <1>2
    <3>2. f[x] = <<ds[x[1]], x[2]>>
      OBVIOUS
    <3> HIDE DEF f, xs, n
    <3>3. f[x] \in all
      BY <1>1, <3>1, <3>2
    <3> QED
      BY <1>1, <3>1, <3>2, <3>3 DEF Own
  <2>2. ASSUME NEW x \in xs, NEW y \in xs, f[x] = f[y] PROVE x = y
    <3>1. ds[x[1]] = ds[y[1]] /\ x[2] = y[2]
      BY <2>2
    <3>2. x[1] = y[1]
      BY <1>1, <1>5, <2>1, <3>1 DEF NoRepeats
    <3> QED
      BY <2>1, <3>1, <3>2
  <2>3. f \in [xs -> Own(ds, a)] /\ DOMAIN f = xs
    BY <2>1
  <2>4. IsFiniteSet(Own(ds, a))
    <3>1. Own(ds, a) \subseteq (DOMAIN Papers) \X (1 .. MaxAuthors)
      BY DEF Own
    <3>2. DOMAIN Papers = 1 .. Len(Papers) /\ Len(Papers) \in Nat
      BY SupervisorsAssumption DEF IsList
    <3>3. IsFiniteSet((1 .. Len(Papers)) \X (1 .. MaxAuthors))
      BY <1>1, <3>2, PairsAreFinite
    <3> QED
      BY <3>1, <3>2, <3>3, Fewer
  <2> HIDE DEF f, xs
  <2>5. f \in Injection(xs, Own(ds, a))
    BY <2>2, <2>3 DEF Injection, IsInjective
  <2> QED
    BY <2>4, <2>5, FS_Injection
<1> HIDE DEF xs
<1> QED
  BY <1>3, <1>4, <1>5 DEF xs

\* Candidates, with the papers they count.
Rows == [who : Authors, papers : Nat \ {0}, senior : Nat, place : V!Places]

LEMMA AggregateRows ==
  ASSUME NEW ds \in Seq(DOMAIN Papers), NEW origin, NEW ties
  PROVE  /\ V!Aggregate(ds, origin, ties) \subseteq Rows
         /\ NoRepeats(ds) => \A r \in V!Aggregate(ds, origin, ties) : Cardinality(Own(ds, r.who)) >= MinPapers
<1> SUFFICES ASSUME NEW r \in V!Aggregate(ds, origin, ties)
             PROVE  r \in Rows /\ (NoRepeats(ds) => Cardinality(Own(ds, r.who)) >= MinPapers)
  OBVIOUS
<1>1. PICK a \in Authors : LET xs == V!Appearances(ds, a, origin) IN
        /\ r = [who |-> a, papers |-> Cardinality(xs), senior |-> V!Senior(ds, xs),
                place |-> IF origin # "arxiv" THEN "here"
                          ELSE LET h == V!Told(ds, xs, "here")
                                   w == V!Told(ds, xs, "away")
                               IN IF h + w = 0 THEN "unverified"
                                  ELSE IF h > w \/ (h = w /\ a \in ties) THEN "here" ELSE "away"]
        /\ r.papers >= MinPapers /\ r.place \in V!Places
  BY SupervisorsCounts DEF V!Aggregate
<1> DEFINE xs == V!Appearances(ds, a, origin)
<1>2. IsFiniteSet(xs) /\ Cardinality(xs) \in Nat /\ V!Senior(ds, xs) \in Nat /\ (NoRepeats(ds) => Cardinality(xs) <= Cardinality(Own(ds, a)))
  BY AppearancesCount
<1>3. r.who = a /\ r.papers = Cardinality(xs) /\ r.senior = V!Senior(ds, xs) /\ r.papers >= MinPapers /\ r.place \in V!Places
       /\ r = [who |-> r.who, papers |-> r.papers, senior |-> r.senior, place |-> r.place]
  BY <1>1
<1> HIDE DEF xs
<1>4. MinPapers \in Nat \ {0}
  BY SupervisorsAssumption DEF IsList
<1>5. r.papers \in Nat \ {0}
  BY <1>2, <1>3, <1>4
<1>6. r \in Rows
  BY <1>2, <1>3, <1>5 DEF Rows
<1>7. ASSUME NoRepeats(ds) PROVE Cardinality(Own(ds, r.who)) >= MinPapers
  <2>1. Cardinality(Own(ds, a)) \in Nat
    <3>1. Own(ds, a) \subseteq (DOMAIN Papers) \X (1 .. MaxAuthors)
      BY DEF Own
    <3>2. DOMAIN Papers = 1 .. Len(Papers) /\ Len(Papers) \in Nat /\ MaxAuthors \in Nat
      BY SupervisorsAssumption DEF IsList
    <3>3. IsFiniteSet((1 .. Len(Papers)) \X (1 .. MaxAuthors))
      BY <3>2, PairsAreFinite
    <3> QED
      BY <3>1, <3>2, <3>3, Fewer
  <2>2. Cardinality(xs) <= Cardinality(Own(ds, a)) /\ Cardinality(xs) >= MinPapers
    BY <1>2, <1>3, <1>7
  <2> QED
    BY <1>2, <1>3, <1>4, <2>1, <2>2
<1> QED
  BY <1>6, <1>7

\* Of authors that are to be verified one is the best.
LEMMA BestExists ==
  ASSUME NEW S, S \subseteq Authors, S # {}, NEW p \in [Authors -> Nat]
  PROVE  \E a \in S : \A b \in S : HIndex[a] > HIndex[b] \/ (HIndex[a] = HIndex[b] /\ p[a] >= p[b])
<1> DEFINE Better(a, b) == HIndex[a] > HIndex[b] \/ (HIndex[a] = HIndex[b] /\ p[a] >= p[b])
           n == Cardinality(S)
<1>1. IsFiniteSet(S) /\ n \in Nat
  BY SupervisorsAssumption, Fewer
<1>2. PICK g \in Bijection(1 .. n, S) : TRUE
  BY <1>1, FS_CardinalityType DEF ExistsBijection
<1> HIDE DEF n
<1>3. g \in [1 .. n -> S] /\ \A x \in S : \E i \in 1 .. n : g[i] = x
  BY <1>2 DEF Bijection, Surjection, Injection
<1>4. \A a, b, c \in S : (Better(a, b) /\ Better(b, c) => Better(a, c)) /\ Better(a, a) /\ (Better(a, b) \/ Better(b, a))
  <2>1. \A a \in S : HIndex[a] \in Int /\ p[a] \in Nat
    BY SupervisorsAssumption DEF IsList
  <2> QED
    BY <2>1
<1> HIDE DEF Better
<1> DEFINE T == {k \in Nat : k \in 1 .. n => \E i \in 1 .. k : \A j \in 1 .. k : Better(g[i], g[j])}
<1>5. 0 \in T
  OBVIOUS
<1>6. ASSUME NEW k \in Nat, k \in T PROVE k + 1 \in T
  <2> SUFFICES ASSUME k + 1 \in 1 .. n PROVE \E i \in 1 .. (k + 1) : \A j \in 1 .. (k + 1) : Better(g[i], g[j])
    BY <1>6
  <2>1. \A i \in 1 .. (k + 1) : i \in 1 .. n /\ g[i] \in S /\ (i \in 1 .. k \/ i = k + 1)
    BY <1>1, <1>3
  <2>2. CASE k = 0
    <3>1. 1 \in 1 .. (k + 1) /\ \A j \in 1 .. (k + 1) : j = 1
      BY <2>2
    <3> QED
      BY <1>4, <2>1, <3>1
  <2>3. CASE k # 0
    <3>1. PICK i \in 1 .. k : \A j \in 1 .. k : Better(g[i], g[j])
      BY <1>1, <1>6, <2>3
    <3>2. i \in 1 .. (k + 1) /\ k + 1 \in 1 .. (k + 1)
      OBVIOUS
    <3>3. CASE Better(g[i], g[k + 1])
      BY <2>1, <3>1, <3>2, <3>3
    <3>4. CASE Better(g[k + 1], g[i])
      <4>1. \A j \in 1 .. (k + 1) : Better(g[k + 1], g[j])
        BY <1>4, <2>1, <3>1, <3>2, <3>4
      <4> QED
        BY <3>2, <4>1
    <3> QED
      BY <1>4, <2>1, <3>2, <3>3, <3>4
  <2> QED
    BY <2>2, <2>3
<1> HIDE DEF T
<1>7. n \in T
  BY <1>1, <1>5, <1>6, Induction
<1>8. n \in 1 .. n
  BY <1>1, <1>3
<1>9. PICK i \in 1 .. n : \A j \in 1 .. n : Better(g[i], g[j])
  BY <1>7, <1>8 DEF T
<1>10. g[i] \in S /\ \A b \in S : Better(g[i], b)
  BY <1>3, <1>9
<1> QED
  BY <1>10 DEF Better

LEMMA OwnWorksCount ==
  ASSUME NEW S, S \subseteq DOMAIN Papers, NEW a
  PROVE  V!OwnWorks(S, a) \in Nat
<1> DEFINE owned == {x \in S \X (1 .. MaxAuthors) : x[2] <= Len(Papers[x[1]]) /\ Papers[x[1]][x[2]].who = a /\ Papers[x[1]][x[2]].codes = "here"}
<1>1. DOMAIN Papers = 1 .. Len(Papers) /\ Len(Papers) \in Nat /\ MaxAuthors \in Nat
  BY SupervisorsAssumption DEF IsList
<1>2. owned \subseteq (1 .. Len(Papers)) \X (1 .. MaxAuthors)
  BY <1>1
<1>3. V!OwnWorks(S, a) = Cardinality(owned)
  BY SupervisorsCounts DEF V!OwnWorks
<1> HIDE DEF owned
<1> QED
  BY <1>1, <1>2, <1>3, PairsAreFinite, Fewer

\* A fit is never nothing: even an unverified place counts.
LEMMA FitIsPositive ==
  ASSUME NEW r \in Rows, NEW hits \in Nat
  PROVE  V!ComputeFit(r, hits) \in Nat \ {0}
<1>1. Terms \in Nat /\ r.papers \in Nat \ {0} /\ r.senior \in Nat
  BY SupervisorsAssumption DEF Rows
<1>2. \A x \in Int : 0 <= x => V!Clamp(x) \in Nat
  BY DEF V!Clamp
<1>3. \A x \in Int, L \in Nat \ {0} : 0 <= x => x \div L \in Int /\ 0 <= x \div L
  <2> SUFFICES ASSUME NEW x \in Int, NEW L \in Nat \ {0}, 0 <= x PROVE x \div L \in Int /\ 0 <= x \div L
    OBVIOUS
  <2>1. 0 * L = 0
    OBVIOUS
  <2> QED
    BY <2>1, QuotientFloor, QuotientOrder
<1>4. V!TopicComponent(hits) \in Nat
  <2>1. V!Max2(10, 6 * Terms) \in Nat \ {0}
    BY <1>1 DEF V!Max2
  <2>2. 10000 * hits \in Int /\ 0 <= 10000 * hits
    OBVIOUS
  <2>3. (10000 * hits) \div V!Max2(10, 6 * Terms) \in Int /\ 0 <= (10000 * hits) \div V!Max2(10, 6 * Terms)
    BY <1>3, <2>1, <2>2
  <2> QED
    BY <1>2, <2>3 DEF V!TopicComponent
<1>5. V!RecencyComponent(r.papers) \in Nat
  <2>1. 1000 * r.papers \in Int /\ 0 <= 1000 * r.papers
    BY <1>1
  <2>2. (1000 * r.papers) \div 12 \in Int /\ 0 <= (1000 * r.papers) \div 12
    BY <1>3, <2>1
  <2> QED
    BY <1>2, <2>2 DEF V!RecencyComponent
<1>6. V!SeniorityComponent(r.senior, r.papers) \in Nat
  <2>1. 2000 * r.senior \in Int /\ 0 <= 2000 * r.senior
    BY <1>1
  <2>2. (2000 * r.senior) \div r.papers \in Int /\ 0 <= (2000 * r.senior) \div r.papers
    BY <1>1, <1>3, <2>1
  <2> QED
    BY <1>2, <2>2 DEF V!SeniorityComponent
<1>7. V!CountryComponent(r.place) \in Nat /\ V!CountryComponent(r.place) >= 400
  BY DEF V!CountryComponent
<1> DEFINE common == 40 * V!TopicComponent(hits) + 25 * V!RecencyComponent(r.papers) + 15 * V!CountryComponent(r.place)
<1>8. common \in Nat /\ common >= 6000
  BY <1>4, <1>5, <1>7
<1>9. V!ComputeFit(r, hits) = IF cfg.signal = "none" THEN (100 * common) \div 80 ELSE common + 20 * V!SeniorityComponent(r.senior, r.papers)
  BY DEF V!ComputeFit
<1> HIDE DEF common
<1>10. (100 * common) \div 80 \in Int /\ 1 <= (100 * common) \div 80
  <2>1. 100 * common \in Int /\ 1 * 80 <= 100 * common
    BY <1>8
  <2> QED
    BY <2>1, QuotientFloor, QuotientOrder
<1> QED
  BY <1>6, <1>8, <1>9, <1>10

-----------------------------------------------------------------------------

\* What is collected are papers, rows and places.
SupTyped ==
    /\ chain \in Seq({"ads", "openalex", "arxiv"})
    /\ docs \in Seq(DOMAIN Papers) /\ seen \subseteq DOMAIN Papers
    /\ pool \in [Authors -> Nat] /\ unverified \subseteq Authors
    /\ ranked \subseteq Rows /\ announced \subseteq Authors \X V!Places
    /\ session \in [Authors \X V!Places -> Nat] /\ committed \in [Authors \X V!Places -> Nat]

\* Whoever is listed stands in as many different places of the papers as he must.
Worked(those, ds) == \A r \in those : Cardinality(Own(ds, r.who)) >= MinPapers

\* Which service is being asked, and what has been collected of it.
SupWhere ==
    /\ phase \in {"pool", "records", "verify", "openalex"} => used = "openalex"
    /\ phase = "ads" => used = "ads"
    /\ phase = "arxiv" => used = "arxiv"
    /\ phase \in {"pool", "records", "verify"} => docs = <<>> /\ seen = {}
    /\ phase = "openalex" => NoRepeats(docs) /\ Range(docs) \subseteq seen
    /\ phase = "gate" /\ used = "openalex" /\ docs # <<>> => Worked(ranked, docs)

\* A candidate that the loop of the save step has still to come to.
Pending(p) == phase = "save" /\ \E r \in ranked : <<r.who, r.place>> = p

\* Unless the session broke, what was announced is in it or still to come.
SupKept ==
    /\ ~broken /\ ~rejected => \A p \in announced : session[p] > 0 \/ Pending(p)
    /\ outcome = "completed" => phase = "done" /\ \A p \in announced : committed[p] > 0

\* The invariant of a search for supervisors.
SupInv == SupTyped /\ SupWhere /\ SupKept

LEMMA GrownIsList ==
  ASSUME NEW Items, NEW s \in Seq(Items), NEW u \in Seq(Items), NEW ok
  PROVE  (IF ok THEN s \o u ELSE s) \in Seq(Items)
<1>1. s \o u \in Seq(Items)
  OBVIOUS
<1> QED
  BY <1>1

LEMMA NothingYet ==
         /\ <<>> \in Seq(DOMAIN Papers) /\ NoRepeats(<<>>) /\ Range(<<>>) = {}
         /\ V!NoPool \in [Authors -> Nat] /\ V!NoRows \in [Authors \X V!Places -> Nat]
<1> QED
  BY DEF NoRepeats, Range, V!NoPool, V!NoRows

LEMMA SupInit == ASSUME V!Init PROVE SupInv
<1>1. SupTyped
  BY NothingYet DEF V!Init, SupTyped
<1>2. SupWhere /\ SupKept
  BY DEF V!Init, SupWhere, SupKept
<1> QED
  BY <1>1, <1>2 DEF SupInv

LEMMA SupNextPair == ASSUME SupInv, V!NextPair PROVE SupInv'
<1>1. SupTyped /\ SupKept
  BY DEF SupInv
<1>2. UNCHANGED <<session, committed, broken, rejected, outcome, announced>> /\ phase = "pair" /\ phase' \in {"pair", "choose"}
       /\ ranked' = {} /\ docs' = <<>> /\ seen' = {} /\ pool' = V!NoPool /\ unverified' = {}
  BY DEF V!NextPair, V!Clean, V!saving
<1>3. chain' \in Seq({"ads", "openalex", "arxiv"})
  <2>1. chain' \in {V!SupervisorChain(cfg), chain}
    BY DEF V!NextPair
  <2>2. <<"arxiv">> \in Seq({"ads", "openalex", "arxiv"}) /\ <<"openalex">> \in Seq({"ads", "openalex", "arxiv"})
         /\ <<"ads", "openalex">> \in Seq({"ads", "openalex", "arxiv"}) /\ <<"openalex", "arxiv">> \in Seq({"ads", "openalex", "arxiv"})
    OBVIOUS
  <2>3. V!SupervisorChain(cfg) \in {<<"arxiv">>, <<"openalex">>, <<"ads", "openalex">>, <<"openalex", "arxiv">>}
    BY Zenon DEF V!SupervisorChain
  <2>4. chain \in Seq({"ads", "openalex", "arxiv"})
    BY <1>1 DEF SupTyped
  <2> QED
    BY <2>1, <2>2, <2>3, <2>4
<1>4. SupTyped'
  BY <1>1, <1>2, <1>3, NothingYet DEF SupTyped
<1>5. SupWhere'
  BY <1>2 DEF SupWhere
<1>6. SupKept'
  BY <1>1, <1>2 DEF SupKept, Pending
<1> QED
  BY <1>4, <1>5, <1>6 DEF SupInv

LEMMA SupChoose == ASSUME SupInv, V!Choose PROVE SupInv'
<1>1. SupTyped /\ SupKept
  BY DEF SupInv
<1>2. UNCHANGED <<ranked, session, committed, broken, rejected, announced>> /\ phase = "choose"
       /\ docs' = <<>> /\ seen' = {} /\ pool' = V!NoPool /\ unverified' = {}
  BY DEF V!Choose, V!Clean
<1>3. chain' \in Seq({"ads", "openalex", "arxiv"}) /\ outcome' \in {outcome, "nobody"} /\ phase' \in {"pair", "pool", "ads", "openalex", "arxiv"}
       /\ (phase' \in {"pool", "openalex"} => used' = "openalex") /\ (phase' = "ads" => used' = "ads") /\ (phase' = "arxiv" => used' = "arxiv")
  <2>1. CASE chain = <<>>
    BY <1>1, <2>1 DEF V!Choose, SupTyped
  <2>2. CASE chain # <<>>
    <3>1. Head(chain) \in {"ads", "openalex", "arxiv"} /\ Tail(chain) \in Seq({"ads", "openalex", "arxiv"})
      BY <1>1, <2>2 DEF SupTyped
    <3>2. used' = Head(chain) /\ chain' = Tail(chain) /\ outcome' = outcome
            /\ phase' = IF Head(chain) = "openalex" /\ V!AuthorsFirst THEN "pool" ELSE Head(chain)
      BY <2>2 DEF V!Choose
    <3> QED
      BY <3>1, <3>2
  <2> QED
    BY <2>1, <2>2
<1>4. SupTyped'
  BY <1>1, <1>2, <1>3, NothingYet DEF SupTyped
<1>5. SupWhere'
  BY <1>2, <1>3, NothingYet DEF SupWhere
<1>6. SupKept'
  BY <1>1, <1>2, <1>3 DEF SupKept, Pending
<1> QED
  BY <1>4, <1>5, <1>6 DEF SupInv

\* A search that found its candidates, or none.
LEMMA SupFound ==
  ASSUME SupInv, phase \in {"ads", "openalex", "arxiv"}, NEW ds, ds \in Seq(DOMAIN Papers), used = "openalex" => NoRepeats(ds),
         NEW origin, NEW ties, V!Found(ds, V!Aggregate(ds, origin, ties))
  PROVE  SupInv'
<1>1. SupTyped /\ SupKept
  BY DEF SupInv
<1> DEFINE those == V!Aggregate(ds, origin, ties)
<1>2. UNCHANGED <<chain, used, session, committed, broken, rejected, outcome, announced>> /\ phase' \in {"choose", "gate"}
       /\ ranked' = those /\ docs' = ds /\ seen' = {} /\ pool' = V!NoPool /\ unverified' = {}
  BY DEF V!Found, V!saving
<1>3. those \subseteq Rows /\ (used = "openalex" => Worked(those, ds))
  BY AggregateRows DEF Worked
<1> HIDE DEF those
<1>4. SupTyped'
  BY <1>1, <1>2, <1>3, NothingYet DEF SupTyped
<1>5. SupWhere'
  BY <1>2, <1>3 DEF SupWhere, Worked
<1>6. SupKept'
  BY <1>1, <1>2 DEF SupKept, Pending
<1> QED
  BY <1>4, <1>5, <1>6 DEF SupInv

\* One more page of a query.
LEMMA SupMore ==
  ASSUME SupInv, phase \in {"ads", "openalex", "arxiv"}, phase' = phase, V!Keep, docs' \in Seq(DOMAIN Papers), seen' \subseteq DOMAIN Papers,
         phase = "openalex" => NoRepeats(docs') /\ Range(docs') \subseteq seen'
  PROVE  SupInv'
<1>1. SupTyped /\ SupWhere /\ SupKept
  BY DEF SupInv
<1>2. UNCHANGED <<chain, used, session, committed, broken, rejected, outcome, announced, ranked, pool, unverified>>
  BY DEF V!Keep, V!saving
<1>3. SupTyped'
  BY <1>1, <1>2 DEF SupTyped
<1>4. SupWhere'
  BY <1>1, <1>2 DEF SupWhere
<1>5. SupKept'
  BY <1>1, <1>2 DEF SupKept, Pending
<1> QED
  BY <1>3, <1>4, <1>5 DEF SupInv

LEMMA ListedPapers ==
  ASSUME NEW S \in V!Listed
  PROVE  S \subseteq DOMAIN Papers
BY DEF V!Listed

LEMMA SupAdsPage == ASSUME SupInv, V!AdsPage PROVE SupInv'
<1>1. docs \in Seq(DOMAIN Papers) /\ seen \subseteq DOMAIN Papers /\ phase = "ads" /\ used = "ads"
  BY DEF SupInv, SupTyped, SupWhere, V!AdsPage
<1>2. PICK S \in V!Listed, ok \in BOOLEAN, more \in BOOLEAN :
        LET gathered == IF ok THEN docs \o V!Sorted(S \ seen) ELSE docs
        IN IF ok /\ more /\ S # {} /\ fetched < ResultPages
           THEN /\ docs' = gathered /\ seen' = seen \union S /\ fetched' = fetched + 1 /\ UNCHANGED <<query, phase>> /\ V!Keep
           ELSE V!Found(gathered, V!Aggregate(gathered, "ads", {}))
  BY DEF V!AdsPage
<1> DEFINE gathered == IF ok THEN docs \o V!Sorted(S \ seen) ELSE docs
<1>3. S \subseteq DOMAIN Papers /\ gathered \in Seq(DOMAIN Papers)
  <2>1. S \subseteq DOMAIN Papers
    BY ListedPapers
  <2>2. V!Sorted(S \ seen) \in Seq(DOMAIN Papers)
    BY <2>1, SortedOnce
  <2> QED
    BY <1>1, <2>1, <2>2, GrownIsList
<1>4. CASE ok /\ more /\ S # {} /\ fetched < ResultPages
  <2>1. docs' = gathered /\ seen' = seen \union S /\ phase' = phase /\ V!Keep
    BY <1>2, <1>4
  <2> HIDE DEF gathered
  <2> QED
    BY <1>1, <1>3, <2>1, SupMore
<1>5. CASE ~(ok /\ more /\ S # {} /\ fetched < ResultPages)
  <2>1. V!Found(gathered, V!Aggregate(gathered, "ads", {}))
    BY <1>2, <1>5
  <2> HIDE DEF gathered
  <2> QED
    BY <1>1, <1>3, <2>1, SupFound
<1> QED
  BY <1>4, <1>5

LEMMA SupDocsPage == ASSUME SupInv, V!DocsPage PROVE SupInv'
<1>1. docs \in Seq(DOMAIN Papers) /\ seen \subseteq DOMAIN Papers /\ phase = "openalex" /\ NoRepeats(docs) /\ Range(docs) \subseteq seen
  BY DEF SupInv, SupTyped, SupWhere, V!DocsPage
<1>2. PICK S \in V!Listed, ok \in BOOLEAN :
        LET gathered == IF ok THEN docs \o V!NewPapers(S) ELSE docs
            enough == ok /\ Len(gathered) >= MaxPapers
        IN IF ~enough /\ (query < QueryKeywords \/ (ok /\ V!Full(S) /\ fetched < ResultPages))
           THEN /\ docs' = gathered /\ seen' = (IF ok THEN seen \union S ELSE seen)
                /\ IF ok /\ V!Full(S) /\ fetched < ResultPages THEN fetched' = fetched + 1 /\ UNCHANGED query
                   ELSE fetched' = 1 /\ query' = query + 1
                /\ UNCHANGED phase /\ V!Keep
           ELSE V!Found(V!Cut(gathered), V!Aggregate(V!Cut(gathered), "openalex", {}))
  BY DEF V!DocsPage
<1> DEFINE gathered == IF ok THEN docs \o V!NewPapers(S) ELSE docs
           more == IF ok THEN seen \union S ELSE seen
<1>3. S \subseteq DOMAIN Papers
  BY ListedPapers
<1>4. gathered \in Seq(DOMAIN Papers) /\ NoRepeats(gathered) /\ Range(gathered) \subseteq more
  <2>1. CASE ok
    <3> DEFINE delivered == V!NewPapers(S)
    <3>1. delivered \in Seq(DOMAIN Papers) /\ Range(delivered) = S \ seen /\ NoRepeats(delivered)
      BY <1>3, SortedOnce DEF V!NewPapers
    <3> HIDE DEF delivered
    <3>2. Range(docs) \intersect Range(delivered) = {}
      BY <1>1, <3>1
    <3>3. docs \o delivered \in Seq(DOMAIN Papers) /\ NoRepeats(docs \o delivered)
      BY <1>1, <3>1, <3>2, JoinDistinct
    <3>4. Range(docs \o delivered) = Range(docs) \union Range(delivered)
      BY <1>1, <3>1, RangeOfJoin
    <3> QED
      BY <1>1, <2>1, <3>1, <3>3, <3>4 DEF delivered
  <2>2. CASE ~ok
    BY <1>1, <2>2
  <2> QED
    BY <2>1, <2>2
<1>5. V!Cut(gathered) \in Seq(DOMAIN Papers) /\ NoRepeats(V!Cut(gathered))
  <2> HIDE DEF gathered
  <2> DEFINE n == IF Len(gathered) > MaxPapers THEN MaxPapers ELSE Len(gathered)
  <2>1. n \in Nat /\ n <= Len(gathered)
    BY <1>4, SupervisorsAssumption
  <2>2. V!Cut(gathered) = SubSeq(gathered, 1, n)
    BY DEF V!Cut
  <2> HIDE DEF n
  <2> QED
    BY <1>4, <2>1, <2>2, BeginDistinct
<1> DEFINE goesOn == ~(ok /\ Len(gathered) >= MaxPapers) /\ (query < QueryKeywords \/ (ok /\ V!Full(S) /\ fetched < ResultPages))
<1>6. CASE goesOn
  <2>1. docs' = gathered /\ seen' = more /\ phase' = phase /\ V!Keep
    BY <1>2, <1>6
  <2>2. more \subseteq DOMAIN Papers
    BY <1>1, <1>3
  <2> HIDE DEF gathered, more, goesOn
  <2> QED
    BY <1>1, <1>4, <2>1, <2>2, SupMore
<1>7. CASE ~goesOn
  <2>1. V!Found(V!Cut(gathered), V!Aggregate(V!Cut(gathered), "openalex", {}))
    BY <1>2, <1>7
  <2> HIDE DEF gathered, more, goesOn
  <2> QED
    BY <1>1, <1>5, <2>1, SupFound
<1> QED
  BY <1>6, <1>7

LEMMA SupArxivQuery == ASSUME SupInv, V!ArxivQuery PROVE SupInv'
<1>1. docs \in Seq(DOMAIN Papers) /\ seen \subseteq DOMAIN Papers /\ phase = "arxiv" /\ used = "arxiv"
  BY DEF SupInv, SupTyped, SupWhere, V!ArxivQuery
<1>2. PICK S \in V!Listed, ok \in BOOLEAN :
        LET gathered == IF ok THEN docs \o V!Sorted(S) ELSE docs
        IN IF query < QueryKeywords
           THEN docs' = gathered /\ query' = query + 1 /\ UNCHANGED <<fetched, seen, phase>> /\ V!Keep
           ELSE \E ties \in {{}, Authors} : V!Found(gathered, V!Aggregate(gathered, "arxiv", ties))
  BY DEF V!ArxivQuery
<1> DEFINE gathered == IF ok THEN docs \o V!Sorted(S) ELSE docs
<1>3. gathered \in Seq(DOMAIN Papers)
  <2>1. V!Sorted(S) \in Seq(DOMAIN Papers)
    BY ListedPapers, SortedOnce
  <2> QED
    BY <1>1, <2>1, GrownIsList
<1>4. CASE query < QueryKeywords
  <2>1. docs' = gathered /\ seen' = seen /\ phase' = phase /\ V!Keep
    BY <1>2, <1>4
  <2> HIDE DEF gathered
  <2> QED
    BY <1>1, <1>3, <2>1, SupMore
<1>5. CASE ~(query < QueryKeywords)
  <2>1. PICK ties \in {{}, Authors} : V!Found(gathered, V!Aggregate(gathered, "arxiv", ties))
    BY <1>2, <1>5
  <2> HIDE DEF gathered
  <2> QED
    BY <1>1, <1>3, <2>1, SupFound
<1> QED
  BY <1>4, <1>5

LEMMA SupPoolPage == ASSUME SupInv, V!PoolPage PROVE SupInv'
<1>1. SupTyped /\ SupWhere /\ SupKept
  BY DEF SupInv
<1>2. PICK S \in V!Listed, ok \in BOOLEAN :
        LET stats == IF ok THEN [a \in Authors |-> pool[a] + V!OwnWorks(S, a)] ELSE pool
            kept == {a \in Authors : stats[a] >= MinPapers}
        IN /\ IF ok /\ V!Full(S) /\ fetched < PoolPages
              THEN pool' = stats /\ fetched' = fetched + 1 /\ UNCHANGED <<query, phase>>
              ELSE IF query < (IF cfg.topics THEN Batches ELSE 1)
              THEN pool' = stats /\ fetched' = 1 /\ query' = query + 1 /\ UNCHANGED phase
              ELSE /\ fetched' = 1 /\ query' = 1 /\ phase' = IF kept = {} THEN "openalex" ELSE "records"
                   /\ pool' = [a \in Authors |-> IF a \in kept THEN stats[a] ELSE 0]
  BY DEF V!PoolPage
<1>3. UNCHANGED <<chain, docs, seen, unverified, ranked, used, session, committed, broken, rejected, outcome, announced>> /\ phase = "pool"
  BY DEF V!PoolPage, V!saving
<1> DEFINE stats == IF ok THEN [a \in Authors |-> pool[a] + V!OwnWorks(S, a)] ELSE pool
           kept == {a \in Authors : stats[a] >= MinPapers}
<1>4. stats \in [Authors -> Nat]
  <2>1. \A a \in Authors : V!OwnWorks(S, a) \in Nat
    BY ListedPapers, OwnWorksCount
  <2>2. pool \in [Authors -> Nat]
    BY <1>1 DEF SupTyped
  <2> QED
    BY <2>1, <2>2
<1> HIDE DEF stats
<1>5. pool' \in {stats, [a \in Authors |-> IF a \in kept THEN stats[a] ELSE 0]} /\ phase' \in {"pool", "openalex", "records"}
  BY <1>2, <1>3 DEF stats
<1>6. pool' \in [Authors -> Nat]
  <2>1. [a \in Authors |-> IF a \in kept THEN stats[a] ELSE 0] \in [Authors -> Nat]
    BY <1>4
  <2> QED
    BY <1>4, <1>5, <2>1
<1>7. SupTyped'
  BY <1>1, <1>3, <1>6 DEF SupTyped
<1>8. SupWhere'
  BY <1>1, <1>3, <1>5, NothingYet DEF SupWhere
<1>9. SupKept'
  BY <1>1, <1>3, <1>5 DEF SupKept, Pending
<1> QED
  BY <1>7, <1>8, <1>9 DEF SupInv

LEMMA SupRecords == ASSUME SupInv, V!Records PROVE SupInv'
<1>1. SupTyped /\ SupWhere /\ SupKept
  BY DEF SupInv
<1>2. UNCHANGED <<chain, docs, seen, pool, ranked, used, session, committed, broken, rejected, outcome, announced>> /\ phase = "records"
       /\ phase' \in {"openalex", "verify"} /\ unverified' \subseteq Authors
  BY DEF V!Records, V!saving
<1>3. SupTyped'
  BY <1>1, <1>2 DEF SupTyped
<1>4. SupWhere'
  BY <1>1, <1>2, NothingYet DEF SupWhere
<1>5. SupKept'
  BY <1>1, <1>2 DEF SupKept, Pending
<1> QED
  BY <1>3, <1>4, <1>5 DEF SupInv

LEMMA SupVerify == ASSUME SupInv, V!Verify PROVE SupInv'
<1>1. SupTyped /\ SupWhere /\ SupKept
  BY DEF SupInv
<1>2. UNCHANGED <<chain, used, session, committed, broken, rejected, outcome, announced>> /\ phase = "verify" /\ used = "openalex" /\ docs = <<>> /\ seen = {}
  BY <1>1 DEF V!Verify, V!saving, SupWhere
<1> DEFINE over == unverified = {} \/ V!Cardinality(ranked) >= Enrich \/ attempted >= 3 * Enrich
<1>3. CASE over
  <2>1. phase' \in {"openalex", "gate"} /\ docs' = <<>> /\ seen' = {} /\ pool' = V!NoPool /\ unverified' = {} /\ ranked' = ranked
    BY <1>3 DEF V!Verify, V!Clean
  <2>2. SupTyped'
    BY <1>1, <1>2, <2>1, NothingYet DEF SupTyped
  <2>3. SupWhere'
    BY <1>2, <2>1, NothingYet DEF SupWhere
  <2>4. SupKept'
    BY <1>1, <1>2, <2>1 DEF SupKept, Pending
  <2> QED
    BY <2>2, <2>3, <2>4 DEF SupInv
<1>4. CASE ~over
  <2>1. PICK r \in Recents :
            /\ attempted' = attempted + 1 /\ unverified' = unverified \ {V!Best}
            /\ ranked' = IF r.n > 0 /\ r.in >= V!Need(r) /\ V!RightField(r)
                         THEN ranked \union {[who |-> V!Best, papers |-> r.n, senior |-> r.senior, place |-> "here"]}
                         ELSE ranked
            /\ UNCHANGED <<phase, query, fetched, docs, seen, pool>>
    BY <1>4 DEF V!Verify
  <2>2. V!Best \in Authors
    <3>1. unverified # {} /\ unverified \subseteq Authors /\ pool \in [Authors -> Nat]
      BY <1>1, <1>4 DEF SupTyped
    <3>2. V!Best \in unverified
      BY <3>1, BestExists DEF V!Best
    <3> QED
      BY <3>1, <3>2
  <2>3. ASSUME r.n > 0 PROVE [who |-> V!Best, papers |-> r.n, senior |-> r.senior, place |-> "here"] \in Rows
    <3>1. r.n \in Nat \ {0} /\ r.senior \in Nat /\ "here" \in V!Places
      BY <2>3, SupervisorsAssumption DEF V!Places
    <3> QED
      BY <2>2, <3>1 DEF Rows
  <2>4. ranked' \subseteq Rows
    BY <1>1, <2>1, <2>3 DEF SupTyped
  <2>5. SupTyped'
    BY <1>1, <1>2, <2>1, <2>4 DEF SupTyped
  <2>6. SupWhere'
    BY <1>2, <2>1 DEF SupWhere
  <2>7. SupKept'
    BY <1>1, <1>2, <2>1 DEF SupKept, Pending
  <2> QED
    BY <2>5, <2>6, <2>7 DEF SupInv
<1> QED
  BY <1>3, <1>4

LEMMA SupGate == ASSUME SupInv, V!Gate PROVE SupInv'
<1>1. SupTyped /\ SupWhere /\ SupKept
  BY DEF SupInv
<1>2. UNCHANGED <<chain, used, session, committed, broken, rejected>> /\ phase = "gate" /\ phase' = "save" /\ outcome' \in {outcome, "written"}
       /\ docs' = <<>> /\ seen' = {} /\ pool' = V!NoPool /\ unverified' = {} /\ ranked' \subseteq ranked
       /\ announced' = announced \union {<<r.who, r.place>> : r \in ranked'}
  BY DEF V!Gate, V!Clean
<1>3. announced' \subseteq Authors \X V!Places /\ ranked' \subseteq Rows
  BY <1>1, <1>2 DEF SupTyped, Rows
<1>4. SupTyped'
  BY <1>1, <1>2, <1>3, NothingYet DEF SupTyped
<1>5. SupWhere'
  BY <1>2 DEF SupWhere
<1>6. SupKept'
  <2>1. outcome' # "completed"
    BY <1>1, <1>2 DEF SupKept
  <2>2. ASSUME ~broken, ~rejected, NEW p \in announced' PROVE session[p] > 0 \/ \E r \in ranked' : <<r.who, r.place>> = p
    <3>1. CASE p \in announced
      BY <1>1, <1>2, <2>2, <3>1 DEF SupKept, Pending
    <3>2. CASE p \notin announced
      BY <1>2, <3>2
    <3> QED
      BY <3>1, <3>2
  <2> QED
    BY <1>2, <2>1, <2>2 DEF SupKept, Pending
<1> QED
  BY <1>4, <1>5, <1>6 DEF SupInv

LEMMA SupSave == ASSUME SupInv, V!Save PROVE SupInv'
<1>1. SupTyped /\ SupWhere /\ SupKept
  BY DEF SupInv
<1>2. UNCHANGED <<phase, chain, docs, seen, pool, unverified, used, committed, outcome, announced>> /\ phase = "save"
  BY DEF V!Save
<1>3. PICK r \in ranked, hits \in (IF Terms = 0 THEN {0} ELSE 1 .. Terms), answer \in {"saved", "rejected", "broken"} :
        /\ ranked' = ranked \ {r}
        /\ IF broken \/ answer # "saved"
           THEN /\ rejected' = TRUE /\ broken' = (broken \/ answer = "broken")
                /\ session' = IF broken' THEN committed ELSE session
           ELSE /\ session' = [session EXCEPT ![<<r.who, r.place>>] = V!Max2(@, V!ComputeFit(r, hits))]
                /\ UNCHANGED <<broken, rejected>>
  BY DEF V!Save
<1>4. r \in Rows /\ hits \in Nat /\ <<r.who, r.place>> \in Authors \X V!Places
  BY <1>1, <1>3, SupervisorsAssumption DEF SupTyped, Rows
<1>5. V!ComputeFit(r, hits) \in Nat \ {0}
  BY <1>4, FitIsPositive
<1> DEFINE place == <<r.who, r.place>>
           fit == V!ComputeFit(r, hits)
           saved == [session EXCEPT ![place] = V!Max2(@, fit)]
<1>6. /\ saved \in [Authors \X V!Places -> Nat]
      /\ saved[place] > 0
      /\ \A p \in Authors \X V!Places : saved[p] >= session[p]
  <2>1. session \in [Authors \X V!Places -> Nat] /\ place \in Authors \X V!Places /\ fit \in Nat \ {0}
    BY <1>1, <1>4, <1>5 DEF SupTyped
  <2> HIDE DEF place, fit
  <2>2. V!Max2(session[place], fit) \in Nat /\ V!Max2(session[place], fit) > 0 /\ V!Max2(session[place], fit) >= session[place]
    BY <2>1 DEF V!Max2
  <2>3. \A p \in Authors \X V!Places : session[p] \in Nat /\ saved[p] = IF p = place THEN V!Max2(session[place], fit) ELSE session[p]
    BY <2>1
  <2>4. saved = [p \in Authors \X V!Places |-> IF p = place THEN V!Max2(session[place], fit) ELSE session[p]]
    BY <2>1
  <2> HIDE DEF saved
  <2> QED
    BY <2>1, <2>2, <2>3, <2>4
<1> HIDE DEF fit, saved
<1>7. session' \in [Authors \X V!Places -> Nat] /\ ranked' \subseteq Rows
  BY <1>1, <1>3, <1>6 DEF SupTyped, saved, fit
<1>8. SupTyped'
  BY <1>1, <1>2, <1>7 DEF SupTyped
<1>9. SupWhere'
  BY <1>2 DEF SupWhere
<1>10. SupKept'
  <2>1. outcome # "completed"
    BY <1>1, <1>2 DEF SupKept
  <2>2. ASSUME ~broken', ~rejected', NEW p \in announced PROVE session'[p] > 0 \/ \E q \in ranked' : <<q.who, q.place>> = p
    <3>1. ~broken /\ answer = "saved" /\ session' = saved /\ ~rejected
      BY <1>3, <2>2 DEF saved, fit
    <3>2. p \in Authors \X V!Places
      BY <1>1 DEF SupTyped
    <3>3. session[p] \in Nat /\ session'[p] \in Nat
      BY <1>1, <1>7, <3>2 DEF SupTyped
    <3>4. CASE p = place
      BY <1>6, <3>1, <3>4
    <3>5. CASE p # place
      <4>1. session[p] > 0 \/ \E q \in ranked : <<q.who, q.place>> = p
        BY <1>1, <1>2, <3>1 DEF SupKept, Pending
      <4>2. CASE session[p] > 0
        <5>1. saved[p] >= session[p] /\ session'[p] = saved[p]
          BY <1>6, <3>1, <3>2
        <5> QED
          BY <3>3, <4>2, <5>1
      <4>3. CASE \E q \in ranked : <<q.who, q.place>> = p
        BY <1>3, <3>5, <4>3
      <4> QED
        BY <4>1, <4>2, <4>3
    <3> QED
      BY <3>4, <3>5
  <2> QED
    BY <1>2, <2>1, <2>2 DEF SupKept, Pending
<1> QED
  BY <1>8, <1>9, <1>10 DEF SupInv

LEMMA SupSaved == ASSUME SupInv, V!Saved PROVE SupInv'
<1>1. SupTyped /\ SupWhere /\ SupKept
  BY DEF SupInv
<1>2. UNCHANGED <<chain, docs, seen, pool, unverified, ranked, used, session, committed, broken, rejected, outcome, announced>>
       /\ phase = "save" /\ phase' = "pair" /\ ranked = {}
  BY DEF V!Saved, V!search, V!saving
<1>3. SupTyped'
  BY <1>1, <1>2 DEF SupTyped
<1>4. SupWhere'
  BY <1>2 DEF SupWhere
<1>5. SupKept'
  BY <1>1, <1>2 DEF SupKept, Pending
<1> QED
  BY <1>3, <1>4, <1>5 DEF SupInv

LEMMA SupCommit == ASSUME SupInv, V!Commit PROVE SupInv'
<1>1. SupTyped /\ SupWhere /\ SupKept
  BY DEF SupInv
<1>2. UNCHANGED <<chain, docs, seen, pool, unverified, ranked, used, session, broken, rejected, announced>>
       /\ phase = "pair" /\ phase' = "done" /\ committed' = (IF broken THEN committed ELSE session) /\ outcome' = V!Finished
  BY DEF V!Commit, V!search
<1>3. SupTyped'
  BY <1>1, <1>2 DEF SupTyped
<1>4. SupWhere'
  BY <1>2 DEF SupWhere
<1>5. SupKept'
  BY <1>1, <1>2 DEF SupKept, Pending, V!Finished
<1> QED
  BY <1>3, <1>4, <1>5 DEF SupInv

LEMMA SupStutter == ASSUME SupInv, UNCHANGED supervisors PROVE SupInv'
<1>1. UNCHANGED <<phase, chain, docs, seen, pool, unverified, ranked, used, session, committed, broken, rejected, outcome, announced>>
  BY DEF supervisors
<1>2. SupTyped'
  BY <1>1 DEF SupInv, SupTyped
<1>3. SupWhere'
  BY <1>1 DEF SupInv, SupWhere
<1>4. SupKept'
  BY <1>1 DEF SupInv, SupKept, Pending
<1> QED
  BY <1>2, <1>3, <1>4 DEF SupInv

LEMMA SupStep == ASSUME SupInv, V!Next PROVE SupInv'
BY SupNextPair, SupChoose, SupAdsPage, SupDocsPage, SupArxivQuery, SupPoolPage, SupRecords, SupVerify, SupGate, SupSave, SupSaved, SupCommit
   DEF V!Next

LEMMA SupSound == ASSUME SupInv PROVE V!RankedHaveWorks /\ V!CompletedIsStored
<1>1. \A a : V!AuthorsOwn(a) = Own(docs, a)
  BY DEF V!AuthorsOwn, Own
<1>2. V!RankedHaveWorks
  BY <1>1, SupervisorsCounts DEF SupInv, SupWhere, Worked, V!RankedHaveWorks
<1>3. V!CompletedIsStored
  BY DEF SupInv, SupKept, V!CompletedIsStored
<1> QED
  BY <1>2, <1>3

-----------------------------------------------------------------------------
(* Sources: queries, pages and siblings.                                       *)

LEMMA SourcesLoops ==
  ASSUME NEW s, NEW S
  PROVE  C!Picked(s, S) = Picked(s, S) /\ C!Among(s, S) = Among(s, S)
BY DEF C!Among, C!Picked, Among, Picked

LEMMA SourcesCounts ==
  ASSUME NEW S
  PROVE  C!Cardinality(S) = Cardinality(S)
BY DEF C!Cardinality, Cardinality

\* The numbers of a set in their order: each stands where there are as many up to it.
UpTo(x, S) == {y \in S : y <= x}
\* The how-manieth of S a posting is.
Rank(x, S) == Cardinality(UpTo(x, S))

LEMMA CountOneMore ==
  ASSUME NEW S, NEW k \in Nat, S \subseteq Nat \ {0}
  PROVE  /\ IsFiniteSet(UpTo(k, S)) /\ Rank(k, S) \in Nat
         /\ Rank(k + 1, S) = IF k + 1 \in S THEN Rank(k, S) + 1 ELSE Rank(k, S)
<1> DEFINE B(n) == {y \in S : y <= n}
<1>1. IsFiniteSet(B(k)) /\ Cardinality(B(k)) \in Nat
  <2>1. ASSUME NEW y \in B(k) PROVE y \in 1 .. k
    <3>1. y \in Nat \ {0} /\ y <= k
      BY <2>1
    <3> QED
      BY <3>1
  <2>2. IsFiniteSet(1 .. k)
    BY FS_Interval
  <2> HIDE DEF B
  <2> QED
    BY <2>1, <2>2, Fewer
<1>2. B(k + 1) = IF k + 1 \in S THEN B(k) \union {k + 1} ELSE B(k)
  <2>1. ASSUME NEW y \in S PROVE y <= k + 1 <=> y <= k \/ y = k + 1
    <3>1. y \in Nat
      OBVIOUS
    <3> QED
      BY <3>1
  <2>2. \A y : y \in B(k + 1) <=> y \in S /\ (y <= k \/ y = k + 1)
    BY <2>1
  <2>3. \A y : y \in B(k) <=> y \in S /\ y <= k
    OBVIOUS
  <2> HIDE DEF B
  <2>4. CASE k + 1 \in S
    BY <2>2, <2>3, <2>4
  <2>5. CASE k + 1 \notin S
    BY <2>2, <2>3, <2>5
  <2> QED
    BY <2>4, <2>5
<1>3. k + 1 \notin B(k)
  OBVIOUS
<1>4. Rank(k, S) = Cardinality(B(k)) /\ Rank(k + 1, S) = Cardinality(B(k + 1))
  BY DEF Rank, UpTo
<1>5. Cardinality(B(k) \union {k + 1}) = Cardinality(B(k)) + 1
  <2> HIDE DEF B
  <2> QED
    BY <1>1, <1>3, FS_AddElement
<1>6. UpTo(k, S) = B(k)
  BY DEF UpTo
<1> QED
  BY <1>1, <1>2, <1>4, <1>5, <1>6

LEMMA OrderedRank ==
  ASSUME NEW S, S \subseteq DOMAIN BoardPosts
  PROVE  /\ C!Ordered(S) \in Seq(S) /\ Len(C!Ordered(S)) = Cardinality(S) /\ IsFiniteSet(S) /\ Cardinality(S) \in Nat
         /\ \A x \in S : Rank(x, S) \in 1 .. Cardinality(S) /\ C!Ordered(S)[Rank(x, S)] = x
         /\ NoRepeats(C!Ordered(S)) /\ Range(C!Ordered(S)) = S
<1> DEFINE n == Len(BoardPosts)
           s == [i \in DOMAIN BoardPosts |-> i]
           Vals == {s[i] : i \in S \intersect (1 .. Len(s))}
<1>1. DOMAIN BoardPosts = 1 .. n /\ n \in Nat
  BY SourcesAssumption DEF IsList
<1>2. s \in Seq(1 .. n) /\ Len(s) = n /\ \A i \in 1 .. n : s[i] = i
  BY <1>1
<1>3. C!Ordered(S) = Picked(s, S)
  BY SourcesLoops DEF C!Ordered, C!Posts
<1> HIDE DEF s, n
<1>4. Vals = S
  BY <1>1, <1>2
<1>5. PICK f \in [0 .. Len(s) -> Seq(Vals)] :
          /\ f[0] = <<>>
          /\ \A k \in 1 .. Len(s) : f[k] = IF k \in S THEN Append(f[k - 1], s[k]) ELSE f[k - 1]
          /\ Picked(s, S) = f[Len(s)]
  BY <1>2, PickedSteps
<1> HIDE DEF Vals
<1>6. f \in [0 .. n -> Seq(S)] /\ f[0] = <<>> /\ (\A k \in 1 .. n : f[k] = IF k \in S THEN Append(f[k - 1], k) ELSE f[k - 1])
       /\ C!Ordered(S) = f[n]
  BY <1>2, <1>3, <1>4, <1>5
<1>7. S \subseteq Nat \ {0}
  BY <1>1
<1> DEFINE Ok(k) == Len(f[k]) = Rank(k, S) /\ \A x \in S : x <= k => Rank(x, S) \in 1 .. Rank(k, S) /\ f[k][Rank(x, S)] = x
           T == {k \in Nat : k \in 0 .. n => Ok(k)}
<1>8. 0 \in T
  <2>1. UpTo(0, S) = {}
    BY <1>7 DEF UpTo
  <2>2. Rank(0, S) = 0
    BY <2>1, FS_EmptySet DEF Rank
  <2>3. \A x \in S : ~(x <= 0)
    BY <1>7
  <2> QED
    BY <1>6, <2>2, <2>3
<1>9. ASSUME NEW k \in Nat, k \in T PROVE k + 1 \in T
  <2> SUFFICES ASSUME k + 1 \in 0 .. n PROVE Ok(k + 1)
    BY <1>9
  <2>0. (k + 1) - 1 = k /\ k \in 0 .. n /\ k + 1 \in 1 .. n
    BY <1>1, <1>9
  <2>1. Ok(k)
    BY <1>9, <2>0
  <2>2. Rank(k, S) \in Nat /\ Rank(k + 1, S) = IF k + 1 \in S THEN Rank(k, S) + 1 ELSE Rank(k, S)
    BY <1>7, CountOneMore
  <2>3. f[k] \in Seq(S) /\ f[k + 1] = IF k + 1 \in S THEN Append(f[k], k + 1) ELSE f[k]
    BY <1>6, <2>0
  <2>4. \A x \in S : x <= k + 1 => x <= k \/ x = k + 1
    BY <1>7
  <2>5. CASE k + 1 \in S
    <3> DEFINE a == Append(f[k], k + 1)
               r == Rank(k, S)
    <3>1. Len(f[k]) = r /\ r \in Nat
      BY <2>1, <2>2
    <3>2. Len(a) = r + 1 /\ a[r + 1] = k + 1 /\ \A i \in 1 .. r : a[i] = f[k][i]
      BY <2>3, <2>5, <3>1
    <3>3. f[k + 1] = a /\ Rank(k + 1, S) = r + 1
      BY <2>2, <2>3, <2>5
    <3> HIDE DEF a
    <3>4. ASSUME NEW x \in S, x <= k PROVE Rank(x, S) \in 1 .. (r + 1) /\ a[Rank(x, S)] = x
      BY <2>1, <3>1, <3>2, <3>4
    <3>5. r + 1 \in 1 .. (r + 1)
      BY <3>1
    <3> HIDE DEF r
    <3> QED
      BY <2>4, <3>2, <3>3, <3>4, <3>5
  <2>6. CASE k + 1 \notin S
    <3>1. f[k + 1] = f[k] /\ Rank(k + 1, S) = Rank(k, S) /\ \A x \in S : x <= k + 1 => x <= k
      BY <2>2, <2>3, <2>4, <2>6
    <3> QED
      BY <2>1, <3>1
  <2> QED
    BY <2>5, <2>6
<1> HIDE DEF T
<1>10. n \in T
  BY <1>1, <1>8, <1>9, Induction
<1>11. Ok(n)
  BY <1>1, <1>10 DEF T
<1>12. Rank(n, S) = Cardinality(S) /\ IsFiniteSet(S) /\ Cardinality(S) \in Nat
  <2>1. UpTo(n, S) = S
    BY <1>1 DEF UpTo
  <2>2. IsFiniteSet(UpTo(n, S)) /\ Rank(n, S) \in Nat
    <3> HIDE DEF Ok, n
    <3> QED
      BY <1>1, <1>7, CountOneMore
  <2> HIDE DEF Ok, n
  <2> QED
    BY <2>1, <2>2 DEF Rank
<1>13. \A x \in S : x <= n
  BY <1>1
<1>14. C!Ordered(S) \in Seq(S)
  BY <1>1, <1>6
<1>15. \A x \in S : Rank(x, S) \in 1 .. Cardinality(S) /\ C!Ordered(S)[Rank(x, S)] = x
  BY <1>6, <1>11, <1>12, <1>13
<1>16. NoRepeats(C!Ordered(S))
  <2>1. NoRepeats(s)
    BY <1>2 DEF NoRepeats
  <2> QED
    BY <1>2, <1>3, <2>1, PickedDistinct
<1>17. Range(C!Ordered(S)) = S
  <2>1. DOMAIN C!Ordered(S) = 1 .. Cardinality(S)
    BY <1>6, <1>11, <1>12, <1>14
  <2>2. Range(C!Ordered(S)) \subseteq S
    BY <1>14 DEF Range
  <2> QED
    BY <1>15, <2>1, <2>2 DEF Range
<1> QED
  BY <1>6, <1>11, <1>12, <1>14, <1>15, <1>16, <1>17

LEMMA SourcesRange ==
  ASSUME NEW s
  PROVE  C!Range(s) = Range(s)
BY DEF C!Range, Range

\* Queries, and what each source asks for is a list of them.
Queries == [of : SUBSET C!Posts, pages : Nat \ {0}, size : Nat \ {0}, most : Nat]

LEMMA BoardIsList == C!Posts = 1 .. Len(BoardPosts) /\ Len(BoardPosts) \in Nat
BY SourcesAssumption DEF IsList, C!Posts

LEMMA QueryTyped ==
  ASSUME NEW of \in SUBSET C!Posts, NEW pages \in Nat \ {0}, NEW size \in Nat \ {0}
  PROVE  C!Query(of, pages, size) \in Queries /\ C!WholePage(of) \in Queries
<1>1. Len(BoardPosts) \in Nat /\ Len(BoardPosts) + 1 \in Nat \ {0} /\ 1 \in Nat \ {0}
  BY BoardIsList
<1> QED
  BY <1>1 DEF C!Query, C!WholePage, Queries

LEMMA OnPosts ==
  ASSUME NEW subjects
  PROVE  C!On(subjects) \subseteq C!Posts /\ C!Doctoral \subseteq C!Posts /\ C!Ads \subseteq C!Posts
BY DEF C!On, C!Doctoral, C!Ads

LEMMA FirstFewTyped ==
  ASSUME NEW Items, NEW s \in Seq(Items), NEW n \in Nat
  PROVE  /\ C!FirstFew(s, n) \in Seq(Items) /\ Range(C!FirstFew(s, n)) \subseteq Range(s)
         /\ NoRepeats(s) => NoRepeats(C!FirstFew(s, n))
         /\ Len(s) <= n => C!FirstFew(s, n) = s
<1>1. C!Least(n, Len(s)) \in Nat /\ C!Least(n, Len(s)) <= Len(s) /\ (Len(s) <= n => C!Least(n, Len(s)) = Len(s))
  BY DEF C!Least
<1>2. SubSeq(s, 1, Len(s)) = s
  OBVIOUS
<1> QED
  BY <1>1, <1>2, BeginDistinct DEF C!FirstFew

LEMMA QueryEachTyped ==
  ASSUME NEW s, IsList(s)
  PROVE  C!QueryEach(s) \in Seq(Queries)
<1> DEFINE n == Len(s)
           r == C!QueryEach(s)
<1>1. n \in Nat /\ DOMAIN s = 1 .. n
  BY DEF IsList
<1>2. r = [k \in 1 .. n |-> C!WholePage(C!On({s[k]}))]
  BY <1>1 DEF C!QueryEach
<1>3. \A k \in 1 .. n : r[k] \in Queries
  BY <1>2, QueryTyped, OnPosts
<1>4. r = [k \in 1 .. n |-> r[k]]
  BY <1>2
<1> HIDE DEF r, n
<1> QED
  BY <1>1, <1>3, <1>4, Itemwise DEF r

LEMMA ListTyped ==
  ASSUME NEW s, IsList(s), NEW n \in Nat
  PROVE  IsList(C!FirstFew(s, n)) /\ Len(s) \in Nat /\ DOMAIN s = 1 .. Len(s) /\ s \in Seq(Range(s))
<1>1. s \in Seq(Range(s))
  BY DEF IsList, Range
<1>2. C!FirstFew(s, n) \in Seq(Range(s))
  BY <1>1, FirstFewTyped
<1>3. IsList(C!FirstFew(s, n))
  <2> DEFINE t == C!FirstFew(s, n)
  <2>1. t \in Seq(Range(s))
    BY <1>2
  <2> HIDE DEF t
  <2>2. t \in Seq({t[i] : i \in DOMAIN t})
    BY <2>1
  <2> QED
    BY <2>2 DEF IsList, t
<1> QED
  BY <1>1, <1>3

LEMMA TargetTyped ==
  ASSUME NEW a \in Asks, a.source \in {"euraxess", "aas", "academicjobsonline", "findaphd"}
  PROVE  /\ IsList(C!Target(a.source, a.field).values) /\ IsList(C!Target(a.source, a.field).adjacent)
         /\ IsList(C!ValuesFor(a))
<1> DEFINE fields == Registry[a.source]
           t == C!Target(a.source, a.field)
<1>0. a.source \in DOMAIN Registry
  BY SourcesAssumption
<1>1. \A f \in DOMAIN fields : IsList(fields[f].values) /\ IsList(fields[f].adjacent)
  BY <1>0, SourcesAssumption
<1>5. IsList(t.values) /\ IsList(t.adjacent)
  <2>2. CASE a.field \in DOMAIN fields
    <3>1. t = fields[a.field]
      BY <2>2, Zenon DEF C!Target
    <3> QED
      BY <1>1, <2>2, <3>1
  <2>3. CASE a.field \notin DOMAIN fields /\ "*" \in DOMAIN fields
    <3>1. t = fields["*"]
      BY <2>3, Zenon DEF C!Target
    <3> QED
      BY <1>1, <2>3, <3>1
  <2>4. CASE a.field \notin DOMAIN fields /\ "*" \notin DOMAIN fields
    <3>1. t = [values |-> <<>>, adjacent |-> <<>>]
      BY <2>4, Zenon DEF C!Target
    <3>2. IsList(<<>>)
      BY DEF IsList
    <3> QED
      BY <3>1, <3>2
  <2> QED
    BY <2>2, <2>3, <2>4
<1>6. IsList(a.option)
  BY SourcesAssumption
<1> QED
  BY <1>5, <1>6 DEF C!ValuesFor

\* Sweeps take records as many as they meet.
Full(q) == q \in Queries /\ q.most = Len(BoardPosts)

LEMMA FullQuery ==
  ASSUME NEW of \in SUBSET C!Posts, NEW pages \in Nat \ {0}, NEW size \in Nat \ {0}
  PROVE  Full(C!Query(of, pages, size))
BY QueryTyped DEF Full, C!Query

LEMMA SweepsTyped ==
  ASSUME NEW a \in Asks, a.source = "euraxess"
  PROVE  C!Sweeps(a) \in Seq({q \in Queries : Full(q)})
<1> DEFINE Q == {q \in Queries : Full(q)}
           values == C!Range(C!ValuesFor(a))
           adjacent == IF a.adjacent # <<>> THEN a.adjacent ELSE C!Target(a.source, a.field).adjacent
           s1 == <<C!Query(C!Doctoral, FieldPages, PostsPerPage)>>
           s2 == <<C!Query(C!On(values), FieldPages, PostsPerPage), C!Query(C!On(values) \cap C!Doctoral, PhdPages, PostsPerPage)>>
           s3 == [k \in DOMAIN adjacent |-> C!Query(C!On({adjacent[k]}) \cap C!Doctoral, PhdPages, PostsPerPage)]
<1>0. FieldPages \in Nat \ {0} /\ PhdPages \in Nat \ {0} /\ PostsPerPage \in Nat \ {0}
  BY SourcesAssumption
<1>1. \A of \in SUBSET C!Posts : C!Query(of, FieldPages, PostsPerPage) \in Q /\ C!Query(of, PhdPages, PostsPerPage) \in Q
  BY <1>0, QueryTyped, FullQuery
<1>2. IsList(adjacent)
  BY TargetTyped, SourcesAssumption
<1> DEFINE n == Len(adjacent)
<1>3. n \in Nat /\ DOMAIN adjacent = 1 .. n
  BY <1>2 DEF IsList
<1>4. C!Sweeps(a) = IF values = {} THEN s1 ELSE s2 \o s3
  BY Zenon DEF C!Sweeps
<1> HIDE DEF Q, values, adjacent, n
<1>5. s1 \in Seq(Q) /\ s2 \in Seq(Q)
  <2>1. C!Query(C!Doctoral, FieldPages, PostsPerPage) \in Q
    BY <1>1, OnPosts
  <2>2. C!Query(C!On(values), FieldPages, PostsPerPage) \in Q
    BY <1>1, OnPosts
  <2>3. C!Query(C!On(values) \cap C!Doctoral, PhdPages, PostsPerPage) \in Q
    BY <1>1, OnPosts
  <2> QED
    BY <2>1, <2>2, <2>3
<1>6. s3 \in Seq(Q)
  <2>1. \A k \in 1 .. n : s3[k] \in Q
    BY <1>1, <1>3, OnPosts
  <2>2. s3 = [k \in 1 .. n |-> s3[k]]
    BY <1>3
  <2> HIDE DEF s3
  <2> QED
    BY <1>3, <2>1, <2>2, Itemwise
<1> HIDE DEF s1, s2, s3
<1>7. s2 \o s3 \in Seq(Q)
  BY <1>5, <1>6
<1> QED
  BY <1>4, <1>5, <1>7 DEF Q

\* The sweeps of EURAXESS are asked as they are, or scoped and then again for fewer pages.
Scoped(q, a) == [q EXCEPT !.of = @ \cap C!Tagged(C!CountryFacets(a))]
\* The same query asked again without the scope.
Unscoped(q) == [q EXCEPT !.pages = C!Least(@, UNSCOPED_PAGES)]

LEMMA EuraxessTyped ==
  ASSUME NEW a \in Asks, a.source = "euraxess"
  PROVE  /\ C!Euraxess(a) \in Seq({q \in Queries : Full(q)})
         /\ C!CountryFacets(a) = {} => C!Euraxess(a) = C!Sweeps(a)
         /\ C!CountryFacets(a) # {} => \A k \in DOMAIN C!Sweeps(a) : Scoped(C!Sweeps(a)[k], a) \in Range(C!Euraxess(a))
<1> DEFINE Q == {q \in Queries : Full(q)}
           s == C!Sweeps(a)
           n == Len(s)
           u == [k \in DOMAIN s |-> [s[k] EXCEPT !.of = @ \cap C!Tagged(C!CountryFacets(a))]]
           w == [k \in DOMAIN s |-> [s[k] EXCEPT !.pages = C!Least(@, UNSCOPED_PAGES)]]
<1>1. s \in Seq(Q)
  BY SweepsTyped
<1>2. n \in Nat /\ DOMAIN s = 1 .. n /\ \A k \in 1 .. n : s[k] \in Q
  BY <1>1
<1>3. UNSCOPED_PAGES \in Nat \ {0}
  BY SourcesAssumption
<1>4. C!Euraxess(a) = IF C!CountryFacets(a) = {} THEN s ELSE u \o w
  BY Zenon DEF C!Euraxess
<1>5. ASSUME NEW q \in Q PROVE Scoped(q, a) \in Q /\ Unscoped(q) \in Q
  <2>1. q \in Queries /\ q.most = Len(BoardPosts)
    BY DEF Full
  <2>2. Scoped(q, a) \in Queries /\ Scoped(q, a).most = q.most
    BY <2>1 DEF Scoped, Queries
  <2>3. C!Least(q.pages, UNSCOPED_PAGES) \in Nat \ {0}
    BY <1>3, <2>1 DEF C!Least, Queries
  <2>4. Unscoped(q) \in Queries /\ Unscoped(q).most = q.most
    BY <2>1, <2>3 DEF Unscoped, Queries
  <2> QED
    BY <2>1, <2>2, <2>4 DEF Full
<1> HIDE DEF Q
<1>6. u \in Seq(Q) /\ Len(u) = n /\ \A k \in 1 .. n : u[k] = Scoped(s[k], a)
  <2>1. \A k \in 1 .. n : u[k] = Scoped(s[k], a)
    BY <1>2 DEF Scoped
  <2>2. u = [k \in 1 .. n |-> u[k]]
    BY <1>2
  <2> HIDE DEF u
  <2>3. \A k \in 1 .. n : u[k] \in Q
    BY <1>2, <1>5, <2>1
  <2> QED
    BY <1>2, <2>1, <2>2, <2>3, Itemwise
<1>7. w \in Seq(Q)
  <2>1. \A k \in 1 .. n : w[k] = Unscoped(s[k])
    BY <1>2 DEF Unscoped
  <2>2. w = [k \in 1 .. n |-> w[k]]
    BY <1>2
  <2> HIDE DEF w
  <2>3. \A k \in 1 .. n : w[k] \in Q
    BY <1>2, <1>5, <2>1
  <2> QED
    BY <1>2, <2>2, <2>3, Itemwise
<1> HIDE DEF u, w, s
<1>8. u \o w \in Seq(Q) /\ Range(u) \subseteq Range(u \o w)
  <2>1. u \o w \in Seq(Q)
    BY <1>6, <1>7
  <2> QED
    BY <1>6, <1>7, <2>1, RangeOfJoin
<1>9. ASSUME NEW k \in DOMAIN s PROVE Scoped(s[k], a) \in Range(u)
  <2>1. DOMAIN u = 1 .. n
    BY <1>6
  <2> QED
    BY <1>2, <1>6, <2>1 DEF Range
<1>10. CASE C!CountryFacets(a) = {}
  BY <1>1, <1>4, <1>10 DEF s, Q
<1>11. CASE C!CountryFacets(a) # {}
  BY <1>4, <1>8, <1>9, <1>11 DEF s, Q
<1> QED
  BY <1>10, <1>11

LEMMA ProductNat ==
  ASSUME NEW n \in Nat, NEW m \in Nat
  PROVE  n * m \in Nat
OBVIOUS

LEMMA LinkedinTyped ==
  ASSUME NEW a \in Asks
  PROVE  C!Linkedin(a) \in Seq(Queries)
<1> DEFINE W == IF a.wanted # {} THEN a.wanted ELSE Locations
           places == C!SetToSeq(W)
           phrases == C!Phrases(a)
           m == Len(places) * Len(phrases)
           r == C!Linkedin(a)
<1>1. Len(places) \in Nat
  <2>1. IsFiniteSet(W)
    BY SourcesAssumption
  <2> HIDE DEF W
  <2>2. PICK n \in Nat : \E f : ExistsBijection(1 .. n, W)
    BY <2>1, FS_NatBijection
  <2>3. Cardinality(W) = n /\ C!Cardinality(W) = n
    BY <2>2, FS_CountingElements, SourcesCounts
  <2>4. \E f \in [1 .. n -> W] : C!IsInjective(f)
    BY <2>2 DEF ExistsBijection, Bijection, Injection, IsInjective, C!IsInjective
  <2>5. C!SetToSeq(W) \in [1 .. n -> W]
    BY <2>3, <2>4 DEF C!SetToSeq
  <2> QED
    BY <2>5
<1>2. Len(phrases) \in Nat
  <2>1. IsList(a.option) /\ IsList(a.terms) /\ IsList(a.types) /\ IsList(LINKEDIN_KEYWORDS) /\ LINKEDIN_MAX_KEYWORDS \in Nat
    BY SourcesAssumption
  <2>2. Len(a.option) \in Nat /\ Len(a.terms) \in Nat /\ Len(a.types) \in Nat /\ Len(LINKEDIN_KEYWORDS) \in Nat
    BY <2>1, ListTyped
  <2> DEFINE l == Len(a.terms) * Len(a.types)
             all == [k \in 1 .. l |-> <<a.terms[((k - 1) \div Len(a.types)) + 1], a.types[((k - 1) % Len(a.types)) + 1]>>]
  <2>3. l \in Nat
    BY <2>2, ProductNat
  <2>4. all = [k \in 1 .. l |-> all[k]] /\ \A k \in 1 .. l : all[k] \in {all[j] : j \in 1 .. l}
    OBVIOUS
  <2>5. phrases = IF a.option # <<>> THEN a.option ELSE IF a.terms = <<>> THEN LINKEDIN_KEYWORDS ELSE C!FirstFew(all, LINKEDIN_MAX_KEYWORDS)
    BY Zenon DEF C!Phrases
  <2> HIDE DEF all, l
  <2>6. all \in Seq({all[j] : j \in 1 .. l})
    BY <2>3, <2>4, Itemwise
  <2>7. C!FirstFew(all, LINKEDIN_MAX_KEYWORDS) \in Seq({all[j] : j \in 1 .. l})
    BY <2>1, <2>6, FirstFewTyped
  <2>8. Len(C!FirstFew(all, LINKEDIN_MAX_KEYWORDS)) \in Nat
    BY <2>7
  <2> HIDE DEF phrases
  <2> QED
    BY <2>2, <2>5, <2>8
<1>3. m \in Nat
  BY <1>1, <1>2, ProductNat
<1>4. r = [k \in 1 .. m |-> r[k]]
  BY DEF C!Linkedin
<1>5. \A k \in 1 .. m : r[k] \in Queries
  <2>1. PostsPerPage \in Nat \ {0} /\ 1 \in Nat \ {0}
    BY SourcesAssumption
  <2>2. \A x, y, z : (C!Ads \cap x \cap y) \cap z \in SUBSET C!Posts
    BY OnPosts
  <2>3. \A x, y, z : C!Query((C!Ads \cap x \cap y) \cap z, 1, PostsPerPage) \in Queries
    BY <2>1, <2>2, QueryTyped
  <2> HIDE DEF m
  <2> QED
    BY <2>3 DEF C!Linkedin, m
<1> HIDE DEF r, m
<1>6. r \in Seq(Queries)
  BY <1>3, <1>4, <1>5, Itemwise
<1> QED
  BY <1>6 DEF r

LEMMA FewTermsTyped ==
  ASSUME NEW a \in Asks, NEW n \in Nat
  PROVE  C!QueryEach(C!FirstFew(a.terms, n)) \in Seq(Queries)
<1>1. IsList(a.terms)
  BY SourcesAssumption
<1>2. IsList(C!FirstFew(a.terms, n))
  BY <1>1, ListTyped
<1> QED
  BY <1>2, QueryEachTyped

LEMMA JobsAcUkTyped ==
  ASSUME NEW a \in Asks
  PROVE  C!JobsAcUk(a) \in Seq(Queries)
<1> DEFINE terms == C!FirstFew(a.terms, 4)
           n == Len(terms)
           r == C!JobsAcUk(a)
<1>1. IsList(terms)
  BY ListTyped, SourcesAssumption
<1>2. n \in Nat /\ DOMAIN terms = 1 .. n
  BY <1>1, ListTyped
<1>3. r = [k \in DOMAIN terms |-> [C!WholePage(C!On({terms[k]}) \cap C!Doctoral) EXCEPT !.size = PostsPerPage]]
  BY Zenon DEF C!JobsAcUk
<1>4. PostsPerPage \in Nat \ {0}
  BY SourcesAssumption
<1>5. ASSUME NEW q \in Queries PROVE [q EXCEPT !.size = PostsPerPage] \in Queries
  BY <1>4 DEF Queries
<1> HIDE DEF r, terms, n
<1>6. \A k \in 1 .. n : r[k] \in Queries
  <2>1. \A x : C!WholePage(C!On(x) \cap C!Doctoral) \in Queries
    <3>1. \A x : C!On(x) \cap C!Doctoral \in SUBSET C!Posts
      BY OnPosts
    <3>2. 1 \in Nat \ {0}
      OBVIOUS
    <3> QED
      BY <3>1, <3>2, QueryTyped
  <2> QED
    BY <1>2, <1>3, <1>5, <2>1
<1>7. r = [k \in 1 .. n |-> r[k]]
  BY <1>2, <1>3
<1>8. r \in Seq(Queries)
  BY <1>2, <1>6, <1>7, Itemwise
<1> QED
  BY <1>8 DEF r

LEMMA WholeTyped ==
  ASSUME NEW of \in SUBSET C!Posts
  PROVE  C!WholePage(of) \in Queries
<1>1. 1 \in Nat \ {0}
  OBVIOUS
<1> QED
  BY <1>1, QueryTyped

LEMMA EsaTyped ==
  ASSUME NEW a \in Asks
  PROVE  C!Esa(a) \in Seq(Queries) /\ C!SsrFallback \in Queries
<1>1. C!WholePage(C!Doctoral) \in Queries /\ C!WholePage(C!Posts) \in Queries
  BY WholeTyped, OnPosts
<1>2. C!SsrFallback \in Queries
  <2>1. 1 \in Nat \ {0} /\ PostsPerPage \in Nat \ {0}
    BY SourcesAssumption
  <2>2. C!Posts \in SUBSET C!Posts
    OBVIOUS
  <2> QED
    BY <2>1, <2>2, QueryTyped DEF C!SsrFallback
<1> QED
  BY <1>1, <1>2 DEF C!Esa

LEMMA FindaphdTyped ==
  ASSUME NEW a \in Asks, a.source = "findaphd"
  PROVE  C!Findaphd(a) \in Seq(Queries)
<1> DEFINE slugs == C!ValuesFor(a)
           n == Len(slugs)
           r == C!Findaphd(a)
<1>1. n \in Nat /\ DOMAIN slugs = 1 .. n
  <2>1. IsList(slugs)
    BY TargetTyped
  <2> QED
    BY <2>1, ListTyped
<1>2. r = [k \in DOMAIN slugs |-> C!WholePage(C!Ads \cap C!On({slugs[k]}) \cap C!Doctoral)]
  BY Zenon DEF C!Findaphd
<1> HIDE DEF r, slugs, n
<1>3. \A x : C!WholePage(C!Ads \cap x \cap C!Doctoral) \in Queries
  BY WholeTyped, OnPosts
<1>4. \A k \in 1 .. n : r[k] \in Queries
  BY <1>1, <1>2, <1>3
<1>5. r = [k \in 1 .. n |-> r[k]]
  BY <1>1, <1>2
<1>6. r \in Seq(Queries)
  BY <1>1, <1>4, <1>5, Itemwise
<1> QED
  BY <1>6 DEF r

LEMMA AasTyped ==
  ASSUME NEW a \in Asks, a.source = "aas"
  PROVE  C!Aas(a) \in Seq(Queries)
<1> DEFINE target == C!Target(a.source, a.field)
           urls == C!UrlsFor(a)
           n == Len(urls)
           r == C!Aas(a)
<1>1. urls \in Seq(Queries)
  <2>1. IsList(target.values) /\ IsList(target.adjacent)
    BY TargetTyped
  <2>2. C!QueryEach(target.adjacent) \in Seq(Queries)
    BY <2>1, QueryEachTyped
  <2>3. <<C!WholePage(C!On(C!Range(target.values)))>> \in Seq(Queries)
    <3>1. C!WholePage(C!On(C!Range(target.values))) \in Queries
      BY WholeTyped, OnPosts
    <3> QED
      BY <3>1
  <2>4. urls = IF target.values = <<>> THEN <<>> ELSE <<C!WholePage(C!On(C!Range(target.values)))>> \o C!QueryEach(target.adjacent)
    BY Zenon DEF C!UrlsFor
  <2>5. <<C!WholePage(C!On(C!Range(target.values)))>> \o C!QueryEach(target.adjacent) \in Seq(Queries)
    BY <2>2, <2>3
  <2>6. <<>> \in Seq(Queries)
    OBVIOUS
  <2> HIDE DEF urls, target
  <2> QED
    BY <2>4, <2>5, <2>6
<1>2. n \in Nat /\ DOMAIN urls = 1 .. n /\ \A k \in 1 .. n : urls[k] \in Queries
  BY <1>1
<1>3. r = [k \in DOMAIN urls |-> [urls[k] EXCEPT !.of = @ \cap C!Ads]]
  BY Zenon DEF C!Aas
<1> HIDE DEF r, urls, n
<1>4. ASSUME NEW q \in Queries PROVE [q EXCEPT !.of = @ \cap C!Ads] \in Queries
  BY DEF Queries
<1>5. \A k \in 1 .. n : r[k] \in Queries
  BY <1>2, <1>3, <1>4
<1>6. r = [k \in 1 .. n |-> r[k]]
  BY <1>2, <1>3
<1>7. r \in Seq(Queries)
  BY <1>2, <1>5, <1>6, Itemwise
<1> QED
  BY <1>7 DEF r

LEMMA UniTyped ==
  ASSUME NEW a \in Asks
  PROVE  C!UniDepartments(a) \in Seq(Queries)
<1> DEFINE S == {d \in C!Range(a.departments) : a.wanted = {} \/ d.country \in a.wanted}
           mine == C!Among(a.departments, S)
           n == Len(mine)
           r == C!UniDepartments(a)
<1>1. n \in Nat /\ DOMAIN mine = 1 .. n
  <2>1. IsList(a.departments)
    BY SourcesAssumption
  <2>2. a.departments \in Seq(Range(a.departments))
    BY <2>1, ListTyped
  <2>3. mine \in Seq(Range(a.departments))
    BY <2>2, AmongItems, SourcesLoops
  <2> HIDE DEF mine
  <2> QED
    BY <2>3
<1>2. r = [k \in DOMAIN mine |-> [C!WholePage(mine[k].links \cap C!Ads) EXCEPT !.most = MaxLinks]]
  BY Zenon DEF C!UniDepartments
<1> HIDE DEF r, mine, n
<1>3. \A x : C!WholePage(x \cap C!Ads) \in Queries
  BY WholeTyped, OnPosts
<1>4. ASSUME NEW q \in Queries PROVE [q EXCEPT !.most = MaxLinks] \in Queries
  BY SourcesAssumption DEF Queries
<1>5. \A k \in 1 .. n : r[k] \in Queries
  BY <1>1, <1>2, <1>3, <1>4
<1>6. r = [k \in 1 .. n |-> r[k]]
  BY <1>1, <1>2
<1>7. r \in Seq(Queries)
  BY <1>1, <1>5, <1>6, Itemwise
<1> QED
  BY <1>7 DEF r

LEMMA SeedsPlanned ==
  ASSUME NEW a \in Asks, a.source = "seed_urls"
  PROVE  /\ C!Plan(a) \in Seq(Queries)
         /\ \A k \in DOMAIN C!Plan(a) : C!Plan(a)[k].of # {} /\ C!Plan(a)[k].of \subseteq Range(a.seeds)
<1> DEFINE n == Len(a.seeds)
           r == C!Plan(a)
<1>1. a.seeds \in Seq(C!Posts)
  BY SourcesAssumption DEF C!Posts
<1>2. n \in Nat /\ DOMAIN a.seeds = 1 .. n /\ \A k \in 1 .. n : a.seeds[k] \in C!Posts /\ a.seeds[k] \in Range(a.seeds)
  BY <1>1 DEF Range
<1>3. r = [k \in DOMAIN a.seeds |-> C!WholePage({a.seeds[k]})]
  BY DEF C!Plan
<1> HIDE DEF r, n
<1>4. \A k \in 1 .. n : r[k] = C!WholePage({a.seeds[k]})
  BY <1>2, <1>3
<1>5. \A k \in 1 .. n : r[k] \in Queries
  BY <1>2, <1>4, WholeTyped
<1>6. \A k \in 1 .. n : r[k].of = {a.seeds[k]}
  <2>1. \A x : C!WholePage(x).of = x
    BY DEF C!WholePage, C!Query
  <2> QED
    BY <1>4, <2>1
<1>7. r = [k \in 1 .. n |-> r[k]]
  BY <1>2, <1>3
<1>8. r \in Seq(Queries) /\ Len(r) = n
  BY <1>2, <1>5, <1>7, Itemwise
<1>9. DOMAIN r = 1 .. n
  BY <1>8
<1>10. ASSUME NEW k \in DOMAIN r PROVE r[k].of # {} /\ r[k].of \subseteq Range(a.seeds)
  <2>1. k \in 1 .. n /\ r[k].of = {a.seeds[k]} /\ a.seeds[k] \in Range(a.seeds)
    BY <1>2, <1>6, <1>9
  <2> QED
    BY <2>1
<1> QED
  BY <1>8, <1>10 DEF r

LEMMA PlanIsQueries ==
  ASSUME NEW a \in Asks
  PROVE  C!Plan(a) \in Seq(Queries)
<1>0. a.source \in {"euraxess", "linkedin", "jobs_ac_uk", "jrecin", "nature_careers", "esa", "academicjobsonline", "findaphd",
                    "aas", "academictransfer", "uni_departments", "eso", "seed_urls"}
  BY SourcesAssumption
<1>1. ASSUME a.source = "euraxess" PROVE C!Plan(a) \in Seq(Queries)
  <2>1. C!Plan(a) = C!Euraxess(a)
    BY <1>1 DEF C!Plan
  <2>2. {q \in Queries : Full(q)} \subseteq Queries
    OBVIOUS
  <2>3. C!Euraxess(a) \in Seq(Queries)
    BY <1>1, <2>2, EuraxessTyped, Wider
  <2> QED
    BY <2>1, <2>3
<1>2. ASSUME a.source = "linkedin" PROVE C!Plan(a) \in Seq(Queries)
  <2>1. C!Plan(a) = C!Linkedin(a)
    BY <1>2 DEF C!Plan
  <2> QED
    BY <2>1, LinkedinTyped
<1>3. ASSUME a.source = "jobs_ac_uk" PROVE C!Plan(a) \in Seq(Queries)
  <2>1. C!Plan(a) = C!JobsAcUk(a)
    BY <1>3 DEF C!Plan
  <2> QED
    BY <2>1, JobsAcUkTyped
<1>4. ASSUME a.source \in {"jrecin", "nature_careers", "academictransfer"} PROVE C!Plan(a) \in Seq(Queries)
  <2>1. C!Plan(a) = C!Jrecin(a) \/ C!Plan(a) = C!NatureCareers(a) \/ C!Plan(a) = C!Academictransfer(a)
    BY <1>4 DEF C!Plan
  <2>2. 3 \in Nat /\ 6 \in Nat /\ 2 \in Nat
    OBVIOUS
  <2> QED
    BY <2>1, <2>2, FewTermsTyped DEF C!Jrecin, C!NatureCareers, C!Academictransfer
<1>5. ASSUME a.source = "esa" PROVE C!Plan(a) \in Seq(Queries)
  <2>1. C!Plan(a) = C!Esa(a)
    BY <1>5 DEF C!Plan
  <2> QED
    BY <2>1, EsaTyped
<1>6. ASSUME a.source = "academicjobsonline" PROVE C!Plan(a) \in Seq(Queries)
  <2>1. C!Plan(a) = C!QueryEach(C!ValuesFor(a))
    BY <1>6 DEF C!Plan, C!Academicjobsonline
  <2> QED
    BY <1>6, <2>1, TargetTyped, QueryEachTyped
<1>7. ASSUME a.source = "findaphd" PROVE C!Plan(a) \in Seq(Queries)
  <2>1. C!Plan(a) = C!Findaphd(a)
    BY <1>7 DEF C!Plan
  <2> QED
    BY <1>7, <2>1, FindaphdTyped
<1>8. ASSUME a.source = "aas" PROVE C!Plan(a) \in Seq(Queries)
  <2>1. C!Plan(a) = C!Aas(a)
    BY <1>8 DEF C!Plan
  <2> QED
    BY <1>8, <2>1, AasTyped
<1>9. ASSUME a.source = "uni_departments" PROVE C!Plan(a) \in Seq(Queries)
  <2>1. C!Plan(a) = C!UniDepartments(a)
    BY <1>9 DEF C!Plan
  <2> QED
    BY <2>1, UniTyped
<1>10. ASSUME a.source = "eso" PROVE C!Plan(a) \in Seq(Queries)
  <2>1. C!Plan(a) = <<>>
    BY <1>10 DEF C!Plan
  <2>2. <<>> \in Seq(Queries)
    OBVIOUS
  <2> QED
    BY <2>1, <2>2
<1> QED
  BY <1>0, <1>1, <1>2, <1>3, <1>4, <1>5, <1>6, <1>7, <1>8, <1>9, <1>10, SeedsPlanned

-----------------------------------------------------------------------------
\* What a query may still reach is by rank.
LEMMA ReachIsRank ==
  ASSUME NEW q \in Queries
  PROVE  C!Reach(q) = {x \in q.of : Rank(x, q.of) <= q.pages * q.size}
<1> DEFINE S == q.of
           n == Cardinality(S)
           m == q.pages * q.size
           s == C!Ordered(S)
           e == C!Least(m, n)
           t == SubSeq(s, 1, e)
<1>1. S \in SUBSET C!Posts /\ m \in Nat
  BY ProductNat DEF Queries
<1>2. /\ s \in Seq(S) /\ Len(s) = n /\ n \in Nat /\ NoRepeats(s)
      /\ \A x \in S : Rank(x, S) \in 1 .. n /\ s[Rank(x, S)] = x
  BY <1>1, OrderedRank DEF C!Posts
<1>3. C!Reach(q) = Range(t)
  BY SourcesRange, SourcesCounts DEF C!Reach
<1>4. e \in Nat /\ e <= n /\ e <= m /\ (e = n \/ e = m)
  BY <1>1, <1>2 DEF C!Least
<1> HIDE DEF S, n, m, s, e
<1>5. t \in Seq(S) /\ DOMAIN t = 1 .. e /\ \A i \in 1 .. e : t[i] = s[i]
  BY <1>2, <1>4
<1> HIDE DEF t
<1>6. ASSUME NEW x \in Range(t) PROVE x \in S /\ Rank(x, S) <= m
  <2>1. PICK i \in 1 .. e : x = s[i]
    BY <1>5 DEF Range
  <2>2. i \in 1 .. n /\ x \in S
    BY <1>2, <1>4, <2>1
  <2>3. Rank(x, S) = i
    BY <1>2, <2>1, <2>2 DEF NoRepeats
  <2> QED
    BY <1>1, <1>4, <2>2, <2>3
<1>7. ASSUME NEW x \in S, Rank(x, S) <= m PROVE x \in Range(t)
  <2>1. Rank(x, S) \in 1 .. e
    BY <1>2, <1>4, <1>7
  <2> QED
    BY <1>2, <1>5, <2>1 DEF Range
<1> QED
  BY <1>3, <1>6, <1>7 DEF S, m

\* A smaller set has no larger ranks.
LEMMA RankGrows ==
  ASSUME NEW S, S \subseteq C!Posts, NEW R, R \subseteq S, NEW x \in R
  PROVE  Rank(x, R) <= Rank(x, S) /\ Rank(x, R) \in Nat /\ Rank(x, S) \in Nat
<1>1. S \subseteq Nat \ {0} /\ x \in Nat
  BY BoardIsList
<1>2. IsFiniteSet(UpTo(x, S)) /\ Rank(x, R) \in Nat /\ Rank(x, S) \in Nat
  BY <1>1, CountOneMore
<1>3. UpTo(x, R) \subseteq UpTo(x, S)
  BY DEF UpTo
<1> QED
  BY <1>2, <1>3, FS_Subset DEF Rank

\* What a source delivers.
Record == [post : C!Posts, seed : BOOLEAN]
Posted(o) == {o[k].post : k \in DOMAIN o}

LEMMA RecordsJoin ==
  ASSUME NEW o \in Seq(Record), NEW new \in Seq(C!Posts)
  PROVE  /\ o \o C!Records(new) \in Seq(Record) /\ Len(o \o C!Records(new)) = Len(o) + Len(new)
         /\ \A i \in 1 .. Len(o) : (o \o C!Records(new))[i] = o[i]
         /\ \A i \in 1 .. Len(new) : (o \o C!Records(new))[Len(o) + i] = [post |-> new[i], seed |-> FALSE]
         /\ Posted(o \o C!Records(new)) = Posted(o) \union Range(new)
<1> DEFINE n == Len(new)
           m == Len(o)
           r == C!Records(new)
           w == o \o r
<1>1. n \in Nat /\ m \in Nat /\ DOMAIN new = 1 .. n /\ DOMAIN o = 1 .. m
  OBVIOUS
<1>2. r = [k \in 1 .. n |-> [post |-> new[k], seed |-> FALSE]]
  BY <1>1 DEF C!Records
<1> HIDE DEF r, n, m
<1>3. \A k \in 1 .. n : r[k] = [post |-> new[k], seed |-> FALSE] /\ r[k] \in Record
  BY <1>1, <1>2 DEF Record
<1>4. r = [k \in 1 .. n |-> r[k]]
  BY <1>2
<1>5. r \in Seq(Record) /\ Len(r) = n
  BY <1>1, <1>3, <1>4, Itemwise
<1>6. w \in Seq(Record) /\ Len(w) = m + n /\ \A i \in 1 .. m : w[i] = o[i]
  BY <1>5 DEF m
<1>7. \A i \in 1 .. n : w[m + i] = r[i]
  BY <1>1, <1>5 DEF m
<1>8. DOMAIN w = 1 .. (m + n)
  BY <1>6
<1>13. ASSUME NEW k \in 1 .. n PROVE w[m + k].post = new[k]
  <2>1. w[m + k] = [post |-> new[k], seed |-> FALSE]
    BY <1>3, <1>7
  <2> HIDE DEF w
  <2> QED
    BY <2>1
<1> HIDE DEF w
<1>9. ASSUME NEW i \in 1 .. (m + n) PROVE w[i].post \in Posted(o) \union Range(new)
  <2>1. CASE i \in 1 .. m
    BY <1>1, <1>6, <2>1 DEF Posted
  <2>2. CASE i \notin 1 .. m
    <3>1. i - m \in 1 .. n /\ m + (i - m) = i
      BY <1>1, <2>2
    <3>2. w[i].post = new[i - m]
      BY <1>13, <3>1
    <3> QED
      BY <1>1, <3>1, <3>2 DEF Range
  <2> QED
    BY <2>1, <2>2
<1>10. ASSUME NEW i \in 1 .. m PROVE o[i].post \in Posted(w)
  <2>1. i \in 1 .. (m + n) /\ w[i] = o[i]
    BY <1>1, <1>6
  <2> QED
    BY <1>8, <2>1 DEF Posted
<1>11. ASSUME NEW i \in 1 .. n PROVE new[i] \in Posted(w)
  <2>1. m + i \in 1 .. (m + n) /\ w[m + i].post = new[i]
    BY <1>1, <1>13
  <2> QED
    BY <1>8, <2>1 DEF Posted
<1>12. Posted(w) = Posted(o) \union Range(new)
  BY <1>1, <1>8, <1>9, <1>10, <1>11 DEF Posted, Range
<1> QED
  BY <1>3, <1>6, <1>7, <1>12 DEF w, r, n, m

LEMMA AmongIsShorter ==
  ASSUME NEW Items, NEW s \in Seq(Items), NEW S
  PROVE  Len(Among(s, S)) <= Len(s)
<1> DEFINE I == {i \in DOMAIN s : s[i] \in S}
           len == Len(s)
           Vals == {s[i] : i \in I \intersect (1 .. len)}
<1>1. len \in Nat
  OBVIOUS
<1>2. PICK f \in [0 .. len -> Seq(Vals)] :
          /\ f[0] = <<>>
          /\ \A n \in 1 .. len : f[n] = IF n \in I THEN Append(f[n - 1], s[n]) ELSE f[n - 1]
          /\ Picked(s, I) = f[len]
  BY PickedSteps
<1>3. Among(s, S) = f[len]
  BY <1>2 DEF Among
<1>0. \A n \in 1 .. len : n \in I => s[n] \in Vals
  OBVIOUS
<1> HIDE DEF I, len, Vals
<1> DEFINE Ok(n) == f[n] \in Seq(Vals) /\ Len(f[n]) <= n
           T == {n \in Nat : n \in 0 .. len => Ok(n)}
<1>4. 0 \in T
  <2>1. Len(f[0]) <= 0 /\ f[0] \in Seq(Vals)
    BY <1>2
  <2> QED
    BY <2>1
<1>5. ASSUME NEW n \in Nat, n \in T PROVE n + 1 \in T
  <2> SUFFICES ASSUME n + 1 \in 0 .. len PROVE Ok(n + 1)
    BY <1>5
  <2>0. (n + 1) - 1 = n /\ n \in 0 .. len /\ n + 1 \in 1 .. len
    BY <1>1, <1>5
  <2>1. f[n] \in Seq(Vals) /\ Len(f[n]) <= n
    BY <1>5, <2>0
  <2>2. f[n + 1] = IF n + 1 \in I THEN Append(f[n], s[n + 1]) ELSE f[n]
    BY <1>2, <2>0
  <2>3. CASE n + 1 \in I
    <3>1. f[n + 1] = Append(f[n], s[n + 1]) /\ s[n + 1] \in Vals
      BY <1>0, <2>0, <2>2, <2>3
    <3>2. f[n + 1] \in Seq(Vals) /\ Len(f[n + 1]) = Len(f[n]) + 1
      BY <2>1, <3>1
    <3> QED
      BY <2>1, <3>2
  <2>4. CASE n + 1 \notin I
    BY <2>1, <2>2, <2>4
  <2> QED
    BY <2>3, <2>4
<1> HIDE DEF T
<1>6. len \in T
  BY <1>1, <1>4, <1>5, Induction
<1>7. Ok(len)
  BY <1>1, <1>6 DEF T
<1> QED
  BY <1>3, <1>7 DEF len

\* A page of a query, and what it adds.
Page(q, n) == SubSeq(C!Ordered(q.of), (n * q.size) + 1, C!Least((n + 1) * q.size, Len(C!Ordered(q.of))))
\* What a query takes of one page.
NewOn(q, n, K) == C!FirstFew(C!Among(Page(q, n), C!Posts \ K), q.most)
\* What a query reaches on its first n pages.
UpToPage(q, n) == {x \in q.of : Rank(x, q.of) <= n * q.size}

LEMMA PageAdds ==
  ASSUME NEW q \in Queries, NEW n \in Nat, n * q.size <= Cardinality(q.of), NEW K
  PROVE  /\ NewOn(q, n, K) \in Seq(C!Posts)
         /\ q.most >= Cardinality(q.of) => UpToPage(q, n + 1) \subseteq UpToPage(q, n) \union K \union Range(NewOn(q, n, K))
         /\ Len(Page(q, n)) < q.size => q.of \subseteq UpToPage(q, n + 1)
         /\ ~(Len(Page(q, n)) < q.size) => (n + 1) * q.size <= Cardinality(q.of)
<1> DEFINE S == q.of
           c == Cardinality(S)
           z == q.size
           s == C!Ordered(S)
           lo == n * z
           hi == (n + 1) * z
           e == C!Least(hi, c)
           p == Page(q, n)
           a == C!Among(p, C!Posts \ K)
           new == NewOn(q, n, K)
<1>1. S \in SUBSET C!Posts /\ z \in Nat \ {0} /\ q.most \in Nat
  BY DEF Queries
<1>2. /\ s \in Seq(S) /\ Len(s) = c /\ c \in Nat
      /\ \A x \in S : Rank(x, S) \in 1 .. c /\ s[Rank(x, S)] = x
  BY <1>1, OrderedRank DEF C!Posts
<1>3. lo \in Nat /\ hi \in Nat /\ hi = lo + z /\ lo <= c
  BY <1>1
<1>4. e \in Nat /\ e <= c /\ e <= hi /\ (e = c \/ e = hi) /\ lo <= e
  BY <1>2, <1>3, <1>1 DEF C!Least
<1>5. p = SubSeq(s, lo + 1, e)
  BY <1>2 DEF Page
<1>15. new = C!FirstFew(a, q.most)
  BY DEF NewOn
<1> HIDE DEF S, c, s, lo, hi, e, p, a, new, z
<1>6. p \in Seq(S) /\ Len(p) = e - lo /\ \A i \in 1 .. (e - lo) : p[i] = s[lo + i]
  BY <1>2, <1>3, <1>4, <1>5
<1>7. a \in Seq(S) /\ Range(a) = Range(p) \intersect (C!Posts \ K) /\ Len(a) <= Len(p)
  <2>1. a = Among(p, C!Posts \ K)
    BY SourcesLoops DEF a
  <2>2. Len(a) <= Len(p)
    BY <1>6, <2>1, AmongIsShorter
  <2> QED
    BY <1>6, <2>1, <2>2, AmongItems
<1>8. new \in Seq(S) /\ (Len(a) <= q.most => new = a)
  BY <1>1, <1>7, <1>15, FirstFewTyped
<1>9. new \in Seq(C!Posts)
  BY <1>1, <1>8, Wider
<1>10. ASSUME q.most >= c, NEW x \in S, Rank(x, S) <= hi, ~(Rank(x, S) <= lo), x \notin K PROVE x \in Range(new)
  <2>1. Rank(x, S) - lo \in 1 .. (e - lo) /\ lo + (Rank(x, S) - lo) = Rank(x, S)
    BY <1>2, <1>3, <1>4, <1>10
  <2>2. p[Rank(x, S) - lo] = x
    BY <1>2, <1>6, <2>1
  <2>3. DOMAIN p = 1 .. (e - lo)
    BY <1>3, <1>4, <1>6
  <2>4. x \in Range(p)
    BY <2>1, <2>2, <2>3 DEF Range
  <2>5. Len(a) <= q.most
    BY <1>1, <1>2, <1>3, <1>4, <1>6, <1>7, <1>10
  <2> QED
    BY <1>1, <1>7, <1>8, <1>10, <2>4, <2>5
<1>11. UpToPage(q, n) = {x \in S : Rank(x, S) <= lo} /\ UpToPage(q, n + 1) = {x \in S : Rank(x, S) <= hi}
  BY DEF UpToPage, S, lo, hi, z
<1>12. q.most >= c => UpToPage(q, n + 1) \subseteq UpToPage(q, n) \union K \union Range(new)
  BY <1>10, <1>11
<1>13. Len(p) < z => S \subseteq UpToPage(q, n + 1)
  <2>1. Len(p) < z => e = c
    BY <1>1, <1>2, <1>3, <1>4, <1>6
  <2> QED
    BY <1>2, <1>3, <1>4, <1>11, <2>1
<1>14. ~(Len(p) < z) => hi <= c
  BY <1>1, <1>2, <1>3, <1>4, <1>6
<1> QED
  BY <1>9, <1>12, <1>13, <1>14 DEF S, c, z, hi, p, new

SrcTyped == /\ ask \in Asks /\ plan \in Seq(Queries) /\ due \subseteq Queries /\ pageAt \in Nat
            /\ known \subseteq C!Posts /\ out \in Seq(Record)
            /\ ask.source = "euraxess" => due = Range(C!Plan(ask))

\* A query that is over and did not fail is delivered; the one that is read, up to its page.
Answered(q, T) == q.most >= Cardinality(q.of) => \A x \in q.of : Rank(x, q.of) <= q.pages * q.size => x \in T
\* Of the query that is being read its first n pages are taken.
Begun(q, n, T) == /\ n < q.pages /\ n * q.size <= Cardinality(q.of)
                  /\ q.most >= Cardinality(q.of) => UpToPage(q, n) \subseteq T
\* Every query that is to be answered is still planned, failed, or answered.
Accounted(T) == \A q \in due : q \in Range(plan) \/ q \in failed \/ Answered(q, T)
\* The state of a source that asks queries.
SrcTaken == /\ known \subseteq C!Taken
            /\ Accounted(C!Taken)
            /\ plan # <<>> => Begun(plan[1], pageAt, C!Taken)

\* What a seed's siblings are, of the records o.
SiblingsOnce(o, K, S) == /\ \A i \in 1 .. Len(o) : o[i].post \in K
                 /\ \A i \in 1 .. Len(o) : ~o[i].seed =>
                       /\ o[i].post \notin S
                       /\ \A j \in 1 .. Len(o) : j # i => o[j].post # o[i].post
\* The state of the reading of seeds.
SrcSiblings == /\ Range(ask.seeds) \subseteq known
               /\ \A i \in 1 .. Len(plan) : plan[i].of # {} /\ plan[i].of \subseteq Range(ask.seeds)
               /\ SiblingsOnce(out, known, Range(ask.seeds))

\* By what the source reads.
SrcInv == /\ SrcTyped
          /\ ask.source # "seed_urls" => SrcTaken
          /\ ask.source = "seed_urls" => SrcSiblings

LEMMA FirstOfMany ==
  ASSUME NEW Items, NEW s \in Seq(Items), s # <<>>
  PROVE  /\ s[1] = Head(s) /\ Head(s) \in Items /\ Tail(s) \in Seq(Items) /\ Len(Tail(s)) + 1 = Len(s) /\ Len(s) \in Nat
         /\ \A i \in 1 .. Len(Tail(s)) : Tail(s)[i] = s[i + 1] /\ i + 1 \in 1 .. Len(s)
         /\ Range(s) \subseteq {Head(s)} \union Range(Tail(s))
<1> DEFINE t == Tail(s)
           n == Len(s)
<1>1. n \in Nat /\ n > 0 /\ DOMAIN s = 1 .. n
  OBVIOUS
<1>2. s[1] = Head(s) /\ Head(s) \in Items /\ t \in Seq(Items) /\ Len(t) + 1 = n /\ \A i \in 1 .. Len(t) : t[i] = s[i + 1]
  BY <1>1
<1>3. DOMAIN t = 1 .. (n - 1)
  BY <1>1, <1>2
<1> HIDE DEF t, n
<1>4. ASSUME NEW i \in 1 .. n PROVE s[i] \in {s[1]} \union Range(t)
  <2>1. CASE i = 1
    BY <2>1
  <2>2. CASE i # 1
    <3>1. i - 1 \in 1 .. (n - 1) /\ (i - 1) + 1 = i
      BY <1>1, <2>2
    <3>2. i - 1 \in 1 .. Len(t)
      BY <1>1, <1>2, <3>1
    <3>3. t[i - 1] = s[(i - 1) + 1]
      BY <1>2, <3>2
    <3>4. t[i - 1] = s[i]
      BY <3>1, <3>3
    <3>5. t[i - 1] \in Range(t)
      BY <1>3, <3>1 DEF Range
    <3> QED
      BY <3>4, <3>5
  <2> QED
    BY <2>1, <2>2
<1>5. Range(s) \subseteq {s[1]} \union Range(t)
  BY <1>1, <1>4 DEF Range
<1>6. \A i \in 1 .. Len(t) : i + 1 \in 1 .. n
  BY <1>1, <1>2
<1> QED
  BY <1>1, <1>2, <1>5, <1>6 DEF t, n

LEMMA BeginsEmpty ==
  ASSUME NEW q \in Queries, NEW T
  PROVE  Begun(q, 0, T)
<1>1. q.pages \in Nat \ {0} /\ q.size \in Nat \ {0} /\ q.of \in SUBSET C!Posts
  BY DEF Queries
<1>2. 0 * q.size = 0 /\ Cardinality(q.of) \in Nat /\ \A x \in q.of : Rank(x, q.of) \in 1 .. Cardinality(q.of)
  BY <1>1, OrderedRank DEF C!Posts
<1>3. UpToPage(q, 0) = {}
  BY <1>2 DEF UpToPage
<1> QED
  BY <1>1, <1>2, <1>3 DEF Begun

LEMMA TakenIsPosted == C!Taken = Posted(out)
BY DEF C!Taken, Posted

LEMMA SrcInit ==
  ASSUME C!Init
  PROVE  SrcInv
<1> USE DEF C!Init
<1>1. ask \in Asks /\ plan = C!Plan(ask) /\ plan \in Seq(Queries) /\ pageAt = 0 /\ failed = {} /\ out = <<>>
      /\ due = Range(C!Plan(ask)) /\ due = Range(plan)
  BY PlanIsQueries, SourcesRange
<1>2. known = (IF ask.source = "seed_urls" THEN Range(ask.seeds) ELSE {})
  BY SourcesRange
<1>3. known \subseteq C!Posts
  <2>1. ask.seeds \in Seq(C!Posts)
    BY <1>1, SourcesAssumption DEF C!Posts
  <2> QED
    BY <1>2, <2>1 DEF Range
<1>4. SrcTyped
  <2>1. due \subseteq Queries
    <3> PICK p : p = plan
      OBVIOUS
    <3>1. p \in Seq(Queries) /\ due = Range(p)
      BY <1>1
    <3> QED
      BY <3>1 DEF Range
  <2>2. 0 \in Nat /\ <<>> \in Seq(Record)
    OBVIOUS
  <2> QED
    BY <1>1, <1>3, <2>1, <2>2 DEF SrcTyped
<1>5. ASSUME ask.source # "seed_urls" PROVE SrcTaken
  <2>1. known = {} /\ Accounted(C!Taken)
    BY <1>1, <1>2, <1>5 DEF Accounted
  <2>2. plan # <<>> => Begun(plan[1], pageAt, C!Taken)
    BY <1>1, FirstOfMany, BeginsEmpty
  <2> QED
    BY <2>1, <2>2 DEF SrcTaken
<1>6. ASSUME ask.source = "seed_urls" PROVE SrcSiblings
  <2>1. DOMAIN plan = 1 .. Len(plan)
    BY <1>1
  <2>2. \A i \in 1 .. Len(plan) : plan[i].of # {} /\ plan[i].of \subseteq Range(ask.seeds)
    BY <1>1, <1>6, <2>1, SeedsPlanned
  <2>3. SiblingsOnce(out, known, Range(ask.seeds))
    BY <1>1 DEF SiblingsOnce
  <2> QED
    BY <1>2, <1>6, <2>2, <2>3 DEF SrcSiblings
<1> QED
  BY <1>4, <1>5, <1>6 DEF SrcInv

\* Unchanged parts carry over; a query given up is accounted for.
LEMMA SkipTyped ==
  ASSUME SrcTyped, plan # <<>>, C!SkipQuery, UNCHANGED <<ask, due, known, out>>
  PROVE  /\ SrcTyped' /\ plan' = Tail(plan) /\ plan' \in Seq(Queries) /\ pageAt' = 0
         /\ \A T : plan' # <<>> => Begun(plan'[1], pageAt', T)
<1>1. plan' = Tail(plan) /\ pageAt' = 0 /\ plan' \in Seq(Queries)
  BY FirstOfMany DEF C!SkipQuery, SrcTyped
<1>2. SrcTyped'
  BY <1>1 DEF SrcTyped
<1>3. ASSUME NEW T, plan' # <<>> PROVE Begun(plan'[1], pageAt', T)
  <2>1. PICK p : p = plan'
    OBVIOUS
  <2>2. p[1] \in Queries
    BY <1>1, <1>3, <2>1, FirstOfMany
  <2>3. Begun(p[1], 0, T)
    BY <2>2, BeginsEmpty
  <2> QED
    BY <1>1, <2>1, <2>3
<1> QED
  BY <1>1, <1>2, <1>3

\* Nothing is taken.
Unposted == UNCHANGED <<ask, due, known, out>>

LEMMA GivenUp ==
  ASSUME SrcTyped, SrcTaken, plan # <<>>, C!SkipQuery, Unposted,
         failed \subseteq failed', Head(plan) \in failed'
  PROVE  SrcTyped' /\ SrcTaken'
<1>1. /\ SrcTyped' /\ plan' = Tail(plan) /\ plan' \in Seq(Queries) /\ pageAt' = 0
      /\ \A T : plan' # <<>> => Begun(plan'[1], pageAt', T)
  BY SkipTyped DEF Unposted
<1>2. C!Taken' = C!Taken /\ known' = known /\ ask' = ask /\ due' = due
  BY TakenIsPosted DEF Unposted, C!Taken
<1>3. Range(plan) \subseteq {Head(plan)} \union Range(Tail(plan))
  BY FirstOfMany DEF SrcTyped
<1> PICK T : T = C!Taken
  OBVIOUS
<1>4. ASSUME NEW q \in due PROVE q \in Range(plan') \/ q \in failed' \/ Answered(q, T)
  <2>1. q \in Range(plan) \/ q \in failed \/ Answered(q, T)
    BY <1>4 DEF SrcTaken, Accounted
  <2> QED
    BY <1>1, <1>3, <2>1
<1>5. Accounted(T)'
  BY <1>2, <1>4 DEF Accounted
<1>6. known' \subseteq T /\ (plan' # <<>> => Begun(plan'[1], pageAt', T))
  BY <1>1, <1>2 DEF SrcTaken
<1>7. C!Taken' = T
  BY <1>2
<1> QED
  BY <1>1, <1>5, <1>6, <1>7 DEF SrcTaken

LEMMA LosePageKeeps ==
  ASSUME SrcInv, C!LosePage
  PROVE  SrcInv'
<1>1. ask.source # "seed_urls" /\ plan # <<>> /\ C!SkipQuery /\ Unposted /\ failed' = failed \union {Head(plan)} /\ ask' = ask
  BY DEF C!LosePage, Unposted
<1> QED
  BY <1>1, GivenUp DEF SrcInv

LEMMA BrowserFailsKeeps ==
  ASSUME SrcInv, C!BrowserFails
  PROVE  SrcInv'
<1>1. /\ ask.source = "academictransfer" /\ plan' = <<C!SsrFallback>> /\ pageAt' = 0 /\ known' = {} /\ out' = <<>>
      /\ due' = {C!SsrFallback} /\ ask' = ask /\ ask \in Asks
  BY DEF C!BrowserFails, SrcInv, SrcTyped
<1>2. C!SsrFallback \in Queries
  BY <1>1, EsaTyped
<1>3. SrcTyped'
  <2>1. plan' \in Seq(Queries) /\ due' \subseteq Queries /\ 0 \in Nat /\ <<>> \in Seq(Record)
    BY <1>1, <1>2
  <2>2. ask'.source # "euraxess"
    BY <1>1
  <2> QED
    BY <1>1, <2>1, <2>2 DEF SrcTyped
<1>4. Accounted(C!Taken)'
  <2>1. Range(<<C!SsrFallback>>) = {C!SsrFallback}
    BY DEF Range
  <2> QED
    BY <1>1, <2>1 DEF Accounted
<1>5. Begun(plan[1], pageAt, C!Taken)'
  <2>1. \A T : Begun(C!SsrFallback, 0, T)
    BY <1>2, BeginsEmpty
  <2>2. PICK T : T = C!Taken'
    OBVIOUS
  <2>3. plan'[1] = C!SsrFallback
    BY <1>1
  <2>4. Begun(plan'[1], pageAt', C!Taken')
    BY <1>1, <2>1, <2>2, <2>3
  <2> QED
    BY <2>4
<1>6. SrcTaken'
  BY <1>1, <1>4, <1>5 DEF SrcTaken
<1>7. ask'.source # "seed_urls"
  BY <1>1
<1> QED
  BY <1>3, <1>6, <1>7 DEF SrcInv

LEMMA FeedKeeps ==
  ASSUME SrcInv, C!Feed
  PROVE  SrcInv'
<1>1. /\ ask.source # "seed_urls" /\ plan = C!Plan(ask) /\ plan' = <<>> /\ out = <<>> /\ out' = C!Records(C!Ordered(C!Ads))
      /\ ask.source # "euraxess" /\ due' = {} /\ UNCHANGED <<ask, pageAt, failed, known>>
  BY DEF C!Feed
<1>2. out' \in Seq(Record)
  <2>1. C!Ads \subseteq DOMAIN BoardPosts
    BY DEF C!Ads, C!Posts
  <2>2. C!Ordered(C!Ads) \in Seq(C!Ads)
    BY <2>1, OrderedRank
  <2>3. C!Ordered(C!Ads) \in Seq(C!Posts)
    BY <2>1, <2>2, Wider DEF C!Posts
  <2>4. <<>> \o C!Records(C!Ordered(C!Ads)) \in Seq(Record)
    <3>1. <<>> \in Seq(Record)
      OBVIOUS
    <3> QED
      BY <2>3, <3>1, RecordsJoin
  <2>5. <<>> \o C!Records(C!Ordered(C!Ads)) = C!Records(C!Ordered(C!Ads))
    <3> DEFINE s == C!Ordered(C!Ads)
               r == C!Records(s)
    <3>1. r = [k \in 1 .. Len(s) |-> r[k]] /\ Len(s) \in Nat
      BY <2>2 DEF C!Records
    <3> HIDE DEF r, s
    <3>2. r \in Seq({r[k] : k \in 1 .. Len(s)})
      BY <3>1, Itemwise
    <3>3. <<>> \o r = r
      BY <3>2
    <3> QED
      BY <3>3 DEF r, s
  <2> QED
    BY <1>1, <2>4, <2>5
<1>3. SrcTyped'
  <2>1. <<>> \in Seq(Queries)
    OBVIOUS
  <2> QED
    BY <1>1, <1>2, <2>1 DEF SrcTyped, SrcInv
<1>4. known = {}
  <2>1. C!Taken = {}
    BY <1>1 DEF C!Taken
  <2> QED
    BY <1>1, <2>1 DEF SrcInv, SrcTaken
<1>5. Accounted(C!Taken)'
  BY <1>1 DEF Accounted
<1>6. SrcTaken'
  BY <1>1, <1>4, <1>5 DEF SrcTaken
<1>7. ask'.source # "seed_urls"
  BY <1>1
<1> QED
  BY <1>3, <1>6, <1>7 DEF SrcInv

LEMMA ReadPageKeeps ==
  ASSUME SrcInv, C!ReadPage
  PROVE  SrcInv'
<1>1. PICK q : q = plan[1]
  OBVIOUS
<1>2. PICK n : n = pageAt
  OBVIOUS
<1>3. PICK new : new = NewOn(q, n, known)
  OBVIOUS
<1>4. PICK T : T = C!Taken
  OBVIOUS
<1>5. ask \in Asks /\ plan # <<>> /\ ask.source # "seed_urls" /\ plan \in Seq(Queries) /\ n \in Nat /\ out \in Seq(Record) /\ known \subseteq C!Posts
      /\ due \subseteq Queries /\ (ask.source = "euraxess" => due = Range(C!Plan(ask)))
  BY <1>2 DEF C!ReadPage, SrcInv, SrcTyped
<1>6. /\ q = Head(plan) /\ q \in Queries /\ Tail(plan) \in Seq(Queries) /\ Range(plan) \subseteq {q} \union Range(Tail(plan))
  BY <1>1, <1>5, FirstOfMany
<1>7. C!PageOf = Page(q, n)
  BY <1>2, <1>6 DEF C!PageOf, Page
<1>8. /\ out' = out \o C!Records(new) /\ known' = known \union Range(new)
      /\ IF Len(Page(q, n)) < q.size \/ n + 1 = q.pages THEN plan' = Tail(plan) /\ pageAt' = 0 ELSE pageAt' = n + 1 /\ plan' = plan
      /\ ask' = ask /\ due' = due /\ failed' = failed
  BY <1>2, <1>3, <1>6, <1>7, SourcesRange DEF C!ReadPage, C!SkipQuery, NewOn
<1>9. known \subseteq T /\ Accounted(T) /\ Begun(q, n, T)
  BY <1>1, <1>2, <1>4, <1>5 DEF SrcInv, SrcTaken
<1>10. /\ new \in Seq(C!Posts)
       /\ q.most >= Cardinality(q.of) => UpToPage(q, n + 1) \subseteq UpToPage(q, n) \union known \union Range(new)
       /\ Len(Page(q, n)) < q.size => q.of \subseteq UpToPage(q, n + 1)
       /\ ~(Len(Page(q, n)) < q.size) => (n + 1) * q.size <= Cardinality(q.of)
  BY <1>3, <1>5, <1>6, <1>9, PageAdds DEF Begun
<1>11. PICK U : U = T \union Range(new)
  OBVIOUS
<1>12. out' \in Seq(Record) /\ C!Taken' = U
  <2>1. out \o C!Records(new) \in Seq(Record) /\ Posted(out \o C!Records(new)) = Posted(out) \union Range(new)
    BY <1>5, <1>10, RecordsJoin
  <2>2. C!Taken' = Posted(out')
    BY DEF C!Taken, Posted
  <2> QED
    BY <1>4, <1>8, <1>11, <2>1, <2>2, TakenIsPosted
<1>13. q.most >= Cardinality(q.of) => UpToPage(q, n + 1) \subseteq U
  BY <1>9, <1>10, <1>11 DEF Begun
<1>14. known' \subseteq U /\ known' \subseteq C!Posts
  <2>1. Range(new) \subseteq C!Posts
    BY <1>10 DEF Range
  <2> QED
    BY <1>5, <1>8, <1>9, <1>11, <2>1
<1>15. \A p : Answered(p, T) => Answered(p, U)
  BY <1>11 DEF Answered
<1>16. q.pages \in Nat /\ q.size \in Nat /\ q.of \in SUBSET C!Posts /\ n < q.pages
  BY <1>6, <1>9 DEF Queries, Begun
<1>17. CASE Len(Page(q, n)) < q.size \/ n + 1 = q.pages
  <2>1. plan' = Tail(plan) /\ pageAt' = 0 /\ plan' \in Seq(Queries)
    BY <1>6, <1>8, <1>17
  <2>2. Answered(q, U)
    <3>1. CASE Len(Page(q, n)) < q.size
      BY <1>10, <1>13, <3>1 DEF Answered
    <3>2. CASE n + 1 = q.pages
      BY <1>13, <3>2 DEF Answered, UpToPage
    <3> QED
      BY <1>17, <3>1, <3>2
  <2>3. ASSUME NEW p \in due PROVE p \in Range(plan') \/ p \in failed' \/ Answered(p, U)
    <3>1. p \in Range(plan) \/ p \in failed \/ Answered(p, T)
      BY <1>9, <2>3 DEF Accounted
    <3> QED
      BY <1>6, <1>8, <1>15, <2>1, <2>2, <3>1
  <2>4. Accounted(C!Taken)'
    BY <1>8, <1>12, <2>3 DEF Accounted
  <2>5. plan' # <<>> => Begun(plan'[1], pageAt', U)
    <3>1. PICK p : p = plan'
      OBVIOUS
    <3>2. p # <<>> => Begun(p[1], 0, U)
      BY <2>1, <3>1, FirstOfMany, BeginsEmpty
    <3> QED
      BY <2>1, <3>1, <3>2
  <2>6. SrcTyped'
    <3>1. pageAt' \in Nat /\ plan' \in Seq(Queries)
      BY <1>5, <2>1
    <3> QED
      BY <1>5, <1>8, <1>12, <1>14, <3>1 DEF SrcTyped
  <2>7. SrcTaken'
    BY <1>12, <1>14, <2>4, <2>5 DEF SrcTaken
  <2> QED
    BY <1>5, <1>8, <2>6, <2>7 DEF SrcInv
<1>18. CASE ~(Len(Page(q, n)) < q.size \/ n + 1 = q.pages)
  <2>1. plan' = plan /\ pageAt' = n + 1
    BY <1>8, <1>18
  <2>2. Begun(q, n + 1, U)
    <3>1. n + 1 < q.pages
      BY <1>5, <1>16, <1>18
    <3> QED
      BY <1>10, <1>13, <1>18, <3>1 DEF Begun
  <2>3. ASSUME NEW p \in due PROVE p \in Range(plan') \/ p \in failed' \/ Answered(p, U)
    <3>1. p \in Range(plan) \/ p \in failed \/ Answered(p, T)
      BY <1>9, <2>3 DEF Accounted
    <3> QED
      BY <1>8, <1>15, <2>1, <3>1
  <2>4. Accounted(C!Taken)'
    BY <1>8, <1>12, <2>3 DEF Accounted
  <2>5. plan' # <<>> => Begun(plan'[1], pageAt', U)
    BY <1>1, <2>1, <2>2
  <2>6. SrcTyped'
    <3>1. pageAt' \in Nat /\ plan' \in Seq(Queries)
      BY <1>5, <2>1
    <3> QED
      BY <1>5, <1>8, <1>12, <1>14, <3>1 DEF SrcTyped
  <2>7. SrcTaken'
    BY <1>12, <1>14, <2>4, <2>5 DEF SrcTaken
  <2> QED
    BY <1>5, <1>8, <2>6, <2>7 DEF SrcInv
<1> QED
  BY <1>17, <1>18

LEMMA SiblingsAdded ==
  ASSUME NEW o \in Seq(Record), NEW K, NEW S, SiblingsOnce(o, K, S), S \subseteq K,
         NEW new \in Seq(C!Posts), NoRepeats(new), Range(new) \intersect K = {},
         NEW K2, K \subseteq K2, Range(new) \subseteq K2
  PROVE  SiblingsOnce(o \o C!Records(new), K2, S)
<1> DEFINE n == Len(new)
           m == Len(o)
           w == o \o C!Records(new)
<1>1. /\ n \in Nat /\ m \in Nat /\ Len(w) = m + n /\ DOMAIN new = 1 .. n
      /\ \A i \in 1 .. m : w[i] = o[i]
      /\ \A i \in 1 .. n : w[m + i] = [post |-> new[i], seed |-> FALSE]
  BY RecordsJoin
<1> HIDE DEF n, m, w
<1>2. ASSUME NEW i \in 1 .. (m + n), i \notin 1 .. m
      PROVE  i - m \in 1 .. n /\ w[i].post = new[i - m] /\ new[i - m] \in Range(new)
  <2>1. i - m \in 1 .. n /\ m + (i - m) = i
    BY <1>1, <1>2
  <2>2. w[i] = [post |-> new[i - m], seed |-> FALSE]
    BY <1>1, <2>1
  <2> QED
    BY <1>1, <2>1, <2>2 DEF Range
<1>3. \A i \in 1 .. m : w[i].post \in K /\ w[i].seed = o[i].seed
  BY <1>1 DEF SiblingsOnce, m
<1>4. ASSUME NEW i \in 1 .. (m + n) PROVE w[i].post \in K2
  BY <1>2, <1>3
<1>5. ASSUME NEW i \in 1 .. (m + n), ~w[i].seed
      PROVE  w[i].post \notin S /\ \A j \in 1 .. (m + n) : j # i => w[j].post # w[i].post
  <2>1. CASE i \in 1 .. m
    <3>1. o[i].post \notin S /\ \A j \in 1 .. m : j # i => o[j].post # o[i].post
      BY <1>1, <1>5, <2>1 DEF SiblingsOnce, m
    <3>2. ASSUME NEW j \in 1 .. (m + n), j # i PROVE w[j].post # w[i].post
      BY <1>1, <1>2, <1>3, <2>1, <3>1, <3>2
    <3> QED
      BY <1>1, <2>1, <3>1, <3>2
  <2>2. CASE i \notin 1 .. m
    <3>1. w[i].post \in Range(new) /\ w[i].post \notin K
      BY <1>2, <2>2
    <3>2. ASSUME NEW j \in 1 .. (m + n), j # i PROVE w[j].post # w[i].post
      <4>1. CASE j \in 1 .. m
        BY <1>3, <3>1, <4>1
      <4>2. CASE j \notin 1 .. m
        <5>1. i - m # j - m /\ i - m \in 1 .. Len(new) /\ j - m \in 1 .. Len(new)
          BY <1>1, <1>2, <2>2, <3>2, <4>2 DEF n
        <5>2. new[i - m] # new[j - m]
          BY <5>1 DEF NoRepeats
        <5> QED
          BY <1>2, <2>2, <4>2, <5>2
      <4> QED
        BY <4>1, <4>2
    <3> QED
      BY <3>1, <3>2
  <2> QED
    BY <2>1, <2>2
<1>6. SiblingsOnce(w, K2, S)
  BY <1>1, <1>4, <1>5 DEF SiblingsOnce
<1> QED
  BY <1>6 DEF w

LEMMA SeedAdded ==
  ASSUME NEW o \in Seq(Record), NEW K, NEW S, SiblingsOnce(o, K, S), S \subseteq K, NEW s \in S, s \in C!Posts
  PROVE  /\ o \o <<[post |-> s, seed |-> TRUE]>> \in Seq(Record)
         /\ SiblingsOnce(o \o <<[post |-> s, seed |-> TRUE]>>, K, S)
<1> DEFINE r == [post |-> s, seed |-> TRUE]
           m == Len(o)
           w == o \o <<r>>
<1>1. r \in Record /\ r.post = s /\ r.seed
  BY DEF Record
<1> HIDE DEF r
<1>2. m \in Nat /\ w \in Seq(Record) /\ Len(w) = m + 1 /\ w[m + 1] = r /\ \A i \in 1 .. m : w[i] = o[i]
  BY <1>1
<1> HIDE DEF m, w
<1>3. \A i \in 1 .. (m + 1) : i \in 1 .. m \/ i = m + 1
  BY <1>2
<1>4. \A i \in 1 .. m : o[i].post \in K
  BY DEF SiblingsOnce, m
<1>5. ASSUME NEW i \in 1 .. (m + 1), ~w[i].seed
      PROVE  w[i].post \notin S /\ \A j \in 1 .. (m + 1) : j # i => w[j].post # w[i].post
  <2>1. i \in 1 .. m
    BY <1>1, <1>2, <1>3, <1>5
  <2>2. o[i].post \notin S /\ \A j \in 1 .. m : j # i => o[j].post # o[i].post
    BY <1>2, <1>5, <2>1 DEF SiblingsOnce, m
  <2>3. w[i] = o[i]
    BY <1>2, <2>1
  <2>4. ASSUME NEW j \in 1 .. (m + 1), j # i PROVE w[j].post # w[i].post
    BY <1>1, <1>2, <1>3, <2>2, <2>3, <2>4
  <2> QED
    BY <2>2, <2>3, <2>4
<1>6. ASSUME NEW i \in 1 .. (m + 1) PROVE w[i].post \in K
  BY <1>1, <1>2, <1>3, <1>4
<1>7. SiblingsOnce(w, K, S)
  BY <1>2, <1>5, <1>6 DEF SiblingsOnce
<1> QED
  BY <1>2, <1>7 DEF w, r

LEMMA SiblingsTyped ==
  ASSUME NEW seed, NEW met, NEW offers \in Seq(SUBSET C!Posts), NEW answered \in SUBSET (1 .. 3)
  PROVE  /\ C!Siblings(seed, met, offers, answered) \in Seq(C!Posts)
         /\ NoRepeats(C!Siblings(seed, met, offers, answered))
         /\ Range(C!Siblings(seed, met, offers, answered)) \intersect met = {}
<1> DEFINE s == C!Siblings(seed, met, offers, answered)
           good == {k \in answered \cap DOMAIN offers : offers[k] \ met # {}}
           best == CHOOSE k \in good : \A l \in good : k <= l
           on == C!SiblingsOn(offers[best], met)
<1>1. s = IF good = {} THEN <<>> ELSE on
  BY Zenon DEF C!Siblings
<1>2. CASE good = {}
  <2>1. s = <<>>
    BY <1>1, <1>2
  <2>2. <<>> \in Seq(C!Posts) /\ NoRepeats(<<>>) /\ Range(<<>>) = {}
    BY DEF NoRepeats, Range
  <2> HIDE DEF s
  <2>3. s \in Seq(C!Posts) /\ NoRepeats(s) /\ Range(s) \intersect met = {}
    BY <2>1, <2>2
  <2> QED
    BY <2>3 DEF s
<1>3. CASE good # {}
  <2>1. \E k \in good : \A l \in good : k <= l
    <3>1. good \subseteq {1, 2, 3}
      OBVIOUS
    <3> HIDE DEF good
    <3>2. \A l \in good : l = 1 \/ l = 2 \/ l = 3
      BY <3>1
    <3>3. CASE 1 \in good
      BY <3>2, <3>3
    <3>4. CASE 1 \notin good /\ 2 \in good
      BY <3>2, <3>4
    <3>5. CASE 1 \notin good /\ 2 \notin good
      <4>1. \A l \in good : l = 3
        BY <3>2, <3>5
      <4> QED
        BY <1>3, <4>1
    <3> QED
      BY <3>3, <3>4, <3>5
  <2>2. best \in good
    <3> HIDE DEF good
    <3> QED
      BY <2>1
  <2>3. offers[best] \in SUBSET C!Posts
    BY <2>2
  <2> DEFINE L == offers[best] \ met
             t == C!Ordered(L)
  <2>4. L \subseteq DOMAIN BoardPosts
    BY <2>3 DEF C!Posts
  <2> HIDE DEF best
  <2>5. t \in Seq(L) /\ NoRepeats(t) /\ Range(t) = L
    <3> HIDE DEF L
    <3> QED
      BY <2>4, OrderedRank
  <2>6. on = C!FirstFew(t, MaxSiblings) /\ MaxSiblings \in Nat
    BY SourcesAssumption DEF C!SiblingsOn
  <2>7. on \in Seq(L) /\ Range(on) \subseteq L /\ NoRepeats(on)
    <3> HIDE DEF L, t, on
    <3> QED
      BY <2>5, <2>6, FirstFewTyped
  <2>8. L \subseteq C!Posts /\ L \intersect met = {}
    BY <2>3
  <2>9. s = on
    BY <1>1, <1>3
  <2> HIDE DEF L, on, s, good, t
  <2>10. s \in Seq(C!Posts) /\ NoRepeats(s) /\ Range(s) \intersect met = {}
    BY <2>7, <2>8, <2>9, Wider
  <2> QED
    BY <2>10 DEF s
<1> QED
  BY <1>2, <1>3

LEMMA ListingsTyped ==
  ASSUME NEW seed
  PROVE  C!AdapterListings(seed) \in Seq(SUBSET C!Posts) /\ C!ParentListings(seed) \in Seq(SUBSET C!Posts)
<1>1. \A x : C!On(x) \in SUBSET C!Posts /\ \A y : C!On(x) \cap y \in SUBSET C!Posts
  BY OnPosts
<1>2. C!AdapterListings(seed) \in Seq(SUBSET C!Posts)
  BY <1>1 DEF C!AdapterListings
<1> DEFINE s == <<C!On(BoardPosts[seed].on) \cap C!Tagged({BoardPosts[seed].country}), C!On(BoardPosts[seed].on), C!Posts>>
<1>3. s \in Seq(SUBSET C!Posts)
  <2>1. C!Posts \in SUBSET C!Posts
    OBVIOUS
  <2> QED
    BY <1>1, <2>1
<1>4. C!ParentListings(seed) = C!FirstFew(s, 3) /\ 3 \in Nat
  BY DEF C!ParentListings
<1> HIDE DEF s
<1> QED
  BY <1>2, <1>3, <1>4, FirstFewTyped

\* The plan left is of seeds still.
LEMMA SeedsLeft ==
  ASSUME SrcTyped, SrcSiblings, plan # <<>>
  PROVE  /\ \A i \in 1 .. Len(Tail(plan)) : Tail(plan)[i].of # {} /\ Tail(plan)[i].of \subseteq Range(ask.seeds)
         /\ Head(plan).of # {} /\ Head(plan).of \subseteq Range(ask.seeds) /\ Range(ask.seeds) \subseteq C!Posts
         /\ Tail(plan) \in Seq(Queries)
<1>1. plan \in Seq(Queries)
  BY DEF SrcTyped
<1>2. Len(plan) \in Nat /\ plan[1] = Head(plan) /\ 1 \in 1 .. Len(plan)
  BY <1>1
<1>3. Range(ask.seeds) \subseteq C!Posts
  BY DEF SrcSiblings, SrcTyped
<1> QED
  BY <1>1, <1>2, <1>3, FirstOfMany DEF SrcSiblings

LEMMA LoseSeedKeeps ==
  ASSUME SrcInv, C!LoseSeed
  PROVE  SrcInv'
<1>1. ask.source = "seed_urls" /\ plan # <<>> /\ plan' = Tail(plan) /\ pageAt' = 0 /\ UNCHANGED <<ask, due, known, out>>
  BY DEF C!LoseSeed, C!SkipQuery
<1>2. SrcTyped /\ SrcSiblings
  BY <1>1 DEF SrcInv
<1>3. /\ \A i \in 1 .. Len(Tail(plan)) : Tail(plan)[i].of # {} /\ Tail(plan)[i].of \subseteq Range(ask.seeds)
      /\ Tail(plan) \in Seq(Queries)
  BY <1>1, <1>2, SeedsLeft
<1>4. SrcTyped'
  BY <1>1, <1>2, <1>3 DEF SrcTyped
<1>5. SrcSiblings'
  BY <1>1, <1>2, <1>3 DEF SrcSiblings
<1> QED
  BY <1>1, <1>4, <1>5 DEF SrcInv

\* What the reading of a seed adds, with the choices it makes.
SiblingsOf(seed, met, adapter, answered) ==
    C!Siblings(seed, met, IF adapter THEN C!AdapterListings(seed) ELSE C!ParentListings(seed), answered)
\* A seed's own record, and what reading its page does.
OwnOf(seed, shape) == IF C!Parsed(shape) THEN <<[post |-> seed, seed |-> TRUE]>> ELSE <<>>
SeedIsRead(seed, shape, adapter, answered, parsed) ==
    /\ out' = out \o OwnOf(seed, shape) \o C!Records(C!Among(SiblingsOf(seed, known, adapter, answered), parsed))
    /\ known' = known \cup C!Range(SiblingsOf(seed, known, adapter, answered))

LEMMA SeedReading ==
  ASSUME C!ReadSeed
  PROVE  \E shape \in C!PageShapes, adapter \in BOOLEAN, answered \in SUBSET (1 .. 3), parsed \in SUBSET C!Posts :
            SeedIsRead(CHOOSE i \in Head(plan).of : TRUE, shape, adapter, answered, parsed)
BY DEF C!ReadSeed, SeedIsRead, OwnOf, SiblingsOf

LEMMA ReadSeedKeeps ==
  ASSUME SrcInv, C!ReadSeed
  PROVE  SrcInv'
<1>1. ask.source = "seed_urls" /\ plan # <<>> /\ plan' = Tail(plan) /\ pageAt' = 0 /\ ask' = ask /\ due' = due
  BY DEF C!ReadSeed, C!SkipQuery
<1>2. SrcTyped /\ SrcSiblings
  BY <1>1 DEF SrcInv
<1>3. /\ \A i \in 1 .. Len(Tail(plan)) : Tail(plan)[i].of # {} /\ Tail(plan)[i].of \subseteq Range(ask.seeds)
      /\ Head(plan).of # {} /\ Head(plan).of \subseteq Range(ask.seeds) /\ Range(ask.seeds) \subseteq C!Posts
      /\ Tail(plan) \in Seq(Queries)
  BY <1>1, <1>2, SeedsLeft
<1>4. PICK S : S = Range(ask.seeds)
  OBVIOUS
<1>5. PICK K : K = known
  OBVIOUS
<1>6. PICK o : o = out
  OBVIOUS
<1>7. PICK seed : seed = CHOOSE i \in Head(plan).of : TRUE
  OBVIOUS
<1>8. seed \in S /\ S \subseteq C!Posts /\ S \subseteq K /\ K \subseteq C!Posts /\ o \in Seq(Record) /\ SiblingsOnce(o, K, S)
  BY <1>2, <1>3, <1>4, <1>5, <1>6, <1>7 DEF SrcTyped, SrcSiblings
<1>9. PICK shape \in C!PageShapes, adapter \in BOOLEAN, answered \in SUBSET (1 .. 3), parsed \in SUBSET C!Posts :
        SeedIsRead(seed, shape, adapter, answered, parsed)
  BY <1>7, SeedReading
<1>10. PICK offers : offers = (IF adapter THEN C!AdapterListings(seed) ELSE C!ParentListings(seed))
  OBVIOUS
<1>11. PICK siblings : siblings = SiblingsOf(seed, K, adapter, answered)
  OBVIOUS
<1>12. PICK posted : posted = OwnOf(seed, shape)
  OBVIOUS
<1>13. PICK taken : taken = Among(siblings, parsed)
  OBVIOUS
<1>14. out' = o \o posted \o C!Records(taken) /\ known' = K \union Range(siblings)
  BY <1>5, <1>6, <1>9, <1>11, <1>12, <1>13, SourcesLoops, SourcesRange DEF SeedIsRead
<1>15. siblings \in Seq(C!Posts) /\ NoRepeats(siblings) /\ Range(siblings) \intersect K = {}
  <2>1. offers \in Seq(SUBSET C!Posts)
    BY <1>10, ListingsTyped
  <2> QED
    BY <1>10, <1>11, <2>1, SiblingsTyped DEF SiblingsOf
<1>16. taken \in Seq(C!Posts) /\ NoRepeats(taken) /\ Range(taken) \subseteq Range(siblings)
  BY <1>13, <1>15, AmongItems, AmongDistinct
<1>17. PICK w : w = o \o posted
  OBVIOUS
<1>18. w \in Seq(Record) /\ SiblingsOnce(w, K, S)
  <2>1. CASE C!Parsed(shape)
    BY <1>8, <1>12, <1>17, <2>1, SeedAdded DEF OwnOf
  <2>2. CASE ~C!Parsed(shape)
    <3>1. w = o
      BY <1>8, <1>12, <1>17, <2>2 DEF OwnOf
    <3> QED
      BY <1>8, <3>1
  <2> QED
    BY <2>1, <2>2
<1>19. PICK K2 : K2 = K \union Range(siblings)
  OBVIOUS
<1>20. out' \in Seq(Record) /\ SiblingsOnce(out', K2, S)
  <2>1. SiblingsOnce(w \o C!Records(taken), K2, S)
    BY <1>8, <1>15, <1>16, <1>18, <1>19, SiblingsAdded
  <2>2. w \o C!Records(taken) \in Seq(Record)
    BY <1>16, <1>18, RecordsJoin
  <2> QED
    BY <1>14, <1>17, <2>1, <2>2
<1>21. known' = K2 /\ K2 \subseteq C!Posts
  <2>1. Range(siblings) \subseteq C!Posts
    BY <1>15 DEF Range
  <2> QED
    BY <1>8, <1>14, <1>19, <2>1
<1>22. SrcTyped'
  BY <1>1, <1>2, <1>3, <1>20, <1>21 DEF SrcTyped
<1>23. SrcSiblings'
  <2>1. Range(ask.seeds)' = S /\ S \subseteq K2
    BY <1>1, <1>4, <1>8, <1>19
  <2>2. (\A i \in 1 .. Len(plan) : plan[i].of # {} /\ plan[i].of \subseteq Range(ask.seeds))'
    BY <1>1, <1>3
  <2>3. SiblingsOnce(out, known, Range(ask.seeds))'
    BY <1>20, <1>21, <2>1
  <2> QED
    BY <1>21, <2>1, <2>2, <2>3 DEF SrcSiblings
<1> QED
  BY <1>1, <1>22, <1>23 DEF SrcInv

LEMMA SrcStep ==
  ASSUME SrcInv, C!Next
  PROVE  SrcInv'
BY LosePageKeeps, BrowserFailsKeeps, FeedKeeps, ReadPageKeeps, LoseSeedKeeps, ReadSeedKeeps DEF C!Next

LEMMA SrcStutter ==
  ASSUME SrcInv, UNCHANGED sources
  PROVE  SrcInv'
<1>1. /\ ask' = ask /\ plan' = plan /\ pageAt' = pageAt /\ due' = due /\ failed' = failed /\ known' = known /\ out' = out
  BY DEF sources
<1>2. C!Taken' = C!Taken
  BY <1>1 DEF C!Taken
<1>3. SrcTyped' <=> SrcTyped
  BY <1>1 DEF SrcTyped
<1>4. SrcTaken' <=> SrcTaken
  BY <1>1, <1>2 DEF SrcTaken, Accounted
<1>5. SrcSiblings' <=> SrcSiblings
  BY <1>1 DEF SrcSiblings
<1> QED
  BY <1>1, <1>3, <1>4, <1>5 DEF SrcInv

-----------------------------------------------------------------------------
LEMMA SrcSound ==
  ASSUME SrcInv
  PROVE  C!SourcesAreSound
<1>1. ask \in Asks /\ plan \in Seq(Queries) /\ due \subseteq Queries /\ out \in Seq(Record)
      /\ (ask.source = "euraxess" => due = Range(C!Plan(ask)))
  BY DEF SrcInv, SrcTyped
<1>2. ASSUME plan = <<>>, ask.source # "seed_urls", NEW q \in due, q \notin failed, q.most >= Cardinality(q.of)
      PROVE  C!Reach(q) \subseteq C!Taken
  <2>1. Answered(q, C!Taken)
    BY <1>2 DEF SrcInv, SrcTaken, Accounted, Range
  <2>2. q \in Queries
    BY <1>1, <1>2
  <2> QED
    BY <1>2, <2>1, <2>2, ReachIsRank DEF Answered
<1>3. C!FailureIsLocal
  BY <1>2, SourcesCounts DEF C!FailureIsLocal
<1>4. ASSUME ask.source = "euraxess", plan = <<>>, failed = {}, NEW k \in DOMAIN C!Sweeps(ask)
      PROVE  C!Reach(C!Sweeps(ask)[k]) \cap C!Tagged(C!Searched(ask)) \subseteq C!Taken
  <2>0. PICK q : q = C!Sweeps(ask)[k]
    OBVIOUS
  <2>1. C!Sweeps(ask) \in Seq({p \in Queries : Full(p)}) /\ C!Plan(ask) = C!Euraxess(ask)
    BY <1>1, <1>4, SweepsTyped DEF C!Plan
  <2>2. q \in Queries /\ q.most = Len(BoardPosts) /\ q \in Range(C!Sweeps(ask))
    BY <1>4, <2>0, <2>1 DEF Full, Range
  <2>3. q.of \in SUBSET C!Posts
    BY <2>2 DEF Queries
  <2>4. \A S \in SUBSET C!Posts : Cardinality(S) <= Len(BoardPosts)
    <3>0. PICK m \in Nat : m = Len(BoardPosts)
      BY BoardIsList
    <3>1. IsFiniteSet(1 .. Len(BoardPosts)) /\ Cardinality(1 .. Len(BoardPosts)) = Len(BoardPosts)
      <4>1. IsFiniteSet(1 .. m) /\ Cardinality(1 .. m) = m
        BY FS_Interval
      <4> QED
        BY <3>0, <4>1
    <3> QED
      BY <3>1, BoardIsList, FS_Subset
  <2>5. CASE C!CountryFacets(ask) = {}
    <3>1. q \in Range(C!Plan(ask))
      BY <1>1, <1>4, <2>1, <2>2, <2>5, EuraxessTyped
    <3>2. q.most >= Cardinality(q.of)
      BY <2>2, <2>3, <2>4
    <3>3. C!Reach(q) \subseteq C!Taken
      BY <1>1, <1>2, <1>4, <3>1, <3>2
    <3> QED
      BY <2>0, <3>3
  <2>6. CASE C!CountryFacets(ask) # {}
    <3>1. C!Tagged(C!Searched(ask)) \subseteq C!Tagged(C!CountryFacets(ask))
      <4>1. C!Searched(ask) \subseteq C!CountryFacets(ask)
        BY <2>6 DEF C!CountryFacets, C!Facets, C!Searched
      <4> QED
        BY <4>1 DEF C!Tagged
    <3>2. PICK p : p = Scoped(q, ask)
      OBVIOUS
    <3>3. p \in Range(C!Plan(ask))
      BY <1>1, <1>4, <2>0, <2>1, <2>6, <3>2, EuraxessTyped
    <3>4. p.of = q.of \cap C!Tagged(C!CountryFacets(ask)) /\ p.pages = q.pages /\ p.size = q.size /\ p.most = q.most /\ p \in Queries
      BY <2>2, <3>2 DEF Scoped, Queries
    <3>5. p.of \in SUBSET C!Posts /\ p.most >= Cardinality(p.of)
      BY <2>2, <2>3, <2>4, <3>4
    <3>6. C!Reach(p) \subseteq C!Taken
      BY <1>1, <1>2, <1>4, <3>3, <3>5
    <3>7. ASSUME NEW x \in C!Reach(q) \cap C!Tagged(C!Searched(ask)) PROVE x \in C!Reach(p)
      <4>1. x \in q.of /\ Rank(x, q.of) <= q.pages * q.size /\ x \in p.of
        BY <2>2, <3>1, <3>4, <3>7, ReachIsRank
      <4>2. Rank(x, p.of) <= Rank(x, q.of) /\ Rank(x, p.of) \in Nat /\ Rank(x, q.of) \in Nat
        BY <2>3, <3>4, <4>1, RankGrows
      <4>3. q.pages * q.size \in Nat
        BY <2>2, ProductNat DEF Queries
      <4>4. Rank(x, p.of) <= p.pages * p.size
        <5>1. p.pages * p.size = q.pages * q.size
          BY <3>4
        <5> QED
          BY <4>1, <4>2, <4>3, <5>1
      <4> QED
        BY <3>4, <4>1, <4>4, ReachIsRank
    <3> QED
      BY <2>0, <3>6, <3>7
  <2> QED
    BY <2>5, <2>6
<1>5. C!ScopingHidesNothing
  BY <1>4 DEF C!ScopingHidesNothing
<1>6. C!SiblingsAreNew
  <2>1. DOMAIN out = 1 .. Len(out)
    BY <1>1
  <2> QED
    BY <2>1, SourcesRange DEF SrcInv, SrcSiblings, SiblingsOnce, C!SiblingsAreNew
<1> QED
  BY <1>3, <1>5, <1>6 DEF C!SourcesAreSound

-----------------------------------------------------------------------------
(* Configuration: the table of aliases and the layers.                         *)

\* Of the places of a list, the first of those with the most.
LEMMA FirstOfMost ==
  ASSUME NEW len \in Nat, NEW H \in SUBSET (1 .. len), H # {}, NEW w \in [H -> Nat]
  PROVE  \E k \in H : \A j \in H : w[j] <= w[k] /\ (w[j] = w[k] => k <= j)
<1> DEFINE Over(k, j) == w[j] <= w[k] /\ (w[j] = w[k] => k <= j)
           Some(n) == (\E j \in H : j <= n) => \E k \in H : k <= n /\ \A j \in H : j <= n => Over(k, j)
           T == {n \in Nat : Some(n)}
<1>0. \A j \in H : j \in Nat /\ j >= 1 /\ j <= len /\ w[j] \in Nat
  OBVIOUS
<1>1. 0 \in T
  <2>1. \A j \in H : ~(j <= 0)
    BY <1>0
  <2> QED
    BY <2>1
<1>2. ASSUME NEW n \in Nat, n \in T PROVE n + 1 \in T
  <2> SUFFICES ASSUME \E j \in H : j <= n + 1
               PROVE  \E k \in H : k <= n + 1 /\ \A j \in H : j <= n + 1 => Over(k, j)
    OBVIOUS
  <2>0. ASSUME NEW j \in H, j <= n + 1, ~(j <= n) PROVE j = n + 1
    BY <1>0, <2>0
  <2>4. (\E j \in H : j <= n) => \E k \in H : k <= n /\ \A j \in H : j <= n => Over(k, j)
    BY <1>2
  <2>5. ASSUME NEW j \in H PROVE Over(j, j) /\ (j <= n => j <= n + 1)
    BY <1>0
  <2>6. ASSUME NEW k \in H, k <= n, n + 1 \in H, w[n + 1] <= w[k] PROVE Over(k, n + 1)
    BY <1>0, <2>6
  <2>7. ASSUME NEW k \in H, NEW j \in H, Over(k, j), n + 1 \in H, ~(w[n + 1] <= w[k]) PROVE Over(n + 1, j)
    BY <1>0, <2>7
  <2> HIDE DEF Over, T, Some
  <2>1. CASE n + 1 \notin H
    BY <2>0, <2>1, <2>4, <2>5
  <2>2. CASE n + 1 \in H /\ ~(\E j \in H : j <= n)
    <3>1. \A j \in H : j <= n + 1 => j = n + 1
      BY <2>0, <2>2
    <3>2. n + 1 <= n + 1
      OBVIOUS
    <3> QED
      BY <2>2, <2>5, <3>1, <3>2
  <2>3. CASE n + 1 \in H /\ \E j \in H : j <= n
    <3>1. PICK k \in H : k <= n /\ \A j \in H : j <= n => Over(k, j)
      BY <2>3, <2>4
    <3>2. CASE w[n + 1] <= w[k]
      <4>1. \A j \in H : j <= n + 1 => Over(k, j)
        BY <2>0, <2>3, <2>6, <3>1, <3>2
      <4> QED
        BY <2>5, <3>1, <4>1
    <3>3. CASE ~(w[n + 1] <= w[k])
      <4>1. \A j \in H : j <= n + 1 => Over(n + 1, j)
        BY <2>0, <2>3, <2>5, <2>7, <3>1, <3>3
      <4>2. n + 1 <= n + 1
        OBVIOUS
      <4> QED
        BY <2>3, <4>1, <4>2
    <3> QED
      BY <3>2, <3>3
  <2> QED
    BY <2>1, <2>2, <2>3
<1> HIDE DEF T
<1>3. len \in T
  BY <1>1, <1>2, Induction
<1>4. Some(len)
  BY <1>3 DEF T
<1> QED
  BY <1>0, <1>4

\* A list within another that only repeats it: each item at its place, and none before it.
Within(p, q) ==
    \E e \in [1 .. Len(p) -> 1 .. Len(q)] :
       /\ \A i, j \in 1 .. Len(p) : i <= j => e[i] <= e[j]
       /\ \A i \in 1 .. Len(p) : q[e[i]] = p[i]
       /\ \A k \in 1 .. Len(q) : \E i \in 1 .. Len(p) : q[k] = p[i] /\ e[i] <= k

\* The first of the longest variants a text holds.
Hits(p, text) == {k \in DOMAIN p : p[k][1] \in text}
IsFirst(k, p, text) == /\ k \in Hits(p, text)
                       /\ \A j \in Hits(p, text) : Length[p[j][1]] <= Length[p[k][1]]
                       /\ \A j \in Hits(p, text) : Length[p[j][1]] = Length[p[k][1]] => k <= j

LEMMA GuessIsFirst ==
  ASSUME NEW p, IsList(p), NEW text \in SUBSET DOMAIN Length
  PROVE  /\ Hits(p, text) = {} => F!GuessCountry(p, text) = Absent
         /\ Hits(p, text) # {} => \E k : IsFirst(k, p, text)
         /\ \A k : IsFirst(k, p, text) => F!GuessCountry(p, text) = p[k][2]
<1> DEFINE H == Hits(p, text)
           longest == {k \in H : \A j \in H : Length[p[j][1]] <= Length[p[k][1]]}
           first == CHOOSE k \in longest : \A j \in longest : k <= j
           w == [k \in H |-> Length[p[k][1]]]
           n == Len(p)
<1>1. n \in Nat /\ DOMAIN p = 1 .. n
  BY DEF IsList
<1>2. H \in SUBSET (1 .. n) /\ \A k \in H : p[k][1] \in DOMAIN Length
  BY <1>1 DEF Hits
<1>3. w \in [H -> Nat] /\ \A k \in H : w[k] = Length[p[k][1]] /\ Length[p[k][1]] \in Nat
  BY <1>2, ConfigurationAssumption
<1>4. F!GuessCountry(p, text) = IF H = {} THEN Absent ELSE p[first][2]
  BY Zenon DEF F!GuessCountry, Hits
<1> HIDE DEF H, n
<1>5. H # {} => \E k \in H : \A j \in H : w[j] <= w[k] /\ (w[j] = w[k] => k <= j)
  <2> HIDE DEF w
  <2> QED
    BY <1>1, <1>2, <1>3, FirstOfMost
<1>6. H # {} => \E k : IsFirst(k, p, text)
  <2> SUFFICES ASSUME H # {} PROVE \E k : IsFirst(k, p, text)
    OBVIOUS
  <2>1. PICK k \in H : \A j \in H : w[j] <= w[k] /\ (w[j] = w[k] => k <= j)
    BY <1>5
  <2>2. IsFirst(k, p, text)
    BY <1>3, <2>1 DEF IsFirst, H
  <2> QED
    BY <2>2
<1>7. ASSUME NEW k, IsFirst(k, p, text) PROVE F!GuessCountry(p, text) = p[k][2]
  <2>1. k \in H /\ H # {} /\ k \in longest
    BY <1>7 DEF IsFirst, H
  <2>2. \A j \in longest : k <= j
    <3>1. \A j \in longest : j \in H /\ Length[p[j][1]] = Length[p[k][1]]
      BY <1>3, <2>1
    <3> QED
      BY <1>7, <3>1 DEF IsFirst, H
  <2>3. \A j \in longest : j \in Int
    BY <1>1, <1>2
  <2>4. first = k
    <3> HIDE DEF longest
    <3> QED
      BY <2>1, <2>2, <2>3
  <2> QED
    BY <1>4, <2>1, <2>4
<1> QED
  BY <1>4, <1>6, <1>7 DEF H

LEMMA SameGuess ==
  ASSUME NEW p, IsList(p), NEW q, IsList(q), Within(p, q), NEW text \in SUBSET DOMAIN Length
  PROVE  F!GuessCountry(p, text) = F!GuessCountry(q, text)
<1> DEFINE n == Len(p)
           m == Len(q)
<1>1. n \in Nat /\ DOMAIN p = 1 .. n /\ m \in Nat /\ DOMAIN q = 1 .. m
  BY DEF IsList
<1>2. PICK e \in [1 .. n -> 1 .. m] :
       /\ \A i, j \in 1 .. n : i <= j => e[i] <= e[j]
       /\ \A i \in 1 .. n : q[e[i]] = p[i]
       /\ \A k \in 1 .. m : \E i \in 1 .. n : q[k] = p[i] /\ e[i] <= k
  BY DEF Within
<1> HIDE DEF n, m
<1>3. \A k \in Hits(q, text) : \E i \in Hits(p, text) : q[k] = p[i] /\ e[i] <= k
  BY <1>1, <1>2 DEF Hits
<1>4. \A i \in Hits(p, text) : e[i] \in Hits(q, text) /\ q[e[i]] = p[i] /\ i \in 1 .. n
  BY <1>1, <1>2 DEF Hits
<1>5. CASE Hits(p, text) = {}
  <2>1. Hits(q, text) = {}
    BY <1>3, <1>5
  <2> QED
    BY <1>5, <2>1, GuessIsFirst
<1>6. CASE Hits(p, text) # {}
  <2>1. PICK k : IsFirst(k, p, text)
    BY <1>6, GuessIsFirst
  <2>2. k \in Hits(p, text) /\ e[k] \in Hits(q, text) /\ q[e[k]] = p[k] /\ k \in 1 .. n
    BY <1>4, <2>1 DEF IsFirst
  <2>6. \A i \in 1 .. n : e[i] \in 1 .. m
    OBVIOUS
  <2>7. \A j \in Hits(q, text) : j \in 1 .. m
    BY <1>1 DEF Hits
  <2>3. ASSUME NEW j \in Hits(q, text)
        PROVE  Length[q[j][1]] <= Length[p[k][1]] /\ (Length[q[j][1]] = Length[p[k][1]] => e[k] <= j)
    <3>1. PICK i \in Hits(p, text) : q[j] = p[i] /\ e[i] <= j
      BY <1>3
    <3>2. Length[p[i][1]] <= Length[p[k][1]] /\ (Length[p[i][1]] = Length[p[k][1]] => k <= i)
      BY <2>1 DEF IsFirst
    <3>3. k <= i => e[k] <= e[i]
      BY <1>2, <1>4, <2>2
    <3>4. e[k] \in Nat /\ e[i] \in Nat /\ j \in Nat
      BY <1>1, <1>4, <2>2, <2>6, <2>7
    <3>5. k <= i => e[k] <= j
      BY <3>1, <3>3, <3>4
    <3> QED
      BY <3>1, <3>2, <3>5
  <2>4. IsFirst(e[k], q, text)
    BY <2>2, <2>3 DEF IsFirst
  <2>5. F!GuessCountry(q, text) = q[e[k]][2] /\ F!GuessCountry(p, text) = p[k][2]
    BY <2>1, <2>4, GuessIsFirst
  <2> QED
    BY <2>2, <2>5
<1> QED
  BY <1>5, <1>6

LEMMA WithinRepeat ==
  ASSUME NEW Items, NEW x \in Seq(Items), NEW a \in Seq(Items), Range(a) \subseteq Range(x)
  PROVE  Within(x, x \o a)
<1> DEFINE n == Len(x)
           m == Len(a)
           y == x \o a
           e == [i \in 1 .. n |-> i]
<1>1. n \in Nat /\ m \in Nat /\ DOMAIN x = 1 .. n /\ DOMAIN a = 1 .. m /\ Len(y) = n + m
  OBVIOUS
<1>2. (\A i \in 1 .. n : y[i] = x[i]) /\ \A i \in 1 .. m : y[n + i] = a[i]
  OBVIOUS
<1> HIDE DEF n, m, y
<1>3. e \in [1 .. n -> 1 .. (n + m)] /\ \A i \in 1 .. n : e[i] = i
  BY <1>1
<1> HIDE DEF e
<1>4. ASSUME NEW k \in 1 .. (n + m) PROVE \E i \in 1 .. n : y[k] = x[i] /\ e[i] <= k
  <2>1. CASE k \in 1 .. n
    BY <1>1, <1>2, <1>3, <2>1
  <2>2. CASE k \notin 1 .. n
    <3>1. k - n \in 1 .. m /\ n + (k - n) = k /\ k > n
      BY <1>1, <2>2
    <3>2. y[k] = a[k - n] /\ a[k - n] \in Range(a)
      BY <1>1, <1>2, <3>1 DEF Range
    <3>3. PICK i \in 1 .. n : x[i] = y[k]
      BY <1>1, <3>2 DEF Range
    <3> QED
      BY <1>1, <1>3, <3>1, <3>3
  <2> QED
    BY <2>1, <2>2
<1>5. (\A i, j \in 1 .. n : i <= j => e[i] <= e[j]) /\ \A i \in 1 .. n : y[e[i]] = x[i]
  BY <1>2, <1>3
<1> QED
  BY <1>1, <1>3, <1>4, <1>5 DEF Within, n, y

LEMMA WithinJoin ==
  ASSUME NEW Items, NEW x \in Seq(Items), NEW y \in Seq(Items), NEW p \in Seq(Items), NEW q \in Seq(Items),
         Within(x, y), Within(p, q)
  PROVE  Within(x \o p, y \o q)
<1> DEFINE n == Len(x)
           m == Len(y)
           l == Len(p)
           h == Len(q)
           u == x \o p
           v == y \o q
<1>1. n \in Nat /\ m \in Nat /\ l \in Nat /\ h \in Nat /\ Len(u) = n + l /\ Len(v) = m + h
  OBVIOUS
<1>2. (\A i \in 1 .. n : u[i] = x[i]) /\ \A i \in 1 .. l : u[n + i] = p[i]
  OBVIOUS
<1>3. (\A i \in 1 .. m : v[i] = y[i]) /\ \A i \in 1 .. h : v[m + i] = q[i]
  OBVIOUS
<1>4. PICK d \in [1 .. n -> 1 .. m] :
       /\ \A i, j \in 1 .. n : i <= j => d[i] <= d[j]
       /\ \A i \in 1 .. n : y[d[i]] = x[i]
       /\ \A k \in 1 .. m : \E i \in 1 .. n : y[k] = x[i] /\ d[i] <= k
  BY DEF Within
<1>5. PICK e \in [1 .. l -> 1 .. h] :
       /\ \A i, j \in 1 .. l : i <= j => e[i] <= e[j]
       /\ \A i \in 1 .. l : q[e[i]] = p[i]
       /\ \A k \in 1 .. h : \E i \in 1 .. l : q[k] = p[i] /\ e[i] <= k
  BY DEF Within
<1> HIDE DEF n, m, l, h, u, v
<1> DEFINE f == [i \in 1 .. (n + l) |-> IF i \in 1 .. n THEN d[i] ELSE m + e[i - n]]
<1>6. \A i \in 1 .. n : d[i] \in Nat /\ d[i] >= 1 /\ d[i] <= m
  BY <1>1
<1>7. \A i \in 1 .. l : e[i] \in Nat /\ e[i] >= 1 /\ e[i] <= h
  BY <1>1
<1>8. \A i \in 1 .. (n + l) : i \in 1 .. n \/ (i \notin 1 .. n /\ i - n \in 1 .. l /\ n + (i - n) = i /\ i \in Nat /\ i > n)
  BY <1>1
<1>9. \A i \in 1 .. n : i \in 1 .. (n + l) /\ f[i] = d[i] /\ f[i] \in 1 .. (m + h) /\ f[i] <= m
  BY <1>1, <1>6
<1>10. ASSUME NEW i \in 1 .. l PROVE n + i \in 1 .. (n + l) /\ f[n + i] = m + e[i] /\ f[n + i] \in 1 .. (m + h)
  <2>1. n + i \in 1 .. (n + l) /\ ~(n + i \in 1 .. n) /\ (n + i) - n = i
    BY <1>1
  <2>2. f[n + i] = m + e[i]
    BY <2>1
  <2> QED
    BY <1>1, <1>7, <2>1, <2>2
<1>11. f = [i \in 1 .. (n + l) |-> f[i]]
  OBVIOUS
<1> HIDE DEF f
<1>12. ASSUME NEW i \in 1 .. (n + l) PROVE f[i] \in 1 .. (m + h) /\ v[f[i]] = u[i]
  <2>1. CASE i \in 1 .. n
    <3>1. f[i] = d[i] /\ d[i] \in 1 .. m
      BY <1>9, <2>1
    <3> QED
      BY <1>2, <1>3, <1>4, <1>9, <2>1, <3>1
  <2>2. CASE i \notin 1 .. n
    <3>1. PICK k \in 1 .. l : i = n + k
      BY <1>8, <2>2
    <3>2. f[i] = m + e[k] /\ e[k] \in 1 .. h /\ f[i] \in 1 .. (m + h)
      BY <1>10, <3>1
    <3>3. v[m + e[k]] = q[e[k]] /\ u[n + k] = p[k] /\ q[e[k]] = p[k]
      BY <1>2, <1>3, <1>5, <3>2
    <3> QED
      BY <3>1, <3>2, <3>3
  <2> QED
    BY <2>1, <2>2
<1>13. ASSUME NEW i \in 1 .. (n + l), NEW j \in 1 .. (n + l), i <= j PROVE f[i] <= f[j]
  <2>1. CASE i \in 1 .. n /\ j \in 1 .. n
    BY <1>4, <1>9, <1>13, <2>1
  <2>2. CASE i \in 1 .. n /\ j \notin 1 .. n
    <3>1. PICK k \in 1 .. l : j = n + k
      BY <1>8, <2>2
    <3>2. f[j] = m + e[k] /\ f[i] <= m
      BY <1>9, <1>10, <2>2, <3>1
    <3>3. f[i] \in Nat /\ m \in Nat /\ e[k] \in Nat
      BY <1>1, <1>6, <1>7, <1>9, <2>2
    <3> QED
      BY <3>2, <3>3
  <2>3. CASE i \notin 1 .. n /\ j \notin 1 .. n
    <3>1. PICK k \in 1 .. l : i = n + k
      BY <1>8, <2>3
    <3>2. PICK g \in 1 .. l : j = n + g
      BY <1>8, <2>3
    <3>3. k <= g
      BY <1>1, <1>13, <3>1, <3>2
    <3>4. f[i] = m + e[k] /\ f[j] = m + e[g] /\ e[k] <= e[g]
      BY <1>5, <1>10, <3>1, <3>2, <3>3
    <3> QED
      BY <1>1, <1>7, <3>4
  <2>4. CASE i \notin 1 .. n /\ j \in 1 .. n
    BY <1>1, <1>8, <1>13, <2>4
  <2> QED
    BY <2>1, <2>2, <2>3, <2>4
<1>14. ASSUME NEW k \in 1 .. (m + h) PROVE \E i \in 1 .. (n + l) : v[k] = u[i] /\ f[i] <= k
  <2>1. CASE k \in 1 .. m
    <3>1. PICK i \in 1 .. n : y[k] = x[i] /\ d[i] <= k
      BY <1>4, <2>1
    <3> QED
      BY <1>2, <1>3, <1>9, <2>1, <3>1
  <2>2. CASE k \notin 1 .. m
    <3>1. k - m \in 1 .. h /\ m + (k - m) = k
      BY <1>1, <2>2
    <3>2. PICK i \in 1 .. l : q[k - m] = p[i] /\ e[i] <= k - m
      BY <1>5, <3>1
    <3>3. v[k] = u[n + i]
      BY <1>2, <1>3, <3>1, <3>2
    <3>4. f[n + i] <= k /\ n + i \in 1 .. (n + l)
      <4>1. f[n + i] = m + e[i] /\ n + i \in 1 .. (n + l)
        BY <1>10
      <4>2. e[i] \in Nat /\ m \in Nat /\ k \in Nat
        BY <1>1, <1>7
      <4> QED
        BY <3>2, <4>1, <4>2
    <3> QED
      BY <3>3, <3>4
  <2> QED
    BY <2>1, <2>2
<1>15. f \in [1 .. (n + l) -> 1 .. (m + h)]
  BY <1>11, <1>12
<1>16. Len(u) = n + l /\ Len(v) = m + h
  BY <1>1
<1>17. Within(u, v)
  <2>1. f \in [1 .. Len(u) -> 1 .. Len(v)]
    BY <1>15, <1>16
  <2>2. \A i, j \in 1 .. Len(u) : i <= j => f[i] <= f[j]
    BY <1>13, <1>16
  <2>3. \A i \in 1 .. Len(u) : v[f[i]] = u[i]
    BY <1>12, <1>16
  <2>4. \A k \in 1 .. Len(v) : \E i \in 1 .. Len(u) : v[k] = u[i] /\ f[i] <= k
    BY <1>14, <1>16
  <2> QED
    BY <2>1, <2>2, <2>3, <2>4, Zenon DEF Within
<1> QED
  BY <1>17 DEF u, v

LEMMA JoinedWithin ==
  ASSUME NEW Items, NEW ss \in Seq(Seq(Items)), NEW tt \in Seq(Seq(Items)), Len(ss) = Len(tt),
         \A n \in 1 .. Len(ss) : Within(ss[n], tt[n])
  PROVE  Within(Joined(ss), Joined(tt))
<1> DEFINE len == Len(ss)
<1>1. len \in Nat /\ len = Len(tt) /\ \A n \in 1 .. len : ss[n] \in Seq(Items) /\ tt[n] \in Seq(Items)
  OBVIOUS
<1>2. PICK f \in [0 .. len -> Seq(Items)] :
          f[0] = <<>> /\ (\A n \in 1 .. len : f[n] = f[n - 1] \o ss[n]) /\ Joined(ss) = f[len]
  BY JoinedSteps
<1>3. PICK g \in [0 .. len -> Seq(Items)] :
          g[0] = <<>> /\ (\A n \in 1 .. len : g[n] = g[n - 1] \o tt[n]) /\ Joined(tt) = g[len]
  <2>1. \E g \in [0 .. Len(tt) -> Seq(Items)] :
          g[0] = <<>> /\ (\A n \in 1 .. Len(tt) : g[n] = g[n - 1] \o tt[n]) /\ Joined(tt) = g[Len(tt)]
    BY JoinedSteps
  <2>2. Len(tt) = len
    OBVIOUS
  <2> HIDE DEF len
  <2> QED
    BY <2>1, <2>2
<1> DEFINE T == {n \in Nat : n \in 0 .. len => Within(f[n], g[n])}
<1>4. 0 \in T
  <2>1. Within(<<>>, <<>>)
    <3>1. <<>> \in Seq(Items) /\ Range(<<>>) \subseteq Range(<<>>) /\ <<>> \o <<>> = <<>>
      BY DEF Range
    <3> QED
      BY <3>1, WithinRepeat
  <2> QED
    BY <1>2, <1>3, <2>1
<1> HIDE DEF len
<1>5. ASSUME NEW n \in Nat, n \in T PROVE n + 1 \in T
  <2> SUFFICES ASSUME n + 1 \in 0 .. len PROVE Within(f[n + 1], g[n + 1])
    BY <1>5
  <2>0. (n + 1) - 1 = n /\ n \in 0 .. len /\ n + 1 \in 1 .. len
    BY <1>1, <1>5
  <2>1. f[n + 1] = f[n] \o ss[n + 1] /\ g[n + 1] = g[n] \o tt[n + 1]
    BY <1>2, <1>3, <2>0
  <2>2. f[n] \in Seq(Items) /\ g[n] \in Seq(Items) /\ ss[n + 1] \in Seq(Items) /\ tt[n + 1] \in Seq(Items)
    BY <1>1, <2>0
  <2>3. Within(f[n], g[n]) /\ Within(ss[n + 1], tt[n + 1])
    BY <1>5, <2>0 DEF len
  <2> QED
    BY <2>1, <2>2, <2>3, WithinJoin
<1> HIDE DEF T
<1>6. len \in T
  BY <1>1, <1>4, <1>5, Induction
<1> QED
  BY <1>1, <1>2, <1>3, <1>6 DEF T

LEMMA SettingsLoops ==
  ASSUME NEW s, NEW S
  PROVE  F!Picked(s, S) = Picked(s, S) /\ F!Among(s, S) = Among(s, S) /\ F!Joined(s) = Joined(s) /\ F!Range(s) = Range(s)
BY DEF F!Among, F!Picked, Among, Picked, F!Joined, Joined, F!Range, Range

LEMMA ListFacts ==
  ASSUME NEW s, IsList(s)
  PROVE  Len(s) \in Nat /\ DOMAIN s = 1 .. Len(s) /\ s \in Seq(Range(s)) /\ s = [i \in 1 .. Len(s) |-> s[i]]
BY DEF IsList, Range

LEMMA SeqIsList ==
  ASSUME NEW Items, NEW s \in Seq(Items)
  PROVE  IsList(s)
<1>1. s \in Seq({s[i] : i \in DOMAIN s})
  OBVIOUS
<1> QED
  BY <1>1 DEF IsList

LEMMA JoinByPlace ==
  ASSUME NEW Items, NEW s \in Seq(Items), NEW u \in Seq(Items)
  PROVE  s \o u = [i \in 1 .. (Len(s) + Len(u)) |-> (s \o u)[i]]
<1> DEFINE t == s \o u
           n == Len(s) + Len(u)
<1>1. t \in Seq(Items) /\ Len(t) = n
  OBVIOUS
<1> HIDE DEF t, n
<1>2. t = [i \in 1 .. n |-> t[i]]
  BY <1>1
<1> QED
  BY <1>2 DEF t, n

LEMMA ListsJoin ==
  ASSUME NEW s, NEW u, IsList(s), IsList(u)
  PROVE  IsList(s \o u) /\ Range(s \o u) = Range(s) \union Range(u) /\ s \in Seq(Range(s) \union Range(u)) /\ u \in Seq(Range(s) \union Range(u))
<1> DEFINE Items == Range(s) \union Range(u)
<1>1. s \in Seq(Range(s)) /\ u \in Seq(Range(u)) /\ Range(s) \subseteq Items /\ Range(u) \subseteq Items
  BY ListFacts
<1> HIDE DEF Items
<1>2. s \in Seq(Items) /\ u \in Seq(Items)
  BY <1>1, Wider
<1>3. s \o u \in Seq(Items) /\ Range(s \o u) = Range(s) \union Range(u)
  BY <1>2, RangeOfJoin
<1> QED
  BY <1>2, <1>3, SeqIsList DEF Items

\* Lists given by place are lists of a common kind.
LEMMA ListsOfLists ==
  ASSUME NEW n \in Nat, NEW ss, ss = [k \in 1 .. n |-> ss[k]], \A k \in 1 .. n : IsList(ss[k]),
         NEW Items, \A k \in 1 .. n : Range(ss[k]) \subseteq Items
  PROVE  ss \in Seq(Seq(Items)) /\ Len(ss) = n
<1>1. ASSUME NEW k \in 1 .. n PROVE ss[k] \in Seq(Items)
  <2>1. ss[k] \in Seq(Range(ss[k])) /\ Range(ss[k]) \subseteq Items
    BY ListFacts
  <2> QED
    BY <2>1, Wider
<1> QED
  BY <1>1, Itemwise

\* The table: a list of variants for each of its keys.
IsTable(keys, v) == /\ IsList(keys) /\ v = [k \in Range(keys) |-> v[k]]
                    /\ \A k \in Range(keys) : IsList(v[k])
\* A table of aliases, and those it has for a country.
IsAliases(a) == /\ IsFiniteSet(DOMAIN a) /\ a = [c \in DOMAIN a |-> a[c]]
                /\ \A c \in DOMAIN a : IsList(a[c])
AliasOf(a, k) == IF k \in DOMAIN a THEN a[k] ELSE <<>>

LEMMA ListedOnce ==
  ASSUME NEW S, IsFiniteSet(S)
  PROVE  F!SetToSeq(S) \in Seq(S) /\ Range(F!SetToSeq(S)) = S /\ (S = {} => F!SetToSeq(S) = <<>>)
<1>1. Cardinality(S) \in Nat /\ ExistsBijection(1 .. Cardinality(S), S) /\ F!Cardinality(S) = Cardinality(S)
  BY FS_CardinalityType DEF F!Cardinality, Cardinality
<1>2. PICK n \in Nat : n = Cardinality(S)
  BY <1>1
<1>3. PICK b \in Bijection(1 .. n, S) : TRUE
  BY <1>1, <1>2 DEF ExistsBijection
<1>4. b \in [1 .. n -> S] /\ F!IsInjective(b)
  BY <1>3 DEF Bijection, Injection, IsInjective, F!IsInjective
<1>5. PICK m : m = F!SetToSeq(S)
  OBVIOUS
<1>6. m \in [1 .. n -> S] /\ F!IsInjective(m)
  BY <1>1, <1>2, <1>4, <1>5 DEF F!SetToSeq
<1>7. m \in Injection(1 .. n, S)
  BY <1>6 DEF Injection, IsInjective, F!IsInjective
<1>8. Cardinality(1 .. n) = n
  BY FS_Interval
<1>9. m \in Surjection(1 .. n, S)
  BY <1>2, <1>7, <1>8, FS_Injection
<1>10. Range(m) = S
  BY <1>6, <1>9 DEF Surjection, Range
<1>11. m \in Seq(S)
  BY <1>6
<1>12. S = {} => m = <<>>
  <2> SUFFICES ASSUME S = {} PROVE m = <<>>
    OBVIOUS
  <2>1. n = 0
    BY <1>2, FS_EmptySet
  <2> QED
    BY <1>6, <2>1
<1> QED
  BY <1>5, <1>10, <1>11, <1>12

LEMMA TableExtends ==
  ASSUME NEW keys, NEW v, IsTable(keys, v), NEW a, IsAliases(a)
  PROVE  /\ IsTable(F!WithKeys(keys, a), F!Extended(keys, v, a))
         /\ Range(F!WithKeys(keys, a)) = Range(keys) \union DOMAIN a
         /\ DOMAIN a \subseteq Range(keys) => F!WithKeys(keys, a) = keys
         /\ \A k \in Range(keys) : F!Extended(keys, v, a)[k] = v[k] \o AliasOf(a, k)
         /\ \A k \in DOMAIN a : Range(a[k]) \subseteq Range(F!Extended(keys, v, a)[k])
<1> DEFINE more == F!SetToSeq(DOMAIN a \ Range(keys))
           w == F!WithKeys(keys, a)
           D == Range(keys) \union DOMAIN a
           x == F!Extended(keys, v, a)
           Old(k) == IF k \in DOMAIN v THEN v[k] ELSE <<>>
<1>1. more \in Seq(DOMAIN a \ Range(keys)) /\ Range(more) = DOMAIN a \ Range(keys) /\ (DOMAIN a \subseteq Range(keys) => more = <<>>)
  <2>1. IsFiniteSet(DOMAIN a \ Range(keys))
    BY FS_Subset DEF IsAliases
  <2>2. DOMAIN a \subseteq Range(keys) => DOMAIN a \ Range(keys) = {}
    OBVIOUS
  <2> QED
    BY <2>1, <2>2, ListedOnce
<1>2. w = keys \o more
  BY SettingsLoops DEF F!WithKeys
<1>3. IsList(keys) /\ IsList(more)
  BY <1>1, SeqIsList DEF IsTable
<1>4. x = [k \in D |-> Old(k) \o AliasOf(a, k)]
  BY SettingsLoops DEF F!Extended, AliasOf
<1> HIDE DEF w, x, more
<1>5. IsList(w) /\ Range(w) = D
  <2>1. IsList(keys \o more) /\ Range(keys \o more) = Range(keys) \union Range(more)
    BY <1>3, ListsJoin
  <2> QED
    BY <1>1, <1>2, <2>1
<1>6. DOMAIN a \subseteq Range(keys) => w = keys
  <2>1. keys \in Seq(Range(keys))
    BY <1>3, ListFacts
  <2>2. keys \o <<>> = keys
    BY <2>1
  <2> QED
    BY <1>1, <1>2, <2>2
<1>7. v = [k \in Range(keys) |-> v[k]] /\ \A k \in Range(keys) : IsList(v[k])
  BY DEF IsTable
<1>8. DOMAIN v = Range(keys)
  BY <1>7
<1>9. ASSUME NEW k PROVE IsList(Old(k)) /\ IsList(AliasOf(a, k))
  <2>1. IsList(<<>>)
    BY DEF IsList
  <2> QED
    BY <1>7, <1>8, <2>1 DEF AliasOf, IsAliases
<1> HIDE DEF Old
<1>10. \A k \in D : x[k] = Old(k) \o AliasOf(a, k)
  BY <1>4
<1>11. ASSUME NEW k \in D PROVE IsList(x[k]) /\ Range(AliasOf(a, k)) \subseteq Range(x[k])
  BY <1>9, <1>10, ListsJoin
<1>12. IsTable(w, x)
  <2>1. x = [k \in D |-> x[k]]
    BY <1>4
  <2> QED
    BY <1>5, <1>11, <2>1 DEF IsTable
<1>13. \A k \in Range(keys) : x[k] = v[k] \o AliasOf(a, k)
  BY <1>8, <1>10 DEF Old
<1>14. \A k \in DOMAIN a : Range(a[k]) \subseteq Range(x[k])
  BY <1>11 DEF AliasOf
<1> QED
  BY <1>5, <1>6, <1>12, <1>13, <1>14 DEF w, x

\* The pairs of a table that repeats another one.
LEMMA PairsWithin ==
  ASSUME NEW keys, NEW v, IsTable(keys, v), NEW u, IsTable(keys, u), NEW a, IsAliases(a),
         \A k \in Range(keys) : u[k] = v[k] \o AliasOf(a, k) /\ Range(AliasOf(a, k)) \subseteq Range(v[k])
  PROVE  IsList(F!Pairs(keys, v)) /\ IsList(F!Pairs(keys, u)) /\ Within(F!Pairs(keys, v), F!Pairs(keys, u))
<1> DEFINE n == Len(keys)
           Ofs(t, k) == [j \in DOMAIN t[keys[k]] |-> <<t[keys[k]][j], keys[k]>>]
           ss == [k \in 1 .. n |-> Ofs(v, k)]
           tt == [k \in 1 .. n |-> Ofs(u, k)]
           Items == {<<y, z>> : y \in UNION {Range(v[k]) : k \in Range(keys)}, z \in Range(keys)}
<1>1. n \in Nat /\ DOMAIN keys = 1 .. n /\ \A k \in 1 .. n : keys[k] \in Range(keys)
  <2>1. IsList(keys)
    BY DEF IsTable
  <2> QED
    BY <2>1, ListFacts DEF Range
<1>2. F!Pairs(keys, v) = Joined(ss) /\ F!Pairs(keys, u) = Joined(tt)
  BY <1>1, SettingsLoops DEF F!Pairs
<1>3. ASSUME NEW k \in 1 .. n
      PROVE  ss[k] \in Seq(Items) /\ tt[k] \in Seq(Items) /\ Within(ss[k], tt[k])
  <2>1. PICK c : c = keys[k]
    OBVIOUS
  <2>2. PICK b : b = AliasOf(a, c)
    OBVIOUS
  <2>3. PICK x : x = v[c]
    OBVIOUS
  <2>4. c \in Range(keys) /\ IsList(x) /\ IsList(b) /\ u[c] = x \o b /\ Range(b) \subseteq Range(x)
    <3>1. c \in Range(keys)
      BY <1>1, <2>1
    <3>2. IsList(<<>>)
      BY DEF IsList
    <3> QED
      BY <2>2, <2>3, <3>1, <3>2 DEF IsTable, IsAliases, AliasOf
  <2> DEFINE m == Len(x)
             l == Len(b)
             y == x \o b
             p == [j \in DOMAIN x |-> <<x[j], c>>]
             q == [j \in DOMAIN b |-> <<b[j], c>>]
             r == [j \in DOMAIN y |-> <<y[j], c>>]
  <2>5. x \in Seq(Range(x)) /\ b \in Seq(Range(x)) /\ m \in Nat /\ l \in Nat /\ DOMAIN x = 1 .. m /\ DOMAIN b = 1 .. l
    <3>1. b \in Seq(Range(b))
      BY <2>4, ListFacts
    <3> QED
      BY <2>4, <3>1, ListFacts, Wider
  <2>6. Len(y) = m + l /\ DOMAIN y = 1 .. (m + l) /\ (\A j \in 1 .. m : y[j] = x[j]) /\ (\A j \in 1 .. l : y[m + j] = b[j])
    BY <2>5
  <2>7. \A z \in Range(x) : <<z, c>> \in Items
    BY <2>3, <2>4
  <2> HIDE DEF y, m, l, Items
  <2>8. p \in Seq(Items) /\ Len(p) = m /\ \A j \in 1 .. m : p[j] = <<x[j], c>>
    <3>1. \A j \in 1 .. m : p[j] = <<x[j], c>> /\ p[j] \in Items
      BY <2>5, <2>7 DEF Range
    <3>2. p = [j \in 1 .. m |-> p[j]]
      BY <2>5
    <3> HIDE DEF p
    <3> QED
      BY <2>5, <3>1, <3>2, Itemwise
  <2>9. q \in Seq(Items) /\ Len(q) = l /\ \A j \in 1 .. l : q[j] = <<b[j], c>>
    <3>1. \A j \in 1 .. l : q[j] = <<b[j], c>> /\ q[j] \in Items
      BY <2>4, <2>5, <2>7 DEF Range
    <3>2. q = [j \in 1 .. l |-> q[j]]
      BY <2>5
    <3> HIDE DEF q
    <3> QED
      BY <2>5, <3>1, <3>2, Itemwise
  <2>10. r = [j \in 1 .. (m + l) |-> <<y[j], c>>]
    BY <2>6
  <2> HIDE DEF p, q, r
  <2>11. r = p \o q
    <3>1. \A j \in 1 .. (m + l) : r[j] = (p \o q)[j]
      <4> SUFFICES ASSUME NEW j \in 1 .. (m + l) PROVE r[j] = (p \o q)[j]
        OBVIOUS
      <4>1. CASE j \in 1 .. m
        BY <2>5, <2>6, <2>8, <2>9, <2>10, <4>1
      <4>2. CASE j \notin 1 .. m
        <5>1. j - m \in 1 .. l /\ m + (j - m) = j
          BY <2>5, <4>2
        <5>2. (p \o q)[j] = q[j - m]
          BY <2>5, <2>8, <2>9, <4>2
        <5>3. q[j - m] = <<b[j - m], c>> /\ y[j] = b[j - m]
          BY <2>6, <2>9, <5>1
        <5> QED
          BY <2>10, <5>2, <5>3
      <4> QED
        BY <4>1, <4>2
    <3>2. p \o q = [j \in 1 .. (m + l) |-> (p \o q)[j]]
      <4>1. p \o q = [j \in 1 .. (Len(p) + Len(q)) |-> (p \o q)[j]]
        BY <2>8, <2>9, JoinByPlace
      <4>2. Len(p) + Len(q) = m + l
        BY <2>8, <2>9
      <4> QED
        BY <4>1, <4>2
    <3>3. r = [j \in 1 .. (m + l) |-> r[j]]
      BY <2>10
    <3> QED
      BY <3>1, <3>2, <3>3
  <2>12. Range(q) \subseteq Range(p)
    <3>1. DOMAIN p = 1 .. m /\ DOMAIN q = 1 .. l
      BY <2>8, <2>9
    <3>2. ASSUME NEW j \in 1 .. l PROVE q[j] \in Range(p)
      <4>1. b[j] \in Range(x)
        BY <2>4, <2>5 DEF Range
      <4>2. PICK i \in 1 .. m : x[i] = b[j]
        BY <2>5, <4>1 DEF Range
      <4> QED
        BY <2>8, <2>9, <3>1, <4>2 DEF Range
    <3> QED
      BY <3>1, <3>2 DEF Range
  <2>13. Within(p, r) /\ r \in Seq(Items)
    BY <2>8, <2>9, <2>11, <2>12, WithinRepeat
  <2>14. ss[k] = p /\ tt[k] = r
    <3>1. ss[k] = Ofs(v, k) /\ tt[k] = Ofs(u, k)
      OBVIOUS
    <3> QED
      BY <2>1, <2>3, <2>4, <3>1 DEF p, r, y
  <2> HIDE DEF ss, tt
  <2> QED
    BY <2>8, <2>13, <2>14
<1>4. ss = [k \in 1 .. n |-> ss[k]] /\ tt = [k \in 1 .. n |-> tt[k]]
  OBVIOUS
<1> HIDE DEF ss, tt, Items, n
<1>5. ss \in Seq(Seq(Items)) /\ tt \in Seq(Seq(Items)) /\ Len(ss) = n /\ Len(tt) = n
  BY <1>1, <1>3, <1>4, Itemwise
<1>6. Within(Joined(ss), Joined(tt))
  BY <1>3, <1>5, JoinedWithin
<1>7. Joined(ss) \in Seq(Items) /\ Joined(tt) \in Seq(Items)
  BY <1>5, JoinedItems
<1> QED
  BY <1>2, <1>6, <1>7, SeqIsList

LEMMA Updated ==
  ASSUME NEW B, NEW f, f = [b \in B |-> f[b]], NEW b \in B, NEW x
  PROVE  LET g == [f EXCEPT ![b] = x] IN
           g = [c \in B |-> g[c]] /\ g[b] = x /\ \A c \in B : c # b => g[c] = f[c]
OBVIOUS

\* Lists of pairs that give every text the same country.
Same(p, q) == \A t \in F!Texts : F!GuessCountry(p, t) = F!GuessCountry(q, t)

LEMMA WithinSame ==
  ASSUME NEW p, NEW q, IsList(p), IsList(q), Within(p, q)
  PROVE  Same(p, q)
<1>1. \A t \in F!Texts : t \in SUBSET DOMAIN Length
  BY DEF F!Texts
<1> QED
  BY <1>1, SameGuess DEF Same

\* What a build has made so far of its layers.
Lower(a) == IF a.config THEN F!Overlay(Defaults, "yaml", a.file.says) ELSE Defaults
\* The same with the profile on top.
Base(a) == F!Overlay(Lower(a), "profile",
                     IF F!FieldOf(a).profile \in DOMAIN FieldProfiles THEN FieldProfiles[F!FieldOf(a).profile].says ELSE <<>>)
\* A command line, with the file that its build has read.
IsArgs(a) == \E x \in Args, f \in Files : a = [x EXCEPT !.file = f]
\* What a build has come to.
BuildOk(b) ==
    /\ buildAt[b] \in {"idle", "done", "refused", "broken", "yaml", "walk", "rebuild", "rest"}
    /\ buildAt[b] # "idle" => IsArgs(args[b])
    /\ buildAt[b] = "yaml" => args[b].config /\ built[b] = Defaults
    /\ buildAt[b] \in {"walk", "rebuild"} => args[b].config
    /\ buildAt[b] \in {"walk", "rebuild", "rest"} => built[b] = Lower(args[b])
    /\ buildAt[b] = "done" => built[b] = F!Override(Base(args[b]), args[b])

\* The file and the table are of their types.
CfgTyped == /\ settings \in Files /\ IsTable(order, variants)
            /\ buildAt = [b \in Builders |-> buildAt[b]] /\ args = [b \in Builders |-> args[b]]
            /\ built = [b \in Builders |-> built[b]] /\ walked = [b \in Builders |-> walked[b]]

\* While no build overlaps an edit of the file.
InTable(a) == /\ DOMAIN a \subseteq Range(order)
              /\ \A k \in DOMAIN a : Range(a[k]) \subseteq Range(variants[k])
\* Builds under way read one file, whose aliases are in the table once they are
\* applied; what was walked, or else the list in use, is that of the table.
AliasesKept ==
    /\ \A b, o \in Builders : buildAt[b] \notin F!Idle /\ buildAt[o] \notin F!Idle => args[b].file = args[o].file
    /\ \A b \in Builders : buildAt[b] \in {"walk", "rebuild"} => InTable(args[b].file.aliases)
    /\ \A b \in Builders : buildAt[b] = "rebuild" => walked[b].keys = order /\ Same(walked[b].pairs, F!Pairs(order, variants))
    /\ (\A b \in Builders : buildAt[b] \notin {"walk", "rebuild"}) => Same(lookup, F!Pairs(order, variants))

\* The builds, and the table they share.
CfgInv == /\ CfgTyped
          /\ \A b \in Builders : BuildOk(b)
          /\ ~overlap => AliasesKept

LEMMA ArgsFacts ==
  ASSUME NEW a, IsArgs(a)
  PROVE  /\ a.file \in Files /\ IsAliases(a.file.aliases) /\ a.config \in BOOLEAN /\ IsList(a.subfields)
         /\ \A s \in DOMAIN a.says : a.says[s] # Malformed
         /\ a = [config |-> a.config, field |-> a.field, says |-> a.says, keywords |-> a.keywords, types |-> a.types,
                 subfields |-> a.subfields, file |-> a.file]
<1>1. PICK x \in Args, f \in Files : a = [x EXCEPT !.file = f]
  BY DEF IsArgs
<1>2. /\ x = [config |-> x.config, field |-> x.field, says |-> x.says, keywords |-> x.keywords, types |-> x.types,
              subfields |-> x.subfields, file |-> x.file]
      /\ x.config \in BOOLEAN /\ IsList(x.subfields) /\ \A s \in DOMAIN x.says : x.says[s] # Malformed
  BY ConfigurationAssumption
<1>3. a = [config |-> x.config, field |-> x.field, says |-> x.says, keywords |-> x.keywords, types |-> x.types,
           subfields |-> x.subfields, file |-> f]
  BY <1>1, <1>2
<1>4. a.config = x.config /\ a.says = x.says /\ a.file = f /\ a.subfields = x.subfields /\ a.field = x.field /\ a.keywords = x.keywords /\ a.types = x.types
  BY <1>3
<1>5. f.aliases \in {Aliases} \cup {g.aliases : g \in Files}
  OBVIOUS
<1>6. IsAliases(f.aliases)
  BY <1>5, ConfigurationAssumption DEF IsAliases
<1> QED
  BY <1>2, <1>3, <1>4, <1>6

LEMMA NewArgs ==
  ASSUME NEW x \in Args, NEW f \in Files
  PROVE  LET a == [x EXCEPT !.file = f] IN IsArgs(a) /\ a.file = f /\ a.config = x.config
<1>1. x = [config |-> x.config, field |-> x.field, says |-> x.says, keywords |-> x.keywords, types |-> x.types,
           subfields |-> x.subfields, file |-> x.file]
  BY ConfigurationAssumption
<1>2. [x EXCEPT !.file = f].file = f /\ [x EXCEPT !.file = f].config = x.config
  BY <1>1
<1>3. IsArgs([x EXCEPT !.file = f])
  BY DEF IsArgs
<1> QED
  BY <1>2, <1>3

LEMMA TablePairs ==
  ASSUME NEW keys, NEW v, IsTable(keys, v)
  PROVE  IsList(F!Pairs(keys, v))
<1> DEFINE a == [c \in {} |-> <<>>]
<1>1. IsAliases(a)
  BY FS_EmptySet DEF IsAliases
<1>2. DOMAIN a = {}
  OBVIOUS
<1> HIDE DEF a
<1>3. \A k : AliasOf(a, k) = <<>>
  BY <1>2 DEF AliasOf
<1>4. ASSUME NEW k \in Range(keys) PROVE v[k] = v[k] \o AliasOf(a, k) /\ Range(AliasOf(a, k)) \subseteq Range(v[k])
  <2>1. v[k] \in Seq(Range(v[k]))
    BY ListFacts DEF IsTable
  <2>2. v[k] \o <<>> = v[k]
    BY <2>1
  <2>3. Range(<<>>) = {}
    BY DEF Range
  <2> QED
    BY <1>3, <2>2, <2>3
<1> QED
  BY <1>1, <1>4, PairsWithin

LEMMA CfgInit ==
  ASSUME F!Init
  PROVE  CfgInv
<1> USE DEF F!Init
<1>1. IsTable(Countries, Aliases)
  <2>1. Aliases \in {Aliases} \cup {f.aliases : f \in Files}
    OBVIOUS
  <2>2. Aliases = [c \in DOMAIN Aliases |-> Aliases[c]] /\ \A c \in DOMAIN Aliases : IsList(Aliases[c])
    BY <2>1, ConfigurationAssumption
  <2>3. DOMAIN Aliases = Range(Countries) /\ IsList(Countries)
    BY ConfigurationAssumption DEF Range
  <2> QED
    BY <2>2, <2>3 DEF IsTable
<1>2. CfgTyped
  BY <1>1 DEF CfgTyped
<1>3. \A b \in Builders : buildAt[b] = "idle"
  OBVIOUS
<1>4. \A b \in Builders : BuildOk(b)
  BY <1>3 DEF BuildOk
<1>5. AliasesKept
  <2>1. Same(lookup, F!Pairs(order, variants))
    BY DEF Same
  <2> QED
    BY <1>3, <2>1 DEF AliasesKept, F!Idle
<1> QED
  BY <1>2, <1>4, <1>5 DEF CfgInv

LEMMA OverrideKept ==
  ASSUME env' = env, NEW c, NEW a
  PROVE  F!Override(c, a)' = F!Override(c, a)
BY DEF F!Override

\* Nothing changes for a builder that does not step.
LEMMA OthersOk ==
  ASSUME env' = env, NEW b \in Builders, BuildOk(b),
         buildAt'[b] = buildAt[b], args'[b] = args[b], built'[b] = built[b]
  PROVE  BuildOk(b)'
<1> PICK c : c = built[b]
  OBVIOUS
<1> PICK a : a = args[b]
  OBVIOUS
<1>1. F!Override(Base(a), a)' = F!Override(Base(a), a)
  BY OverrideKept
<1>2. buildAt[b] = "done" => c = F!Override(Base(a), a)
  BY DEF BuildOk
<1>3. buildAt'[b] = "done" => built'[b] = F!Override(Base(args[b]), args[b])'
  BY <1>1, <1>2
<1> QED
  BY <1>3 DEF BuildOk

LEMMA BeginKeeps ==
  ASSUME CfgInv, NEW b \in Builders, F!Begin(b)
  PROVE  CfgInv'
<1>1. PICK x \in Args :
        /\ args' = [args EXCEPT ![b] = [x EXCEPT !.file = settings]]
        /\ buildAt' = [buildAt EXCEPT ![b] = IF x.config THEN "yaml" ELSE "rest"]
  BY DEF F!Begin
<1>2. PICK a : a = [x EXCEPT !.file = settings]
  OBVIOUS
<1>3. CfgTyped /\ buildAt[b] \in F!Idle /\ built' = [built EXCEPT ![b] = Defaults] /\ env' = env
      /\ UNCHANGED <<settings, order, variants, lookup, walked>>
      /\ overlap' = (overlap \/ \E o \in Builders : buildAt[o] \notin F!Idle /\ args[o].file # settings)
  BY DEF F!Begin, CfgInv
<1>4. IsArgs(a) /\ a.file = settings /\ a.config = x.config /\ a.config \in BOOLEAN
  <2>1. settings \in Files
    BY <1>3 DEF CfgTyped
  <2>2. IsArgs(a) /\ a.file = settings /\ a.config = x.config
    BY <1>2, <2>1, NewArgs
  <2> QED
    BY <2>2, ArgsFacts
<1>5. /\ args' = [c \in Builders |-> args'[c]] /\ args'[b] = a /\ \A c \in Builders : c # b => args'[c] = args[c]
  BY <1>1, <1>2, <1>3, Updated DEF CfgTyped
<1>6. /\ buildAt' = [c \in Builders |-> buildAt'[c]] /\ buildAt'[b] = (IF x.config THEN "yaml" ELSE "rest")
      /\ \A c \in Builders : c # b => buildAt'[c] = buildAt[c]
  BY <1>1, <1>3, Updated DEF CfgTyped
<1>7. /\ built' = [c \in Builders |-> built'[c]] /\ built'[b] = Defaults /\ \A c \in Builders : c # b => built'[c] = built[c]
  BY <1>3, Updated DEF CfgTyped
<1>8. CfgTyped'
  BY <1>3, <1>5, <1>6, <1>7 DEF CfgTyped
<1>9. BuildOk(b)'
  <2>1. CASE x.config
    BY <1>4, <1>5, <1>6, <1>7, <2>1 DEF BuildOk
  <2>2. CASE ~x.config
    <3>1. built'[b] = Lower(args'[b])
      BY <1>4, <1>5, <1>7, <2>2 DEF Lower
    <3>2. built'[b] = Lower(args[b])'
      BY <3>1 DEF Lower
    <3> QED
      BY <1>4, <1>5, <1>6, <2>2, <3>2 DEF BuildOk
  <2> QED
    BY <2>1, <2>2
<1>10. ASSUME NEW c \in Builders PROVE BuildOk(c)'
  BY <1>3, <1>5, <1>6, <1>7, <1>9, OthersOk DEF CfgInv
<1>11. ASSUME ~overlap' PROVE AliasesKept'
  <2>1. AliasesKept /\ \A o \in Builders : buildAt[o] \notin F!Idle => args[o].file = settings
    BY <1>3, <1>11 DEF CfgInv
  <2>2. \A o \in Builders : buildAt'[o] \notin F!Idle => args'[o].file = settings
    BY <1>4, <1>5, <1>6, <2>1
  <2>3. \A o \in Builders : buildAt'[o] \in {"walk", "rebuild"} <=> buildAt[o] \in {"walk", "rebuild"}
    BY <1>3, <1>6 DEF F!Idle
  <2>4. \A o \in Builders : buildAt'[o] \in {"walk", "rebuild"} => o # b /\ args'[o] = args[o] /\ buildAt'[o] = buildAt[o]
    BY <1>5, <1>6
  <2> QED
    BY <1>3, <2>1, <2>2, <2>3, <2>4 DEF AliasesKept, InTable, Same, F!Idle
<1> QED
  BY <1>8, <1>10, <1>11 DEF CfgInv

LEMMA WalkKeeps ==
  ASSUME CfgInv, NEW b \in Builders, F!WalkAliases(b)
  PROVE  CfgInv'
<1>1. /\ CfgTyped /\ buildAt[b] = "walk" /\ env' = env
      /\ walked' = [walked EXCEPT ![b] = [keys |-> order, pairs |-> F!Pairs(order, variants)]]
      /\ buildAt' = [buildAt EXCEPT ![b] = "rebuild"]
      /\ UNCHANGED <<settings, order, variants, lookup, args, built, overlap>>
  BY DEF F!WalkAliases, CfgInv
<1>2. PICK w : w = [keys |-> order, pairs |-> F!Pairs(order, variants)]
  OBVIOUS
<1>3. /\ walked' = [c \in Builders |-> walked'[c]] /\ walked'[b] = w /\ \A c \in Builders : c # b => walked'[c] = walked[c]
  BY <1>1, <1>2, Updated DEF CfgTyped
<1>4. /\ buildAt' = [c \in Builders |-> buildAt'[c]] /\ buildAt'[b] = "rebuild" /\ \A c \in Builders : c # b => buildAt'[c] = buildAt[c]
  BY <1>1, Updated DEF CfgTyped
<1>5. CfgTyped'
  BY <1>1, <1>3, <1>4 DEF CfgTyped
<1>6. BuildOk(b)'
  <2>1. args'[b] = args[b] /\ built'[b] = built[b] /\ IsArgs(args[b]) /\ args[b].config /\ built[b] = Lower(args[b])
    BY <1>1 DEF CfgInv, BuildOk
  <2>2. Lower(args[b])' = Lower(args[b])
    BY <1>1 DEF Lower
  <2> QED
    BY <1>1, <1>4, <2>1, <2>2 DEF BuildOk
<1>7. ASSUME NEW c \in Builders PROVE BuildOk(c)'
  BY <1>1, <1>4, <1>6, OthersOk DEF CfgInv
<1>8. ASSUME ~overlap' PROVE AliasesKept'
  <2>1. AliasesKept
    BY <1>1, <1>8 DEF CfgInv
  <2>2. \A c \in Builders : buildAt'[c] \notin F!Idle <=> buildAt[c] \notin F!Idle
    BY <1>1, <1>4 DEF F!Idle
  <2>3. \A c \in Builders : buildAt'[c] \in {"walk", "rebuild"} <=> buildAt[c] \in {"walk", "rebuild"}
    BY <1>1, <1>4
  <2>4. w.keys = order /\ Same(w.pairs, F!Pairs(order, variants))
    BY <1>2 DEF Same
  <2>5. \A c \in Builders : buildAt'[c] = "rebuild" => walked'[c].keys = order /\ Same(walked'[c].pairs, F!Pairs(order, variants))
    BY <1>3, <1>4, <2>1, <2>4 DEF AliasesKept
  <2>6. \A c, o \in Builders : buildAt'[c] \notin F!Idle /\ buildAt'[o] \notin F!Idle => args'[c].file = args'[o].file
    BY <1>1, <2>1, <2>2 DEF AliasesKept
  <2>7. \A c \in Builders : buildAt'[c] \in {"walk", "rebuild"} => InTable(args[c].file.aliases)'
    <3> SUFFICES ASSUME NEW c \in Builders, buildAt'[c] \in {"walk", "rebuild"} PROVE InTable(args[c].file.aliases)'
      OBVIOUS
    <3>1. InTable(args[c].file.aliases)
      BY <2>1, <2>3 DEF AliasesKept
    <3> QED
      BY <1>1, <3>1 DEF InTable
  <2>8. \A c \in Builders : buildAt'[c] = "rebuild" => walked'[c].keys = order' /\ Same(walked[c].pairs, F!Pairs(order, variants))'
    BY <1>1, <2>5 DEF Same
  <2>9. \E c \in Builders : buildAt'[c] \in {"walk", "rebuild"}
    BY <1>4
  <2> QED
    BY <2>6, <2>7, <2>8, <2>9 DEF AliasesKept
<1> QED
  BY <1>5, <1>7, <1>8 DEF CfgInv

\* Aliases the table has already change no country of a text.
LEMMA AddedAgain ==
  ASSUME NEW keys, NEW v, IsTable(keys, v), NEW a, IsAliases(a), DOMAIN a \subseteq Range(keys),
         \A k \in DOMAIN a : Range(a[k]) \subseteq Range(v[k])
  PROVE  /\ F!WithKeys(keys, a) = keys
         /\ Same(F!Pairs(keys, v), F!Pairs(keys, F!Extended(keys, v, a)))
<1> PICK u : u = F!Extended(keys, v, a)
  OBVIOUS
<1>1. F!WithKeys(keys, a) = keys /\ IsTable(keys, u) /\ \A k \in Range(keys) : u[k] = v[k] \o AliasOf(a, k)
  BY TableExtends
<1>2. \A k \in Range(keys) : Range(AliasOf(a, k)) \subseteq Range(v[k])
  <2>1. Range(<<>>) = {}
    BY DEF Range
  <2> QED
    BY <2>1 DEF AliasOf
<1>3. IsList(F!Pairs(keys, v)) /\ IsList(F!Pairs(keys, u)) /\ Within(F!Pairs(keys, v), F!Pairs(keys, u))
  BY <1>1, <1>2, PairsWithin
<1> QED
  BY <1>1, <1>3, WithinSame

LEMMA SameIsShared ==
  ASSUME NEW p, NEW q, NEW r, Same(p, q), Same(q, r)
  PROVE  Same(p, r)
BY DEF Same

LEMMA ApplyKeeps ==
  ASSUME CfgInv, NEW b \in Builders, F!ApplyConfigYaml(b)
  PROVE  CfgInv'
<1>1. PICK a : a = args[b]
  OBVIOUS
<1>2. PICK al : al = a.file.aliases
  OBVIOUS
<1>3. /\ CfgTyped /\ buildAt[b] = "yaml" /\ env' = env /\ IsArgs(a) /\ a.config /\ built[b] = Defaults
      /\ UNCHANGED <<settings, lookup, args, walked, overlap>>
  BY <1>1 DEF F!ApplyConfigYaml, CfgInv, BuildOk
<1>4. /\ built' = [built EXCEPT ![b] = F!Overlay(built[b], "yaml", a.file.says)]
      /\ buildAt' = [buildAt EXCEPT ![b] = IF DOMAIN al = {} THEN "rest" ELSE "walk"]
      /\ order' = F!WithKeys(order, al) /\ variants' = F!Extended(order, variants, al)
  BY <1>1, <1>2 DEF F!ApplyConfigYaml
<1>5. /\ buildAt' = [c \in Builders |-> buildAt'[c]] /\ buildAt'[b] = (IF DOMAIN al = {} THEN "rest" ELSE "walk")
      /\ \A c \in Builders : c # b => buildAt'[c] = buildAt[c]
  BY <1>3, <1>4, Updated DEF CfgTyped
<1>6. /\ built' = [c \in Builders |-> built'[c]] /\ built'[b] = F!Overlay(built[b], "yaml", a.file.says)
      /\ \A c \in Builders : c # b => built'[c] = built[c]
  BY <1>3, <1>4, Updated DEF CfgTyped
<1>7. IsAliases(al) /\ IsTable(order, variants)
  BY <1>2, <1>3, ArgsFacts DEF CfgTyped
<1>8. /\ IsTable(order', variants') /\ Range(order') = Range(order) \union DOMAIN al
      /\ \A k \in DOMAIN al : Range(al[k]) \subseteq Range(variants'[k])
  BY <1>4, <1>7, TableExtends
<1>9. CfgTyped'
  BY <1>3, <1>5, <1>6, <1>8 DEF CfgTyped
<1>10. BuildOk(b)'
  <2>1. built'[b] = Lower(a)
    BY <1>3, <1>6 DEF Lower
  <2>2. Lower(args[b])' = Lower(a)
    BY <1>1, <1>3 DEF Lower
  <2> QED
    BY <1>1, <1>3, <1>5, <2>1, <2>2 DEF BuildOk
<1>11. ASSUME NEW c \in Builders PROVE BuildOk(c)'
  BY <1>3, <1>5, <1>6, <1>10, OthersOk DEF CfgInv
<1>12. ASSUME ~overlap' PROVE AliasesKept'
  <2>1. AliasesKept
    BY <1>3, <1>12 DEF CfgInv
  <2>2. \A c \in Builders : buildAt'[c] \notin F!Idle <=> buildAt[c] \notin F!Idle
    BY <1>3, <1>5 DEF F!Idle
  <2>3. \A c, o \in Builders : buildAt'[c] \notin F!Idle /\ buildAt'[o] \notin F!Idle => args'[c].file = args'[o].file
    BY <1>3, <2>1, <2>2 DEF AliasesKept
  <2>4. ASSUME NEW c \in Builders, buildAt'[c] \in {"walk", "rebuild"} PROVE InTable(args[c].file.aliases)'
    <3>1. buildAt'[c] \notin F!Idle /\ buildAt'[b] \notin F!Idle
      BY <1>5, <2>4 DEF F!Idle
    <3>2. args'[c].file.aliases = al
      BY <1>1, <1>2, <1>3, <2>3, <3>1
    <3> QED
      BY <1>8, <3>2 DEF InTable
  <2>5. InTable(al) => order' = order /\ Same(F!Pairs(order, variants), F!Pairs(order', variants'))
    BY <1>4, <1>7, AddedAgain DEF InTable
  <2>6. ASSUME NEW c \in Builders, buildAt'[c] = "rebuild"
        PROVE  walked'[c].keys = order' /\ Same(walked'[c].pairs, F!Pairs(order', variants'))
    <3>1. c # b /\ buildAt[c] = "rebuild" /\ buildAt[c] \notin F!Idle /\ buildAt[b] \notin F!Idle
      BY <1>3, <1>5, <2>6 DEF F!Idle
    <3>2. args[c].file.aliases = al
      BY <1>1, <1>2, <2>1, <3>1 DEF AliasesKept
    <3>3. InTable(al) /\ walked[c].keys = order /\ Same(walked[c].pairs, F!Pairs(order, variants))
      BY <2>1, <3>1, <3>2 DEF AliasesKept
    <3> QED
      BY <1>3, <2>5, <3>3, SameIsShared
  <2>7. ASSUME \A c \in Builders : buildAt'[c] \notin {"walk", "rebuild"}
        PROVE  Same(lookup', F!Pairs(order', variants'))
    <3>1. DOMAIN al = {} /\ InTable(al)
      BY <1>5, <2>7 DEF InTable
    <3>2. \A c \in Builders : buildAt[c] \notin {"walk", "rebuild"}
      BY <1>3, <1>5, <2>7
    <3>3. Same(lookup, F!Pairs(order, variants))
      BY <2>1, <3>2 DEF AliasesKept
    <3> QED
      BY <1>3, <2>5, <3>1, <3>3, SameIsShared
  <2>8. \A p, q : Same(p, q)' <=> Same(p, q)
    BY DEF Same
  <2>9. (\A c \in Builders : buildAt'[c] = "rebuild" => walked'[c].keys = order' /\ Same(walked[c].pairs, F!Pairs(order, variants))')
    BY <2>6 DEF Same
  <2>10. (\A c \in Builders : buildAt'[c] \notin {"walk", "rebuild"}) => Same(lookup, F!Pairs(order, variants))'
    BY <2>7 DEF Same
  <2> QED
    BY <2>3, <2>4, <2>9, <2>10 DEF AliasesKept, F!Idle
<1> QED
  BY <1>9, <1>11, <1>12 DEF CfgInv

LEMMA RebuildKeeps ==
  ASSUME CfgInv, NEW b \in Builders, F!RebuildAliasLookup(b)
  PROVE  CfgInv'
<1>1. /\ CfgTyped /\ buildAt[b] = "rebuild" /\ env' = env
      /\ walked' = [walked EXCEPT ![b] = F!NotWalked]
      /\ UNCHANGED <<settings, order, variants, args, built, overlap>>
  BY DEF F!RebuildAliasLookup, CfgInv
<1>2. \/ lookup' = walked[b].pairs /\ buildAt' = [buildAt EXCEPT ![b] = "rest"]
      \/ order # walked[b].keys /\ buildAt' = [buildAt EXCEPT ![b] = "broken"]
  BY DEF F!RebuildAliasLookup
<1>3. PICK x \in {"rest", "broken"} : buildAt' = [buildAt EXCEPT ![b] = x]
  BY <1>2
<1>4. /\ walked' = [c \in Builders |-> walked'[c]] /\ \A c \in Builders : c # b => walked'[c] = walked[c]
  BY <1>1, Updated DEF CfgTyped
<1>5. /\ buildAt' = [c \in Builders |-> buildAt'[c]] /\ buildAt'[b] = x /\ \A c \in Builders : c # b => buildAt'[c] = buildAt[c]
  BY <1>1, <1>3, Updated DEF CfgTyped
<1>6. CfgTyped'
  BY <1>1, <1>4, <1>5 DEF CfgTyped
<1>7. BuildOk(b)'
  <2>1. args'[b] = args[b] /\ built'[b] = built[b] /\ IsArgs(args[b]) /\ built[b] = Lower(args[b])
    BY <1>1 DEF CfgInv, BuildOk
  <2>2. Lower(args[b])' = Lower(args[b])
    BY <1>1 DEF Lower
  <2> QED
    BY <1>1, <1>5, <2>1, <2>2 DEF BuildOk
<1>8. ASSUME NEW c \in Builders PROVE BuildOk(c)'
  BY <1>1, <1>5, <1>7, OthersOk DEF CfgInv
<1>9. ASSUME ~overlap' PROVE AliasesKept'
  <2>1. AliasesKept
    BY <1>1, <1>9 DEF CfgInv
  <2>2. walked[b].keys = order /\ Same(walked[b].pairs, F!Pairs(order, variants))
    BY <1>1, <2>1 DEF AliasesKept
  <2>3. lookup' = walked[b].pairs
    BY <1>2, <2>2
  <2>4. Same(lookup', F!Pairs(order', variants'))
    BY <1>1, <2>2, <2>3
  <2>5. \A c \in Builders : buildAt'[c] \notin F!Idle => buildAt[c] \notin F!Idle
    BY <1>1, <1>5 DEF F!Idle
  <2>6. \A c \in Builders : buildAt'[c] \in {"walk", "rebuild"} => c # b /\ buildAt'[c] = buildAt[c]
    BY <1>5
  <2> QED
    BY <1>1, <1>4, <2>1, <2>4, <2>5, <2>6 DEF AliasesKept, InTable, Same, F!Idle
<1> QED
  BY <1>6, <1>8, <1>9 DEF CfgInv

LEMMA EditKeeps ==
  ASSUME CfgInv, F!Edit
  PROVE  CfgInv'
<1>1. settings' \in Files /\ UNCHANGED <<env, order, variants, lookup, buildAt, args, built, walked, overlap>>
  BY DEF F!Edit
<1>2. CfgTyped'
  BY <1>1 DEF CfgTyped, CfgInv
<1>3. ASSUME NEW c \in Builders PROVE BuildOk(c)'
  BY <1>1, OthersOk DEF CfgInv
<1>4. ASSUME ~overlap' PROVE AliasesKept'
  BY <1>1, <1>4 DEF CfgInv, AliasesKept, InTable, Same, F!Idle
<1> QED
  BY <1>2, <1>3, <1>4 DEF CfgInv

LEMMA CfgStutter ==
  ASSUME CfgInv, UNCHANGED configuration
  PROVE  CfgInv'
<1>1. UNCHANGED <<settings, env, order, variants, lookup, buildAt, args, built, walked, overlap>>
  BY DEF configuration
<1>2. CfgTyped'
  BY <1>1 DEF CfgTyped, CfgInv
<1>3. ASSUME NEW c \in Builders PROVE BuildOk(c)'
  BY <1>1, OthersOk DEF CfgInv
<1>4. ASSUME ~overlap' PROVE AliasesKept'
  BY <1>1, <1>4 DEF CfgInv, AliasesKept, InTable, Same, F!Idle
<1> QED
  BY <1>2, <1>3, <1>4 DEF CfgInv

LEMMA LowerIsWhole ==
  ASSUME NEW a
  PROVE  Lower(a) = [s \in DOMAIN Defaults |-> Lower(a)[s]] /\ DOMAIN Lower(a) = DOMAIN Defaults
<1>1. Defaults = [s \in DOMAIN Defaults |-> Defaults[s]]
  BY ConfigurationAssumption
<1> QED
  BY <1>1 DEF Lower, F!Overlay

LEMMA NothingSaid ==
  ASSUME NEW c, c = [s \in DOMAIN c |-> c[s]]
  PROVE  F!Overlay(c, "profile", <<>>) = c
<1>1. DOMAIN <<>> = {}
  OBVIOUS
<1>2. \A s \in DOMAIN c : ~(s \in F!Understood["profile"] \cap DOMAIN <<>>)
  BY <1>1
<1> QED
  BY <1>2 DEF F!Overlay

LEMMA BuildKeeps ==
  ASSUME CfgInv, NEW b \in Builders, F!BuildConfig(b)
  PROVE  CfgInv'
<1>1. PICK a : a = args[b]
  OBVIOUS
<1>2. PICK c : c = built[b]
  OBVIOUS
<1>3. PICK name : name = F!FieldOf(a).profile
  OBVIOUS
<1>5. PICK x \in {"broken", "refused", "done"} : buildAt' = [buildAt EXCEPT ![b] = x]
  BY DEF F!BuildConfig
<1>6. /\ CfgTyped /\ buildAt[b] = "rest" /\ env' = env /\ IsArgs(a) /\ c = Lower(a)
      /\ UNCHANGED <<settings, order, variants, lookup, args, walked, overlap>>
  BY <1>1, <1>2 DEF F!BuildConfig, CfgInv, BuildOk
<1>7. /\ buildAt' = [o \in Builders |-> buildAt'[o]] /\ buildAt'[b] = x /\ \A o \in Builders : o # b => buildAt'[o] = buildAt[o]
  BY <1>5, <1>6, Updated DEF CfgTyped
<1>8. built' = [built EXCEPT ![b] = IF buildAt'[b] # "done" THEN Absent
                  ELSE F!Override(IF name \in DOMAIN FieldProfiles
                                  THEN F!Overlay(built[b], "profile", FieldProfiles[name].says) ELSE built[b], a)]
  BY <1>1, <1>3 DEF F!BuildConfig
<1>9. PICK y : y = F!Override(IF name \in DOMAIN FieldProfiles
                                  THEN F!Overlay(c, "profile", FieldProfiles[name].says) ELSE c, a)
  OBVIOUS
<1>10. PICK z : z = IF x # "done" THEN Absent ELSE y
  OBVIOUS
<1>11. built' = [built EXCEPT ![b] = z]
  BY <1>2, <1>7, <1>8, <1>9, <1>10
<1>12. /\ built' = [o \in Builders |-> built'[o]] /\ built'[b] = z /\ \A o \in Builders : o # b => built'[o] = built[o]
  BY <1>6, <1>11, Updated DEF CfgTyped
<1>13. CfgTyped'
  BY <1>6, <1>7, <1>12 DEF CfgTyped
<1>14. y = F!Override(Base(a), a)
  <2>1. CASE name \in DOMAIN FieldProfiles
    BY <1>3, <1>6, <1>9, <2>1 DEF Base
  <2>2. CASE name \notin DOMAIN FieldProfiles
    <3>1. F!Overlay(c, "profile", <<>>) = c
      BY <1>6, LowerIsWhole, NothingSaid
    <3>2. Base(a) = c
      BY <1>3, <1>6, <2>2, <3>1 DEF Base
    <3> QED
      BY <1>9, <2>2, <3>2
  <2> QED
    BY <2>1, <2>2
<1>15. BuildOk(b)'
  <2>1. args'[b] = a
    BY <1>1, <1>6
  <2>2. F!Override(Base(a), a)' = F!Override(Base(a), a)
    BY <1>6, OverrideKept
  <2>3. buildAt'[b] = "done" => built'[b] = F!Override(Base(args[b]), args[b])'
    BY <1>7, <1>10, <1>12, <1>14, <2>1, <2>2
  <2> QED
    BY <1>6, <1>7, <2>1, <2>3 DEF BuildOk
<1>16. ASSUME NEW o \in Builders PROVE BuildOk(o)'
  BY <1>6, <1>7, <1>12, <1>15, OthersOk DEF CfgInv
<1>17. ASSUME ~overlap' PROVE AliasesKept'
  <2>1. AliasesKept
    BY <1>6, <1>17 DEF CfgInv
  <2>2. \A o \in Builders : buildAt'[o] \notin F!Idle => buildAt[o] \notin F!Idle
    BY <1>6, <1>7 DEF F!Idle
  <2>3. \A o \in Builders : buildAt'[o] \in {"walk", "rebuild"} <=> buildAt[o] \in {"walk", "rebuild"}
    BY <1>6, <1>7
  <2>4. \A o \in Builders : buildAt'[o] = "rebuild" => buildAt[o] = "rebuild"
    BY <1>6, <1>7
  <2> QED
    BY <1>6, <2>1, <2>2, <2>3, <2>4 DEF AliasesKept, InTable, Same, F!Idle
<1> QED
  BY <1>13, <1>16, <1>17 DEF CfgInv

LEMMA CfgStep ==
  ASSUME CfgInv, F!Next
  PROVE  CfgInv'
BY BeginKeeps, ApplyKeeps, WalkKeeps, RebuildKeeps, BuildKeeps, EditKeeps DEF F!Next

\* The items kept when each is none of those before it.
LEMMA PickedFresh ==
  ASSUME NEW Items, NEW s \in Seq(Items), NEW I,
         \A i \in I \intersect (1 .. Len(s)) : \A j \in 1 .. (i - 1) : s[i] # s[j]
  PROVE  NoRepeats(Picked(s, I))
<1> DEFINE len == Len(s)
           Vals == {s[i] : i \in I \intersect (1 .. len)}
           Upto(n) == {s[i] : i \in 1 .. n}
<1>1. len \in Nat /\ Vals \subseteq Items
  OBVIOUS
<1>2. PICK f \in [0 .. len -> Seq(Vals)] :
          /\ f[0] = <<>>
          /\ \A n \in 1 .. len : f[n] = IF n \in I THEN Append(f[n - 1], s[n]) ELSE f[n - 1]
          /\ Picked(s, I) = f[len]
  BY PickedSteps
<1> DEFINE Ok(n) == f[n] \in Seq(Upto(n)) /\ NoRepeats(f[n])
           T == {n \in Nat : n \in 0 .. len => Ok(n)}
<1>3. 0 \in T
  <2>1. f[0] \in Seq(Upto(0)) /\ Len(f[0]) = 0
    BY <1>2
  <2> QED
    BY <2>1 DEF NoRepeats
<1>4. ASSUME NEW n \in Nat, n \in T PROVE n + 1 \in T
  <2> SUFFICES ASSUME n + 1 \in 0 .. len PROVE Ok(n + 1)
    BY <1>4
  <2>0. (n + 1) - 1 = n /\ n \in 0 .. len /\ n + 1 \in 1 .. len
    BY <1>1, <1>4
  <2>1. f[n] \in Seq(Upto(n)) /\ NoRepeats(f[n])
    BY <1>4, <2>0
  <2>2. Upto(n) \subseteq Upto(n + 1) /\ s[n + 1] \in Upto(n + 1) /\ (n + 1 \in I => s[n + 1] \notin Upto(n))
    <3>1. \A i \in 1 .. n : i \in 1 .. (n + 1)
      BY <1>1
    <3>2. n + 1 \in I => \A j \in 1 .. n : s[n + 1] # s[j]
      BY <2>0
    <3> QED
      BY <2>0, <3>1, <3>2
  <2>3. f[n + 1] = IF n + 1 \in I THEN Append(f[n], s[n + 1]) ELSE f[n]
    BY <1>2, <2>0
  <2> HIDE DEF Upto, T, Vals, len
  <2>4. f[n] \in Seq(Upto(n + 1))
    BY <2>1, <2>2, Wider
  <2>5. n + 1 \in I => \A i \in 1 .. Len(f[n]) : f[n][i] # s[n + 1]
    BY <2>1, <2>2
  <2>6. n + 1 \in I => Append(f[n], s[n + 1]) \in Seq(Upto(n + 1)) /\ NoRepeats(Append(f[n], s[n + 1]))
    <3> SUFFICES ASSUME n + 1 \in I PROVE Append(f[n], s[n + 1]) \in Seq(Upto(n + 1)) /\ NoRepeats(Append(f[n], s[n + 1]))
      OBVIOUS
    <3> DEFINE a == Append(f[n], s[n + 1])
               m == Len(f[n])
    <3>1. a \in Seq(Upto(n + 1)) /\ Len(a) = m + 1 /\ m \in Nat
      BY <2>2, <2>4
    <3>2. a[m + 1] = s[n + 1] /\ \A i \in 1 .. m : a[i] = f[n][i]
      BY <2>2, <2>4
    <3>3. \A i, j \in 1 .. m : f[n][i] = f[n][j] => i = j
      BY <2>1 DEF NoRepeats
    <3> HIDE DEF a, m
    <3>4. \A i \in 1 .. m : f[n][i] # s[n + 1]
      BY <2>5 DEF m
    <3>5. \A i \in 1 .. (m + 1) : i \in 1 .. m \/ i = m + 1
      BY <3>1
    <3>6. NoRepeats(a)
      BY <3>1, <3>2, <3>3, <3>4, <3>5 DEF NoRepeats
    <3> QED
      BY <3>1, <3>6 DEF a
  <2> QED
    BY <2>1, <2>3, <2>4, <2>6
<1> HIDE DEF T
<1>5. len \in T
  BY <1>1, <1>3, <1>4, Induction
<1> QED
  BY <1>1, <1>2, <1>5 DEF T


\* A configuration is a function of its settings.
IsFun(c) == c = [s \in DOMAIN c |-> c[s]]

\* The settings that an option of the command line sets.
CommandLine == {"threshold", "proxy", "countries", "source"}
\* What the command line says, laid over a configuration.
Overlaid(c, a, o) == /\ IsFun(o) /\ DOMAIN o = DOMAIN c
                     /\ \A s \in DOMAIN c : s \notin CommandLine => o[s] = c[s]
                     /\ \A s \in CommandLine \cap DOMAIN c \cap DOMAIN a.says : a.says[s] # Malformed => o[s] = a.says[s]

LEMMA OverFacts ==
  ASSUME NEW c, IsFun(c), NEW a
  PROVE  Overlaid(c, a, F!Overlay(F!Overlay(c, "env", env), "cli", a.says))
<1> PICK e : e = F!Overlay(c, "env", env)
  OBVIOUS
<1> PICK o : o = F!Overlay(e, "cli", a.says)
  OBVIOUS
<1>1. /\ F!Understood["env"] = {"proxy"} /\ F!Understood["cli"] = {"threshold", "proxy", "countries", "source"}
  BY DEF F!Understood
<1>2. IsFun(e) /\ DOMAIN e = DOMAIN c /\ \A s \in DOMAIN c : s # "proxy" => e[s] = c[s]
  BY <1>1 DEF IsFun, F!Overlay
<1>3. IsFun(o) /\ DOMAIN o = DOMAIN e
      /\ \A s \in DOMAIN e : s \notin {"threshold", "proxy", "countries", "source"} => o[s] = e[s]
  BY <1>1 DEF IsFun, F!Overlay
<1>4. ASSUME NEW s \in DOMAIN e, s \in CommandLine \cap DOMAIN a.says, a.says[s] # Malformed
      PROVE  o[s] = a.says[s]
  BY <1>1, <1>4 DEF F!Overlay, F!Usable, CommandLine
<1>5. \A s \in DOMAIN c : s \notin CommandLine => s # "proxy" /\ s \notin {"threshold", "proxy", "countries", "source"}
  BY DEF CommandLine
<1>6. \A s \in DOMAIN c : s \notin CommandLine => o[s] = c[s]
  BY <1>2, <1>3, <1>5
<1> QED
  BY <1>2, <1>3, <1>4, <1>6 DEF Overlaid

\* Only the types are chosen.
Typed(c, r) == /\ IsFun(r) /\ DOMAIN r = DOMAIN c /\ \A s \in DOMAIN c : s # "types" => r[s] = c[s]
               /\ r.types = c.types \/ r.types # <<>>

LEMMA TypesChosen ==
  ASSUME NEW c, IsFun(c), "types" \in DOMAIN c, NEW f, NEW types
  PROVE  Typed(c, F!WantTypes(c, f, types))
<1> PICK kept : kept = F!Among(types, F!OfferedTypes(f))
  OBVIOUS
<1>1. F!WantTypes(c, f, types) = IF kept = <<>> THEN c ELSE [c EXCEPT !.types = kept]
  BY DEF F!WantTypes
<1>2. PICK r : r = F!WantTypes(c, f, types)
  OBVIOUS
<1>3. CASE kept = <<>>
  BY <1>1, <1>3 DEF Typed
<1>4. CASE kept # <<>>
  <2>1. r = [c EXCEPT !.types = kept]
    BY <1>1, <1>2, <1>4
  <2>2. r = [s \in DOMAIN c |-> IF s = "types" THEN kept ELSE c[s]]
    BY <2>1 DEF IsFun
  <2>3. IsFun(r) /\ DOMAIN r = DOMAIN c /\ (\A s \in DOMAIN c : s # "types" => r[s] = c[s]) /\ r.types = kept
    BY <2>2 DEF IsFun
  <2> QED
    BY <1>2, <1>4, <2>3 DEF Typed
<1> QED
  BY <1>3, <1>4

\* The terms of the chosen subfields that the profile has not, each once.
FocusOn(subfields, chosen) == LET picks == Among(chosen, DOMAIN subfields) IN Joined([k \in DOMAIN picks |-> subfields[picks[k]]])
\* The words that are neither in the list nor earlier among themselves.
FreshIn(context, words) == {k \in DOMAIN words : words[k] \notin Range(context) \cup {words[j] : j \in 1 .. (k - 1)}}

\* A focus on subfields adds words to the context and nothing twice.
Focused(c, words, r) == /\ DOMAIN r = DOMAIN c /\ \A s \in DOMAIN c : s \notin {"context", "selected"} => r[s] = c[s]
                        /\ r.context = c.context \o Picked(words, FreshIn(c.context, words))

LEMMA SubfieldsChosen ==
  ASSUME NEW c, IsFun(c), {"context", "selected"} \subseteq DOMAIN c, NEW subfields, NEW chosen
  PROVE  Focused(c, FocusOn(subfields, chosen), F!ApplySubfieldFocus(c, subfields, chosen))
<1> PICK picks : picks = Among(chosen, DOMAIN subfields)
  OBVIOUS
<1> PICK words : words = FocusOn(subfields, chosen)
  OBVIOUS
<1> PICK added : added = c.context \o Picked(words, FreshIn(c.context, words))
  OBVIOUS
<1>1. words = Joined([k \in DOMAIN picks |-> subfields[picks[k]]])
  BY DEF FocusOn
<1> PICK fresh : fresh = FreshIn(c.context, words)
  OBVIOUS
<1>2. F!ApplySubfieldFocus(c, subfields, chosen) = [c EXCEPT !.context = added, !.selected = picks]
  <2>1. F!Among(chosen, DOMAIN subfields) = picks
    BY SettingsLoops
  <2>2. F!Joined([k \in DOMAIN picks |-> subfields[picks[k]]]) = words
    BY <1>1, SettingsLoops
  <2>3. F!Range(c.context) = Range(c.context)
    BY SettingsLoops
  <2>4. {k \in DOMAIN words : words[k] \notin F!Range(c.context) \cup {words[j] : j \in 1 .. (k - 1)}} = fresh
    BY <2>3 DEF FreshIn
  <2>5. F!Picked(words, fresh) = Picked(words, fresh)
    BY SettingsLoops
  <2>6. added = c.context \o F!Picked(words, fresh)
    BY <2>5
  <2> QED
    BY <2>1, <2>2, <2>4, <2>6, Zenon DEF F!ApplySubfieldFocus
<1>3. [c EXCEPT !.context = added, !.selected = picks]
        = [s \in DOMAIN c |-> IF s = "selected" THEN picks ELSE IF s = "context" THEN added ELSE c[s]]
  BY DEF IsFun
<1> PICK r : r = F!ApplySubfieldFocus(c, subfields, chosen)
  OBVIOUS
<1>4. /\ DOMAIN r = DOMAIN c /\ (\A s \in DOMAIN c : s \notin {"context", "selected"} => r[s] = c[s])
      /\ r.context = added
  BY <1>2, <1>3
<1> QED
  BY <1>4 DEF Focused

LEMMA FocusItems ==
  ASSUME NEW subfields, \A s \in DOMAIN subfields : IsList(subfields[s]), NEW chosen, IsList(chosen)
  PROVE  IsList(FocusOn(subfields, chosen))
<1> PICK picks : picks = Among(chosen, DOMAIN subfields)
  OBVIOUS
<1> DEFINE Items == UNION {Range(subfields[s]) : s \in DOMAIN subfields}
           n == Len(picks)
           ss == [k \in 1 .. n |-> subfields[picks[k]]]
<1>1. picks \in Seq(Range(chosen)) /\ Range(picks) \subseteq DOMAIN subfields
  <2>1. chosen \in Seq(Range(chosen))
    BY ListFacts
  <2> QED
    BY <2>1, AmongItems
<1>2. n \in Nat /\ DOMAIN picks = 1 .. n
  BY <1>1
<1>3. \A k \in 1 .. n : picks[k] \in DOMAIN subfields
  BY <1>1, <1>2 DEF Range
<1>4. ss = [k \in 1 .. n |-> ss[k]] /\ \A k \in 1 .. n : IsList(ss[k]) /\ Range(ss[k]) \subseteq Items
  BY <1>3
<1>5. FocusOn(subfields, chosen) = Joined(ss)
  BY <1>2 DEF FocusOn
<1> HIDE DEF ss, n, Items
<1>6. ss \in Seq(Seq(Items))
  BY <1>2, <1>4, ListsOfLists
<1>7. Joined(ss) \in Seq(Items)
  BY <1>6, JoinedItems
<1> QED
  BY <1>5, <1>7, SeqIsList

\* A list with others behind it, each once.
Behind(s, t) == /\ F!IsPrefix(s, t)
                /\ \A k, j \in (Len(s) + 1) .. Len(t) : k # j => t[k] # t[j]

LEMMA JoinedBehind ==
  ASSUME NEW s, NEW u, IsList(s), IsList(u), NoRepeats(u)
  PROVE  Behind(s, s \o u)
<1> DEFINE n == Len(s)
           m == Len(u)
           w == s \o u
           Items == Range(s) \union Range(u)
<1>1. s \in Seq(Items) /\ u \in Seq(Items)
  BY ListsJoin
<1> HIDE DEF Items
<1>2. n \in Nat /\ m \in Nat /\ Len(w) = n + m /\ w \in Seq(Items)
  BY <1>1
<1>3. \A i \in 1 .. n : w[i] = s[i]
  BY <1>1
<1>4. \A i \in 1 .. m : w[n + i] = u[i]
  BY <1>1
<1> HIDE DEF n, m, w
<1>5. \A i, j \in 1 .. m : u[i] = u[j] => i = j
  BY DEF NoRepeats, m
<1>6. ASSUME NEW k \in (n + 1) .. (n + m), NEW j \in (n + 1) .. (n + m), k # j PROVE w[k] # w[j]
  <2>1. k - n \in 1 .. m /\ n + (k - n) = k /\ j - n \in 1 .. m /\ n + (j - n) = j /\ k - n # j - n
    BY <1>2, <1>6
  <2>2. w[k] = u[k - n] /\ w[j] = u[j - n]
    BY <1>4, <2>1
  <2> QED
    BY <1>5, <2>1, <2>2
<1>7. n <= n + m /\ (n - 1) + 1 = n
  BY <1>2
<1>8. SubSeq(s, 1, n) = SubSeq(w, 1, n)
  <2>1. SubSeq(s, 1, n) = [i \in 1 .. n |-> s[i]]
    BY <1>1, <1>2 DEF n
  <2>2. SubSeq(w, 1, n) = [i \in 1 .. n |-> w[i]]
    BY <1>2
  <2> QED
    BY <1>3, <2>1, <2>2
<1>9. Len(s) = n /\ Len(w) = n + m
  BY <1>2 DEF n
<1>10. F!IsPrefix(s, w)
  BY <1>7, <1>8, <1>9 DEF F!IsPrefix
<1> QED
  BY <1>6, <1>9, <1>10 DEF w, Behind

LEMMA NothingBehind ==
  ASSUME NEW s, IsList(s)
  PROVE  Behind(s, s)
<1>1. Len(s) \in Nat
  BY ListFacts
<1>2. Len(s) <= Len(s) /\ \A k : ~(k \in (Len(s) + 1) .. Len(s))
  BY <1>1
<1> QED
  BY <1>2 DEF F!IsPrefix, Behind

\* The subfields a command line may choose from.
SubfieldsOf(a) == IF F!FieldOf(a).profile \in DOMAIN FieldProfiles THEN FieldProfiles[F!FieldOf(a).profile].subfields ELSE Subfields

LEMMA SubfieldsAreLists ==
  ASSUME NEW a
  PROVE  \A s \in DOMAIN SubfieldsOf(a) : IsList(SubfieldsOf(a)[s])
<1>1. SubfieldsOf(a) \in {Subfields} \cup {FieldProfiles[p].subfields : p \in DOMAIN FieldProfiles}
  BY DEF SubfieldsOf
<1> QED
  BY <1>1, ConfigurationAssumption

\* What a choice leaves: the settings of the command line, the anchors, the terms in
\* their place with fresh ones behind them, and a type.
Chosen == {"context", "anchors", "types", "selected"}
\* What the command line leaves of a configuration.
Leaves(c, a, r) == /\ \A s \in CommandLine \cap DOMAIN a.says : r[s] = a.says[s]
                   /\ r.anchors = c.anchors \o a.keywords
                   /\ Behind(c.context, r.context)
                   /\ c.types # <<>> => r.types # <<>>

LEMMA OverrideFacts ==
  ASSUME NEW c, IsFun(c), CommandLine \cup Chosen \subseteq DOMAIN c,
         IsList(c.context), NEW a, IsList(a.subfields), \A s \in DOMAIN a.says : a.says[s] # Malformed
  PROVE  Leaves(c, a, F!Override(c, a))
<1> PICK o : o = F!Overlay(F!Overlay(c, "env", env), "cli", a.says)
  OBVIOUS
<1> PICK anchors : anchors = o.anchors \o a.keywords
  OBVIOUS
<1> PICK h : h = [o EXCEPT !.anchors = anchors]
  OBVIOUS
<1> PICK t : t = F!WantTypes(h, a.file, a.types)
  OBVIOUS
<1> PICK r : r = F!Override(c, a)
  OBVIOUS
<1>1. /\ IsFun(o) /\ DOMAIN o = DOMAIN c /\ (\A s \in DOMAIN c \ CommandLine : o[s] = c[s])
      /\ \A s \in CommandLine \cap DOMAIN a.says : o[s] = a.says[s]
  <2>1. Overlaid(c, a, o)
    BY OverFacts
  <2> QED
    BY <2>1 DEF Overlaid
<1>2. DOMAIN c = DOMAIN o /\ "anchors" \in DOMAIN o /\ "context" \in DOMAIN o /\ "types" \in DOMAIN o /\ "selected" \in DOMAIN o
  BY <1>1 DEF Chosen
<1>3. IsFun(h) /\ DOMAIN h = DOMAIN c /\ (\A s \in DOMAIN c : s # "anchors" => h[s] = o[s]) /\ h.anchors = anchors
  <2>1. h = [s \in DOMAIN c |-> IF s = "anchors" THEN anchors ELSE o[s]]
    BY <1>1 DEF IsFun
  <2>2. DOMAIN h = DOMAIN c /\ \A s \in DOMAIN c : h[s] = IF s = "anchors" THEN anchors ELSE o[s]
    BY <2>1
  <2>3. h = [s \in DOMAIN h |-> h[s]]
    BY <2>1
  <2> QED
    BY <1>2, <2>2, <2>3 DEF IsFun
<1>4. /\ IsFun(t) /\ DOMAIN t = DOMAIN c /\ (\A s \in DOMAIN c : s # "types" => t[s] = h[s])
      /\ t.types = h.types \/ t.types # <<>>
  <2>1. Typed(h, t)
    BY <1>2, <1>3, TypesChosen
  <2> QED
    BY <1>3, <2>1 DEF Typed
<1>5. r = IF a.subfields = <<>> THEN t ELSE F!ApplySubfieldFocus(t, SubfieldsOf(a), a.subfields)
  BY Zenon DEF F!Override, SubfieldsOf
<1>6. /\ t.context = c.context /\ t.anchors = c.anchors \o a.keywords /\ (c.types # <<>> => t.types # <<>>)
      /\ \A s \in CommandLine \cap DOMAIN a.says : t[s] = a.says[s]
  <2>1. o.context = c.context /\ o.anchors = c.anchors /\ o.types = c.types
    BY <1>1, <1>2 DEF CommandLine
  <2>2. h.context = c.context /\ h.types = c.types /\ h.anchors = c.anchors \o a.keywords
    BY <1>2, <1>3, <2>1
  <2>3. t.context = c.context /\ t.anchors = c.anchors \o a.keywords /\ (c.types # <<>> => t.types # <<>>)
    BY <1>2, <1>4, <2>2
  <2>4. \A s \in CommandLine : s \in DOMAIN c /\ s # "anchors" /\ s # "types"
    BY DEF CommandLine
  <2>5. \A s \in CommandLine : t[s] = o[s]
    BY <1>3, <1>4, <2>4
  <2> QED
    BY <1>1, <2>3, <2>5
<1>7. CASE a.subfields = <<>>
  <2>1. r = t
    BY <1>5, <1>7
  <2>2. Behind(c.context, c.context)
    BY NothingBehind
  <2> QED
    BY <1>6, <2>1, <2>2 DEF Leaves
<1>8. CASE a.subfields # <<>>
  <2> PICK subfields : subfields = SubfieldsOf(a)
    OBVIOUS
  <2> PICK words : words = FocusOn(subfields, a.subfields)
    OBVIOUS
  <2> PICK fresh : fresh = FreshIn(c.context, words)
    OBVIOUS
  <2> PICK more : more = Picked(words, fresh)
    OBVIOUS
  <2>1. /\ DOMAIN r = DOMAIN c /\ (\A s \in DOMAIN c : s \notin {"context", "selected"} => r[s] = t[s])
        /\ r.context = c.context \o more
    <3>1. {"context", "selected"} \subseteq DOMAIN t /\ r = F!ApplySubfieldFocus(t, subfields, a.subfields)
      BY <1>2, <1>4, <1>5, <1>8
    <3>2. /\ DOMAIN r = DOMAIN t /\ (\A s \in DOMAIN t : s \notin {"context", "selected"} => r[s] = t[s])
          /\ r.context = t.context \o Picked(words, FreshIn(t.context, words))
      <4>0. IsFun(t) /\ {"context", "selected"} \subseteq DOMAIN t
        BY <1>4, <3>1
      <4>1. Focused(t, FocusOn(subfields, a.subfields), F!ApplySubfieldFocus(t, subfields, a.subfields))
        BY <4>0, SubfieldsChosen
      <4>2. Focused(t, words, r)
        BY <3>1, <4>1
      <4> QED
        BY <4>2 DEF Focused
    <3>3. Picked(words, FreshIn(t.context, words)) = more
      BY <1>6
    <3> QED
      BY <1>4, <1>6, <3>2, <3>3
  <2>2. IsList(words)
    BY SubfieldsAreLists, FocusItems
  <2>3. words \in Seq(Range(words)) /\ DOMAIN words = 1 .. Len(words)
    BY <2>2, ListFacts
  <2>4. \A i \in fresh \intersect (1 .. Len(words)) : \A j \in 1 .. (i - 1) : words[i] # words[j]
    BY DEF FreshIn
  <2>5. NoRepeats(more)
    BY <2>3, <2>4, PickedFresh
  <2>6. IsList(more)
    BY <2>3, PickedItems, SeqIsList
  <2>7. Behind(c.context, c.context \o more)
    BY <2>5, <2>6, JoinedBehind
  <2>8. r.anchors = t.anchors /\ r.types = t.types /\ \A s \in CommandLine : r[s] = t[s]
    BY <1>2, <2>1 DEF CommandLine
  <2>9. \A s \in CommandLine \cap DOMAIN a.says : r[s] = a.says[s]
    BY <1>6, <2>8
  <2>10. r.anchors = c.anchors \o a.keywords /\ (c.types # <<>> => r.types # <<>>)
    BY <1>6, <2>8
  <2>11. Behind(c.context, r.context)
    BY <2>1, <2>7
  <2> QED
    BY <2>9, <2>10, <2>11 DEF Leaves
<1> QED
  BY <1>7, <1>8

LEMMA BaseFacts ==
  ASSUME NEW a
  PROVE  IsFun(Base(a)) /\ CommandLine \cup Chosen \subseteq DOMAIN Base(a) /\ IsList(Base(a).context)
<1> PICK l : l = Lower(a)
  OBVIOUS
<1> PICK says : says = IF F!FieldOf(a).profile \in DOMAIN FieldProfiles THEN FieldProfiles[F!FieldOf(a).profile].says ELSE <<>>
  OBVIOUS
<1> PICK c : c = F!Overlay(l, "profile", says)
  OBVIOUS
<1>1. c = Base(a)
  BY DEF Base
<1>2. CommandLine \cup Chosen \subseteq DOMAIN Defaults /\ IsList(Defaults.context)
  BY ConfigurationAssumption DEF CommandLine, Chosen
<1>3. DOMAIN l = DOMAIN Defaults
  BY LowerIsWhole
<1>4. IsFun(c) /\ DOMAIN c = DOMAIN l
  BY DEF F!Overlay, IsFun
<1>5. l.context = Defaults.context
  <2>1. "context" \in DOMAIN Defaults /\ "context" \notin F!Understood["yaml"]
    BY <1>2 DEF Chosen, F!Understood
  <2> QED
    BY <2>1 DEF Lower, F!Overlay
<1>6. IsList(c.context)
  <2>1. "context" \in DOMAIN l
    BY <1>2, <1>3 DEF Chosen
  <2>2. c.context = l.context \/ ("context" \in DOMAIN says /\ F!Usable("profile", "context", says.context) /\ c.context = says.context)
    BY <2>1 DEF F!Overlay
  <2>3. CASE c.context = l.context
    BY <1>2, <1>5, <2>3
  <2>4. CASE "context" \in DOMAIN says /\ F!Usable("profile", "context", says.context) /\ c.context = says.context
    <3>1. says.context # Malformed
      BY <2>4 DEF F!Usable
    <3>2. F!FieldOf(a).profile \in DOMAIN FieldProfiles
      <4>1. DOMAIN <<>> = {}
        OBVIOUS
      <4> QED
        BY <2>4, <4>1
    <3>3. IsList(says.context)
      BY <2>4, <3>1, <3>2, ConfigurationAssumption
    <3> QED
      BY <2>4, <3>3
  <2> QED
    BY <2>2, <2>3, <2>4
<1> QED
  BY <1>1, <1>2, <1>3, <1>4, <1>6

LEMMA RepeatedAliases ==
  ASSUME NEW keys, NEW v, IsTable(keys, v), NEW a, IsAliases(a)
  PROVE  Same(F!Pairs(F!WithKeys(keys, a), F!Extended(keys, v, a)),
              F!Pairs(F!WithKeys(keys, a), F!Extended(keys, F!Extended(keys, v, a), a)))
<1> PICK k : k = F!WithKeys(keys, a)
  OBVIOUS
<1> PICK u : u = F!Extended(keys, v, a)
  OBVIOUS
<1>1. IsTable(k, u) /\ Range(k) = Range(keys) \union DOMAIN a /\ \A c \in DOMAIN a : Range(a[c]) \subseteq Range(u[c])
  BY TableExtends
<1>2. F!Extended(keys, u, a) = F!Extended(k, u, a)
  <2>1. F!Range(k) = Range(k) /\ F!Range(keys) = Range(keys)
    BY SettingsLoops
  <2>2. F!Range(keys) \cup DOMAIN a = F!Range(k) \cup DOMAIN a
    BY <1>1, <2>1
  <2> QED
    BY <2>2 DEF F!Extended
<1>3. Same(F!Pairs(k, u), F!Pairs(k, F!Extended(k, u, a)))
  BY <1>1, AddedAgain
<1> QED
  BY <1>2, <1>3

LEMMA AliasesHold ==
  ASSUME CfgInv
  PROVE  F!AliasesResolve /\ F!RepetitionIsHarmless
<1>1. F!AliasesResolve
  <2> SUFFICES ASSUME F!Quiet, ~overlap PROVE Same(lookup, F!Pairs(order, variants))
    BY DEF F!AliasesResolve, Same
  <2>1. \A b \in Builders : buildAt[b] \notin {"walk", "rebuild"}
    BY DEF F!Quiet, F!Idle
  <2> QED
    BY <2>1 DEF CfgInv, AliasesKept
<1>2. F!RepetitionIsHarmless
  <2> SUFFICES ASSUME NEW b \in Builders, buildAt[b] # "idle"
               PROVE  Same(F!Pairs(F!WithKeys(order, args[b].file.aliases), F!Extended(order, variants, args[b].file.aliases)),
                           F!Pairs(F!WithKeys(order, args[b].file.aliases),
                                   F!Extended(order, F!Extended(order, variants, args[b].file.aliases), args[b].file.aliases)))
    BY DEF F!RepetitionIsHarmless, Same
  <2>1. IsArgs(args[b])
    BY DEF CfgInv, BuildOk
  <2>2. IsAliases(args[b].file.aliases) /\ IsTable(order, variants)
    BY <2>1, ArgsFacts DEF CfgInv, CfgTyped
  <2> QED
    BY <2>2, RepeatedAliases
<1> QED
  BY <1>1, <1>2

LEMMA DoneIsOverridden ==
  ASSUME CfgInv, NEW b \in F!Done
  PROVE  IsArgs(args[b]) /\ Leaves(Base(args[b]), args[b], built[b])
<1>1. b \in Builders /\ buildAt[b] = "done"
  BY DEF F!Done
<1>2. IsArgs(args[b]) /\ built[b] = F!Override(Base(args[b]), args[b])
  BY <1>1 DEF CfgInv, BuildOk
<1>3. IsList(args[b].subfields) /\ \A s \in DOMAIN args[b].says : args[b].says[s] # Malformed
  BY <1>2, ArgsFacts
<1>4. Leaves(Base(args[b]), args[b], F!Override(Base(args[b]), args[b]))
  BY <1>3, BaseFacts, OverrideFacts
<1> QED
  BY <1>2, <1>4

LEMMA ChoicesHold ==
  ASSUME CfgInv
  PROVE  F!ChoicesOnlyFocus /\ F!CommandLineWins
<1>1. F!CommandLineWins
  <2>1. F!Understood["cli"] = CommandLine
    BY DEF F!Understood, CommandLine
  <2> QED
    BY <2>1, DoneIsOverridden DEF F!CommandLineWins, Leaves
<1>2. F!ChoicesOnlyFocus
  <2> SUFFICES ASSUME NEW b \in F!Done, NEW a, a = args[b]
               PROVE  /\ built[b].anchors = F!Override(Base(a), [a EXCEPT !.subfields = <<>>, !.types = <<>>]).anchors
                      /\ F!IsPrefix(Base(a).context, built[b].context)
                      /\ \A k, j \in (Len(Base(a).context) + 1) .. Len(built[b].context) :
                            k # j => built[b].context[k] # built[b].context[j]
                      /\ Base(a).types # <<>> => built[b].types # <<>>
    BY DEF F!ChoicesOnlyFocus, Base, Lower
  <2> PICK without : without = [a EXCEPT !.subfields = <<>>, !.types = <<>>]
    OBVIOUS
  <2>1. IsArgs(a) /\ Leaves(Base(a), a, built[b])
    BY DoneIsOverridden
  <2>2. /\ a = [config |-> a.config, field |-> a.field, says |-> a.says, keywords |-> a.keywords, types |-> a.types,
                subfields |-> a.subfields, file |-> a.file]
        /\ \A s \in DOMAIN a.says : a.says[s] # Malformed
    BY <2>1, ArgsFacts
  <2>3. without.subfields = <<>> /\ without.says = a.says /\ without.keywords = a.keywords
    BY <2>2
  <2>4. IsList(without.subfields)
    BY <2>3 DEF IsList
  <2>5. \A s \in DOMAIN without.says : without.says[s] # Malformed
    BY <2>2, <2>3
  <2>6. Leaves(Base(a), without, F!Override(Base(a), without))
    BY <2>4, <2>5, BaseFacts, OverrideFacts
  <2>7. built[b].anchors = F!Override(Base(a), without).anchors
    BY <2>1, <2>3, <2>6 DEF Leaves
  <2> QED
    BY <2>1, <2>7 DEF Leaves, Behind
<1> QED
  BY <1>1, <1>2

LEMMA CfgSound == ASSUME CfgInv PROVE F!ConfigurationIsSound
BY AliasesHold, ChoicesHold DEF F!ConfigurationIsSound

-----------------------------------------------------------------------------
(* The parts beside each other.                                                *)

\* Each part keeps its invariant while it runs.
SeekingInv == /\ part = "supervisors" => SupInv
              /\ part = "matching" => MatchInv
              /\ part = "settings" => CfgInv
              /\ part = "sources" => SrcInv

LEMMA SeekingBegins == ASSUME SeekingInit PROVE SeekingInv
BY SupInit, MatchInit, CfgInit, SrcInit DEF SeekingInit, SeekingAtStart, SeekingInv

LEMMA SeekingGoesOn ==
  ASSUME SeekingInv, [SeekingNext]_seeking
  PROVE  SeekingInv'
<1>1. CASE part = "supervisors" /\ V!Next /\ UNCHANGED part
  <2>1. SupInv'
    BY <1>1, SupStep DEF SeekingInv
  <2>2. part' = "supervisors"
    BY <1>1
  <2> QED
    BY <2>1, <2>2 DEF SeekingInv
<1>2. CASE part = "matching" /\ X!Next /\ UNCHANGED part
  <2>1. MatchInv'
    BY <1>2, MatchCompute, MatchList DEF SeekingInv, X!Next
  <2>2. part' = "matching"
    BY <1>2
  <2> QED
    BY <2>1, <2>2 DEF SeekingInv
<1>3. CASE part = "settings" /\ F!Next /\ UNCHANGED part
  <2>1. CfgInv'
    BY <1>3, CfgStep DEF SeekingInv
  <2>2. part' = "settings"
    BY <1>3
  <2> QED
    BY <2>1, <2>2 DEF SeekingInv
<1>4. CASE part = "sources" /\ C!Next /\ UNCHANGED part
  <2>1. SrcInv'
    BY <1>4, SrcStep DEF SeekingInv
  <2>2. part' = "sources"
    BY <1>4
  <2> QED
    BY <2>1, <2>2 DEF SeekingInv
<1>5. CASE UNCHANGED seeking
  <2>1. UNCHANGED part /\ UNCHANGED supervisors /\ UNCHANGED matching /\ UNCHANGED configuration /\ UNCHANGED sources
    BY <1>5 DEF seeking
  <2>2. part = "supervisors" => SupInv'
    BY <2>1, SupStutter DEF SeekingInv
  <2>3. part = "matching" => MatchInv'
    BY <2>1, MatchStutter DEF SeekingInv
  <2>4. part = "settings" => CfgInv'
    BY <2>1, CfgStutter DEF SeekingInv
  <2>5. part = "sources" => SrcInv'
    BY <2>1, SrcStutter DEF SeekingInv
  <2>6. part' = part
    BY <2>1
  <2> QED
    BY <2>2, <2>3, <2>4, <2>5, <2>6 DEF SeekingInv
<1> QED
  BY <1>1, <1>2, <1>3, <1>4, <1>5 DEF SeekingNext

\* For any papers, authors, postings and profiles: who is listed has the works he is
\* listed for, a search that ended has saved all it announced, and postings are ranked
\* by their scores, page after page (supervisor/finder.py, matching/scorer.py).
THEOREM SearchesAreSound == SeekingSpec => []SearchIsSound
<1>1. SeekingInit => SeekingInv
  BY SeekingBegins
<1>2. SeekingInv /\ [SeekingNext]_seeking => SeekingInv'
  BY SeekingGoesOn
<1>3. SeekingInv => SearchIsSound
  BY SupSound, MatchFair DEF SeekingInv, SearchIsSound
<1> QED
  BY <1>1, <1>2, <1>3, PTL DEF SeekingSpec

\* For any board, registry and profile, and whichever pages do not answer: no posting of a
\* wanted country is hidden by a scope, none is lost with another query but those that
\* AcademicTransfer's browser had captured, and no sibling is listed twice (sources).
THEOREM SearchesLookAsAsked == SeekingSpec => []AskedIsSearched
<1>1. SeekingInit => SeekingInv
  BY SeekingBegins
<1>2. SeekingInv /\ [SeekingNext]_seeking => SeekingInv'
  BY SeekingGoesOn
<1>3. SeekingInv => AskedIsSearched
  BY SrcSound DEF SeekingInv, AskedIsSearched
<1> QED
  BY <1>1, <1>2, <1>3, PTL DEF SeekingSpec

\* For any files and command lines, and any threads that build at the same time: no alias
\* is lost while config.yaml stays, repeating one changes nothing, and choices only narrow
\* what is asked for, the command line above all (core/config.py).
THEOREM ChoicesAreUsed == SeekingSpec => []ChosenIsUsed
<1>1. SeekingInit => SeekingInv
  BY SeekingBegins
<1>2. SeekingInv /\ [SeekingNext]_seeking => SeekingInv'
  BY SeekingGoesOn
<1>3. SeekingInv => ChosenIsUsed
  BY CfgSound DEF SeekingInv, ChosenIsUsed
<1> QED
  BY <1>1, <1>2, <1>3, PTL DEF SeekingSpec
=============================================================================
