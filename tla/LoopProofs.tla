------------------------------- MODULE LoopProofs -------------------------------
(* What the loops of module Loops compute, for lists of any length, and the   *)
(* induction these proofs and those of other loops rest on.                    *)
EXTENDS Loops, Functions, TLAPS, FiniteSetTheorems, WellFoundedInduction

\* Induction over the naturals, for a set.
LEMMA Induction ==
  ASSUME NEW T, 0 \in T, \A n \in Nat : n \in T => n + 1 \in T
  PROVE  Nat \subseteq T
<1> DEFINE B == Nat \ T
<1> SUFFICES ASSUME B # {} PROVE FALSE
  OBVIOUS
<1>1. PICK n \in B : \A m \in B : ~(<<m, n>> \in OpToRel(<, Nat))
  BY NatLessThanWellFounded, WFMin
<1>2. n \in Nat /\ n # 0 /\ n - 1 \in Nat /\ n - 1 < n
  OBVIOUS
<1>3. ~(n - 1 \in B)
  BY <1>1, <1>2 DEF OpToRel
<1>4. n - 1 \in T
  BY <1>2, <1>3
<1> QED
  BY <1>2, <1>4

\* Sequences of fewer items, of one more, and by their items.
LEMMA Wider ==
  ASSUME NEW X, NEW Y, X \subseteq Y, NEW s \in Seq(X)
  PROVE  s \in Seq(Y)
OBVIOUS

LEMMA Longer ==
  ASSUME NEW X, NEW s \in Seq(X), NEW x \in X
  PROVE  Append(s, x) \in Seq(X) /\ Tail(Append(s, x)) \in Seq(X)
<1> DEFINE t == Append(s, x)
<1>1. t \in Seq(X)
  OBVIOUS
<1>2. Len(t) > 0
  OBVIOUS
<1> HIDE DEF t
<1>3. Tail(t) \in Seq(X)
  BY <1>1, <1>2
<1> QED
  BY <1>1, <1>3 DEF t

LEMMA Itemwise ==
  ASSUME NEW X, NEW n \in Nat, NEW s, s = [i \in 1 .. n |-> s[i]], \A i \in 1 .. n : s[i] \in X
  PROVE  s \in Seq(X) /\ Len(s) = n
OBVIOUS

LEMMA RangeOfAppend ==
  ASSUME NEW X, NEW s \in Seq(X), NEW x \in X
  PROVE  Range(Append(s, x)) = Range(s) \union {x}
<1> DEFINE t == Append(s, x)
           n == Len(s)
<1>1. n \in Nat /\ DOMAIN s = 1 .. n /\ DOMAIN t = 1 .. (n + 1)
  OBVIOUS
<1>2. t[n + 1] = x /\ \A i \in 1 .. n : t[i] = s[i]
  OBVIOUS
<1> HIDE DEF t, n
<1> QED
  BY <1>1, <1>2 DEF Range, t

LEMMA RangeOfJoin ==
  ASSUME NEW X, NEW s \in Seq(X), NEW u \in Seq(X)
  PROVE  Range(s \o u) = Range(s) \union Range(u)
<1> DEFINE t == s \o u
           n == Len(s)
           m == Len(u)
<1>1. n \in Nat /\ m \in Nat /\ DOMAIN s = 1 .. n /\ DOMAIN u = 1 .. m /\ DOMAIN t = 1 .. (n + m)
  OBVIOUS
<1>2. (\A i \in 1 .. n : t[i] = s[i]) /\ \A i \in 1 .. m : t[n + i] = u[i]
  OBVIOUS
<1> HIDE DEF t, n, m
<1>3. ASSUME NEW i \in 1 .. (n + m) PROVE t[i] \in Range(s) \union Range(u)
  <2>1. CASE i \in 1 .. n
    BY <1>1, <1>2, <2>1 DEF Range
  <2>2. CASE i \notin 1 .. n
    <3>1. i - n \in 1 .. m /\ i = n + (i - n)
      BY <1>1, <2>2
    <3> QED
      BY <1>1, <1>2, <3>1 DEF Range
  <2> QED
    BY <2>1, <2>2
<1>4. ASSUME NEW i \in 1 .. n PROVE s[i] \in Range(t)
  <2>1. i \in 1 .. (n + m) /\ t[i] = s[i]
    BY <1>1, <1>2
  <2> QED
    BY <1>1, <2>1 DEF Range
<1>5. ASSUME NEW i \in 1 .. m PROVE u[i] \in Range(t)
  <2>1. n + i \in 1 .. (n + m)
    BY <1>1
  <2> QED
    BY <1>1, <1>2, <2>1 DEF Range
<1> QED
  BY <1>1, <1>3, <1>4, <1>5 DEF Range, t

\* A value can be computed step by step, by a function for each step.
Steps(h, len, V) == \A n \in 1 .. len, v \in V : h[n][v] \in V
Follows(f, b, len, h) == f[0] = b /\ \A n \in 1 .. len : f[n] = h[n][f[n - 1]]

LEMMA Recursion ==
  ASSUME NEW V, NEW b \in V, NEW len \in Nat, NEW h, Steps(h, len, V)
  PROVE  \E f \in [0 .. len -> V] : Follows(f, b, len, h)
<1> USE DEF Steps, Follows
<1> DEFINE Done(f, k) == f[0] = b /\ \A n \in 1 .. k : f[n] = h[n][f[n - 1]]
           Can(k) == \E f \in [0 .. k -> V] : Done(f, k)
           T == {k \in Nat : k <= len => Can(k)}
<1>1. Can(0)
  <2> DEFINE f == [n \in 0 .. 0 |-> b]
  <2>1. f \in [0 .. 0 -> V] /\ Done(f, 0)
    OBVIOUS
  <2> HIDE DEF f, Done
  <2> QED
    BY <2>1
<1>2. ASSUME NEW k \in Nat, k + 1 <= len, Can(k) PROVE Can(k + 1)
  <2>1. PICK f \in [0 .. k -> V] : Done(f, k)
    BY <1>2
  <2> DEFINE g == [n \in 0 .. (k + 1) |-> IF n = k + 1 THEN h[k + 1][f[k]] ELSE f[n]]
  <2>2. h[k + 1][f[k]] \in V
    BY <1>2
  <2>3. g \in [0 .. (k + 1) -> V]
    BY <2>2
  <2>4. Done(g, k + 1)
    <3>1. g[0] = b
      BY <2>1
    <3>2. ASSUME NEW n \in 1 .. (k + 1) PROVE g[n] = h[n][g[n - 1]]
      <4>1. g[n - 1] = f[n - 1]
        OBVIOUS
      <4>2. CASE n = k + 1
        BY <4>1, <4>2
      <4>3. CASE n \in 1 .. k
        BY <4>1, <4>3, <2>1
      <4> QED
        BY <4>2, <4>3
    <3> HIDE DEF g
    <3> QED
      BY <3>1, <3>2
  <2> HIDE DEF g, Done
  <2> QED
    BY <2>3, <2>4
<1>3. Nat \subseteq T
  <2> HIDE DEF Can
  <2>1. 0 \in T /\ \A k \in Nat : k \in T => k + 1 \in T
    BY <1>1, <1>2
  <2> HIDE DEF T
  <2> QED
    BY <2>1, Induction
<1>4. Can(len)
  <2> HIDE DEF Can
  <2> QED
    BY <1>3
<1> QED
  BY <1>4

\* Two computations that take the same steps agree.
Alike(f, g, len) == f[0] = g[0] /\ \A n \in 1 .. len : f[n - 1] = g[n - 1] => f[n] = g[n]

LEMMA Agreement ==
  ASSUME NEW len \in Nat, NEW f, NEW g, Alike(f, g, len)
  PROVE  \A n \in 0 .. len : f[n] = g[n]
<1> DEFINE T == {n \in Nat : n <= len => f[n] = g[n]}
<1>1. 0 \in T
  BY DEF Alike
<1>2. ASSUME NEW n \in Nat, n \in T PROVE n + 1 \in T
  BY <1>2 DEF Alike
<1>3. Nat \subseteq T
  <2> HIDE DEF T
  <2> QED
    BY <1>1, <1>2, Induction
<1> QED
  BY <1>3

LEMMA SumSteps ==
  ASSUME NEW s \in Seq(Int)
  PROVE  \E f \in [0 .. Len(s) -> Int] : f[0] = 0 /\ (\A n \in 1 .. Len(s) : f[n] = f[n - 1] + s[n]) /\ SumOf(s) = f[Len(s)]
<1> DEFINE len == Len(s)
           h == [n \in 1 .. len |-> [v \in Int |-> v + s[n]]]
           F == CHOOSE f : f = [n \in 0 .. len |-> IF n = 0 THEN 0 ELSE f[n - 1] + s[n]]
<1>1. len \in Nat /\ \A n \in 1 .. len : s[n] \in Int
  OBVIOUS
<1>2. \A n \in 1 .. len, v \in Int : h[n][v] = v + s[n] /\ h[n][v] \in Int
  OBVIOUS
<1>3. PICK f \in [0 .. len -> Int] : Follows(f, 0, len, h)
  <2>1. 0 \in Int /\ len \in Nat /\ Steps(h, len, Int)
    BY <1>1, <1>2 DEF Steps
  <2> HIDE DEF h, len, F
  <2> QED
    BY <2>1, Recursion
<1>4. ASSUME NEW n \in 1 .. len PROVE f[n] = f[n - 1] + s[n]
  <2>1. f[n - 1] \in Int
    BY <1>1
  <2> HIDE DEF h, F
  <2> QED
    BY <1>2, <1>3, <2>1 DEF Follows
<1>5. f = [n \in 0 .. len |-> IF n = 0 THEN 0 ELSE f[n - 1] + s[n]]
  BY <1>1, <1>3, <1>4 DEF Follows
<1>6. F = [n \in 0 .. len |-> IF n = 0 THEN 0 ELSE F[n - 1] + s[n]]
  BY <1>5
<1>7. F[len] = f[len]
  <2> HIDE DEF F, h, len
  <2>1. f[0] = F[0]
    BY <1>1, <1>3, <1>6 DEF Follows
  <2>2. ASSUME NEW n \in 1 .. len, f[n - 1] = F[n - 1] PROVE f[n] = F[n]
    <3>1. F[n] = F[n - 1] + s[n]
      BY <1>1, <1>6
    <3> QED
      BY <1>4, <2>2, <3>1
  <2>3. \A n \in 0 .. len : f[n] = F[n]
    <3>1. Alike(f, F, len)
      BY <2>1, <2>2 DEF Alike
    <3> QED
      BY <1>1, <3>1, Agreement
  <2> QED
    BY <1>1, <2>3
<1>8. SumOf(s) = F[len]
  BY DEF SumOf
<1> QED
  BY <1>3, <1>4, <1>7, <1>8 DEF Follows

LEMMA PickedSteps ==
  ASSUME NEW Items, NEW s \in Seq(Items), NEW I
  PROVE  \E f \in [0 .. Len(s) -> Seq({s[i] : i \in I \intersect (1 .. Len(s))})] :
             /\ f[0] = <<>>
             /\ \A n \in 1 .. Len(s) : f[n] = IF n \in I THEN Append(f[n - 1], s[n]) ELSE f[n - 1]
             /\ Picked(s, I) = f[Len(s)]
<1> DEFINE len == Len(s)
           V == {s[i] : i \in I \intersect (1 .. len)}
           h == [n \in 1 .. len |-> [v \in Seq(V) |-> IF n \in I THEN Append(v, s[n]) ELSE v]]
           F == CHOOSE f : f = [n \in 0 .. len |-> IF n = 0 THEN <<>> ELSE IF n \in I THEN Append(f[n - 1], s[n]) ELSE f[n - 1]]
<1>1. len \in Nat /\ \A n \in 1 .. len : n \in I => s[n] \in V
  OBVIOUS
<1>2. ASSUME NEW n \in 1 .. len, NEW v \in Seq(V) PROVE h[n][v] = (IF n \in I THEN Append(v, s[n]) ELSE v) /\ h[n][v] \in Seq(V)
  <2>1. h[n][v] = IF n \in I THEN Append(v, s[n]) ELSE v
    OBVIOUS
  <2> HIDE DEF h, V, len
  <2> QED
    BY <1>1, <2>1
<1>3. PICK f \in [0 .. len -> Seq(V)] : Follows(f, <<>>, len, h)
  <2>1. <<>> \in Seq(V)
    OBVIOUS
  <2>2. Steps(h, len, Seq(V))
    BY <1>2 DEF Steps
  <2> HIDE DEF h, len, F, V
  <2> QED
    BY <1>1, <2>1, <2>2, Recursion
<1>4. ASSUME NEW n \in 1 .. len PROVE f[n] = IF n \in I THEN Append(f[n - 1], s[n]) ELSE f[n - 1]
  <2>1. f[n - 1] \in Seq(V)
    BY <1>1
  <2> HIDE DEF h, F, V, len
  <2> QED
    BY <1>2, <1>3, <2>1 DEF Follows
<1>5. f = [n \in 0 .. len |-> IF n = 0 THEN <<>> ELSE IF n \in I THEN Append(f[n - 1], s[n]) ELSE f[n - 1]]
  <2> HIDE DEF h, F, V, len
  <2>1. ASSUME NEW n \in 0 .. len PROVE f[n] = IF n = 0 THEN <<>> ELSE IF n \in I THEN Append(f[n - 1], s[n]) ELSE f[n - 1]
    <3>1. CASE n = 0
      BY <1>3, <3>1 DEF Follows
    <3>2. CASE n # 0
      <4>1. n \in 1 .. len
        BY <1>1, <3>2
      <4> QED
        BY <1>4, <3>2, <4>1
    <3> QED
      BY <3>1, <3>2
  <2> QED
    BY <2>1
<1>6. F = [n \in 0 .. len |-> IF n = 0 THEN <<>> ELSE IF n \in I THEN Append(F[n - 1], s[n]) ELSE F[n - 1]]
  BY <1>5
<1>7. F[len] = f[len]
  <2> HIDE DEF F, h, len, V
  <2>1. f[0] = F[0]
    BY <1>1, <1>3, <1>6 DEF Follows
  <2>2. ASSUME NEW n \in 1 .. len, f[n - 1] = F[n - 1] PROVE f[n] = F[n]
    <3>1. n \in 0 .. len /\ n # 0
      BY <1>1
    <3>2. F[n] = IF n \in I THEN Append(F[n - 1], s[n]) ELSE F[n - 1]
      BY <1>6, <3>1
    <3> QED
      BY <1>4, <2>2, <3>2
  <2>3. \A n \in 0 .. len : f[n] = F[n]
    <3>1. Alike(f, F, len)
      BY <2>1, <2>2 DEF Alike
    <3> QED
      BY <1>1, <3>1, Agreement
  <2> QED
    BY <1>1, <2>3
<1>8. Picked(s, I) = F[len]
  BY DEF Picked
<1> HIDE DEF F, h
<1> QED
  BY <1>3, <1>4, <1>7, <1>8 DEF Follows

\* What is picked is what is at the places, in a sequence, and all of it; the last item
\* is picked last.
LEMMA PickedItems ==
  ASSUME NEW Items, NEW s \in Seq(Items), NEW I
  PROVE  /\ Picked(s, I) \in Seq({s[i] : i \in I \intersect (1 .. Len(s))})
         /\ \A i \in I \intersect (1 .. Len(s)) : s[i] \in Range(Picked(s, I))
         /\ Len(s) \in I /\ Len(s) > 0 => \E p \in Seq({s[i] : i \in I \intersect (1 .. Len(s))}) : Picked(s, I) = Append(p, s[Len(s)])
<1> DEFINE len == Len(s)
           V == {s[i] : i \in I \intersect (1 .. len)}
<1>1. len \in Nat /\ \A n \in 1 .. len : n \in I => s[n] \in V
  OBVIOUS
<1>2. PICK f \in [0 .. len -> Seq(V)] :
          /\ f[0] = <<>>
          /\ \A n \in 1 .. len : f[n] = IF n \in I THEN Append(f[n - 1], s[n]) ELSE f[n - 1]
          /\ Picked(s, I) = f[len]
  BY PickedSteps
<1> HIDE DEF len, V
<1>3. f[len] \in Seq(V)
  BY <1>1
<1>4. \A i \in I \intersect (1 .. len) : s[i] \in Range(f[len])
  <2> DEFINE Has(n) == \A i \in I \intersect (1 .. n) : s[i] \in Range(f[n])
             T == {n \in Nat : n <= len => Has(n)}
  <2>1. ASSUME NEW n \in Nat, n + 1 <= len, Has(n) PROVE Has(n + 1)
    <3>1. f[n] \in Seq(V) /\ n + 1 \in 1 .. len
      BY <1>1, <2>1
    <3>2. CASE n + 1 \in I
      <4>0. (n + 1) - 1 = n
        OBVIOUS
      <4>1. f[n + 1] = Append(f[n], s[n + 1]) /\ s[n + 1] \in V
        BY <1>1, <1>2, <3>1, <3>2, <4>0
      <4>2. Range(f[n + 1]) = Range(f[n]) \union {s[n + 1]}
        BY <3>1, <4>1, RangeOfAppend
      <4> QED
        BY <2>1, <4>2
    <3>3. CASE n + 1 \notin I
      <4>1. f[n + 1] = f[n]
        <5>1. (n + 1) - 1 = n
          OBVIOUS
        <5> QED
          BY <1>2, <3>1, <3>3, <5>1
      <4> QED
        BY <2>1, <3>3, <4>1
    <3> QED
      BY <3>2, <3>3
  <2>2. Has(0)
    OBVIOUS
  <2> HIDE DEF Has
  <2>3. 0 \in T /\ \A n \in Nat : n \in T => n + 1 \in T
    BY <1>1, <2>1, <2>2
  <2> HIDE DEF T
  <2>4. len \in T
    BY <1>1, <2>3, Induction
  <2> QED
    BY <1>1, <2>4 DEF T, Has
<1>5. ASSUME len \in I, len > 0 PROVE f[len] = Append(f[len - 1], s[len]) /\ f[len - 1] \in Seq(V)
  <2>1. len \in 1 .. len /\ len - 1 \in 0 .. len
    BY <1>1, <1>5
  <2> QED
    BY <1>2, <1>5, <2>1
<1> QED
  BY <1>2, <1>3, <1>4, <1>5 DEF len, V

LEMMA JoinedSteps ==
  ASSUME NEW Items, NEW ss \in Seq(Seq(Items))
  PROVE  \E f \in [0 .. Len(ss) -> Seq(Items)] :
             f[0] = <<>> /\ (\A n \in 1 .. Len(ss) : f[n] = f[n - 1] \o ss[n]) /\ Joined(ss) = f[Len(ss)]
<1> DEFINE len == Len(ss)
           h == [n \in 1 .. len |-> [v \in Seq(Items) |-> v \o ss[n]]]
           F == CHOOSE f : f = [n \in 0 .. len |-> IF n = 0 THEN <<>> ELSE f[n - 1] \o ss[n]]
<1>1. len \in Nat /\ \A n \in 1 .. len : ss[n] \in Seq(Items)
  OBVIOUS
<1>2. ASSUME NEW n \in 1 .. len, NEW v \in Seq(Items) PROVE h[n][v] = v \o ss[n] /\ h[n][v] \in Seq(Items)
  <2>1. h[n][v] = v \o ss[n]
    OBVIOUS
  <2> HIDE DEF h, len
  <2> QED
    BY <1>1, <2>1
<1>3. PICK f \in [0 .. len -> Seq(Items)] : Follows(f, <<>>, len, h)
  <2>1. <<>> \in Seq(Items)
    OBVIOUS
  <2>2. Steps(h, len, Seq(Items))
    BY <1>2 DEF Steps
  <2> HIDE DEF h, len, F
  <2> QED
    BY <1>1, <2>1, <2>2, Recursion
<1>4. ASSUME NEW n \in 1 .. len PROVE f[n] = f[n - 1] \o ss[n]
  <2>1. f[n - 1] \in Seq(Items)
    <3> HIDE DEF h, F, len
    <3> QED
      BY <1>1
  <2> HIDE DEF h, F, len
  <2> QED
    BY <1>2, <1>3, <2>1 DEF Follows
<1>5. f = [n \in 0 .. len |-> IF n = 0 THEN <<>> ELSE f[n - 1] \o ss[n]]
  <2> HIDE DEF h, F, len
  <2>1. ASSUME NEW n \in 0 .. len PROVE f[n] = IF n = 0 THEN <<>> ELSE f[n - 1] \o ss[n]
    <3>1. CASE n = 0
      BY <1>3, <3>1 DEF Follows
    <3>2. CASE n # 0
      <4>1. n \in 1 .. len
        BY <1>1, <3>2
      <4> QED
        BY <1>4, <3>2, <4>1
    <3> QED
      BY <3>1, <3>2
  <2> QED
    BY <2>1
<1>6. F = [n \in 0 .. len |-> IF n = 0 THEN <<>> ELSE F[n - 1] \o ss[n]]
  BY <1>5
<1>7. F[len] = f[len]
  <2> HIDE DEF F, h, len
  <2>1. f[0] = F[0]
    BY <1>1, <1>3, <1>6 DEF Follows
  <2>2. ASSUME NEW n \in 1 .. len, f[n - 1] = F[n - 1] PROVE f[n] = F[n]
    <3>1. n \in 0 .. len /\ n # 0
      BY <1>1
    <3>2. F[n] = F[n - 1] \o ss[n]
      BY <1>6, <3>1
    <3> QED
      BY <1>4, <2>2, <3>2
  <2>3. \A n \in 0 .. len : f[n] = F[n]
    <3>1. Alike(f, F, len)
      BY <2>1, <2>2 DEF Alike
    <3> QED
      BY <1>1, <3>1, Agreement
  <2> QED
    BY <1>1, <2>3
<1>8. Joined(ss) = F[len]
  BY DEF Joined
<1> HIDE DEF F, h
<1> QED
  BY <1>3, <1>4, <1>7, <1>8 DEF Follows

\* Lists of items join to a list of items, all of them.
LEMMA JoinedItems ==
  ASSUME NEW Items, NEW ss \in Seq(Seq(Items))
  PROVE  /\ Joined(ss) \in Seq(Items)
         /\ \A m \in 1 .. Len(ss) : Range(ss[m]) \subseteq Range(Joined(ss))
<1> DEFINE len == Len(ss)
<1>1. len \in Nat /\ \A n \in 1 .. len : ss[n] \in Seq(Items)
  OBVIOUS
<1>2. PICK f \in [0 .. len -> Seq(Items)] :
          f[0] = <<>> /\ (\A n \in 1 .. len : f[n] = f[n - 1] \o ss[n]) /\ Joined(ss) = f[len]
  BY JoinedSteps
<1> HIDE DEF len
<1>3. f[len] \in Seq(Items)
  BY <1>1
<1>4. \A m \in 1 .. len : Range(ss[m]) \subseteq Range(f[len])
  <2> DEFINE Has(n) == \A m \in 1 .. n : Range(ss[m]) \subseteq Range(f[n])
             T == {n \in Nat : n <= len => Has(n)}
  <2>1. ASSUME NEW n \in Nat, n + 1 <= len, Has(n) PROVE Has(n + 1)
    <3>1. f[n] \in Seq(Items) /\ n + 1 \in 1 .. len /\ ss[n + 1] \in Seq(Items)
      BY <1>1, <2>1
    <3>2. f[n + 1] = f[n] \o ss[n + 1]
      <4>1. (n + 1) - 1 = n
        OBVIOUS
      <4> QED
        BY <1>2, <3>1, <4>1
    <3>3. Range(f[n + 1]) = Range(f[n]) \union Range(ss[n + 1])
      BY <3>1, <3>2, RangeOfJoin
    <3>4. ASSUME NEW m \in 1 .. (n + 1) PROVE Range(ss[m]) \subseteq Range(f[n + 1])
      <4>1. m \in 1 .. n \/ m = n + 1
        BY <2>1
      <4>2. m \in 1 .. n => Range(ss[m]) \subseteq Range(f[n])
        BY <2>1
      <4> QED
        BY <3>3, <4>1, <4>2
    <3> QED
      BY <3>4
  <2>2. Has(0)
    OBVIOUS
  <2> HIDE DEF Has
  <2>3. 0 \in T /\ \A n \in Nat : n \in T => n + 1 \in T
    BY <1>1, <2>1, <2>2
  <2> HIDE DEF T
  <2>4. len \in T
    BY <1>1, <2>3, Induction
  <2> QED
    BY <1>1, <2>4 DEF T, Has
<1> QED
  BY <1>2, <1>3, <1>4 DEF len

LEMMA Fewer ==
  ASSUME NEW S, NEW B, IsFiniteSet(B), S \subseteq B
  PROVE  IsFiniteSet(S) /\ Cardinality(S) \in Nat /\ Cardinality(B) \in Nat /\ Cardinality(S) <= Cardinality(B)
BY FS_Subset, FS_CardinalityType

\* What is picked from a list: its first item when that is picked, nothing when nothing is.
LEMMA PickedFirst ==
  ASSUME NEW Items, NEW s \in Seq(Items), NEW I
  PROVE  /\ 1 \in I /\ s # <<>> => Len(Picked(s, I)) > 0 /\ Picked(s, I)[1] = s[1]
         /\ I \intersect (1 .. Len(s)) = {} => Picked(s, I) = <<>>
<1> DEFINE len == Len(s)
           Vals == {s[i] : i \in I \intersect (1 .. len)}
<1>1. len \in Nat /\ (s # <<>> => len > 0)
  OBVIOUS
<1>2. PICK f \in [0 .. len -> Seq(Vals)] :
          /\ f[0] = <<>>
          /\ \A n \in 1 .. len : f[n] = IF n \in I THEN Append(f[n - 1], s[n]) ELSE f[n - 1]
          /\ Picked(s, I) = f[len]
  BY PickedSteps
<1> HIDE DEF len, Vals
<1>3. ASSUME 1 \in I, s # <<>> PROVE Len(Picked(s, I)) > 0 /\ Picked(s, I)[1] = s[1]
  <2> DEFINE T == {n \in Nat : n \in 1 .. len => Len(f[n]) > 0 /\ f[n][1] = s[1]}
  <2>1. 0 \in T
    OBVIOUS
  <2>2. ASSUME NEW n \in Nat, n \in T PROVE n + 1 \in T
    <3> SUFFICES ASSUME n + 1 \in 1 .. len PROVE Len(f[n + 1]) > 0 /\ f[n + 1][1] = s[1]
      BY <2>2
    <3>0. (n + 1) - 1 = n
      BY <2>2
    <3>1. f[n + 1] = IF n + 1 \in I THEN Append(f[n], s[n + 1]) ELSE f[n]
      BY <1>2, <3>0
    <3>2. f[n] \in Seq(Vals) /\ (n + 1 \in I => s[n + 1] \in Vals)
      <4>1. n \in 0 .. len
        BY <1>1
      <4> QED
        BY <1>2, <4>1 DEF Vals, len
    <3>3. CASE n = 0
      BY <1>2, <1>3, <3>1, <3>3
    <3>4. CASE n # 0
      <4>1. Len(f[n]) > 0 /\ f[n][1] = s[1]
        BY <1>1, <2>2, <3>4
      <4> QED
        BY <3>1, <3>2, <4>1
    <3> QED
      BY <3>3, <3>4
  <2> HIDE DEF T
  <2>3. len \in T
    BY <1>1, <2>1, <2>2, Induction
  <2> QED
    BY <1>1, <1>2, <1>3, <2>3 DEF T
<1>4. ASSUME I \intersect (1 .. len) = {} PROVE Picked(s, I) = <<>>
  <2> DEFINE T == {n \in Nat : n \in 0 .. len => f[n] = <<>>}
  <2>1. 0 \in T
    BY <1>2
  <2>2. ASSUME NEW n \in Nat, n \in T PROVE n + 1 \in T
    <3> SUFFICES ASSUME n + 1 \in 0 .. len PROVE f[n + 1] = <<>>
      BY <2>2
    <3>0. (n + 1) - 1 = n /\ n \in 0 .. len /\ n + 1 \in 1 .. len
      BY <1>1, <2>2
    <3>1. n + 1 \notin I
      BY <1>4, <3>0
    <3>2. f[n + 1] = f[n]
      BY <1>2, <3>0, <3>1
    <3> QED
      BY <2>2, <3>0, <3>2
  <2> HIDE DEF T
  <2>3. len \in T
    BY <1>1, <2>1, <2>2, Induction
  <2> QED
    BY <1>1, <1>2, <2>3 DEF T
<1> QED
  BY <1>3, <1>4 DEF len

\* Those of the items that are in a set.
LEMMA AmongItems ==
  ASSUME NEW Items, NEW s \in Seq(Items), NEW S
  PROVE  /\ Among(s, S) \in Seq(Items)
         /\ Range(Among(s, S)) = Range(s) \intersect S
         /\ s # <<>> /\ s[1] \in S => Len(Among(s, S)) > 0 /\ Among(s, S)[1] = s[1]
         /\ Range(s) \intersect S = {} => Among(s, S) = <<>>
<1> DEFINE I == {i \in DOMAIN s : s[i] \in S}
           Vals == {s[i] : i \in I \intersect (1 .. Len(s))}
<1>1. Among(s, S) = Picked(s, I)
  BY DEF Among
<1>2. DOMAIN s = 1 .. Len(s) /\ Vals \subseteq Items /\ Vals = Range(s) \intersect S
  BY DEF Range
<1>3. Picked(s, I) \in Seq(Vals) /\ \A i \in I \intersect (1 .. Len(s)) : s[i] \in Range(Picked(s, I))
  BY PickedItems
<1>4. Range(Picked(s, I)) \subseteq Vals
  <2> HIDE DEF Vals, I
  <2> QED
    BY <1>3 DEF Range
<1>5. Vals \subseteq Range(Picked(s, I))
  BY <1>2, <1>3
<1>6. Picked(s, I) \in Seq(Items)
  <2> HIDE DEF Vals, I
  <2> QED
    BY <1>2, <1>3, Wider
<1>7. s # <<>> /\ s[1] \in S => 1 \in I
  BY <1>2
<1>8. Range(s) \intersect S = {} => I \intersect (1 .. Len(s)) = {}
  BY <1>2 DEF Range
<1> HIDE DEF I, Vals
<1> QED
  BY <1>1, <1>2, <1>3, <1>4, <1>5, <1>6, <1>7, <1>8, PickedFirst

\* No item of a list is another one of it.
NoRepeats(s) == \A i, j \in 1 .. Len(s) : s[i] = s[j] => i = j

LEMMA PickedDistinct ==
  ASSUME NEW Items, NEW s \in Seq(Items), NEW I, NoRepeats(s)
  PROVE  NoRepeats(Picked(s, I))
<1> DEFINE len == Len(s)
           Vals == {s[i] : i \in I \intersect (1 .. len)}
           Upto(n) == {s[i] : i \in 1 .. n}
<1>1. len \in Nat /\ Vals \subseteq Items
  OBVIOUS
<1>2. PICK f \in [0 .. len -> Seq(Vals)] :
          /\ f[0] = <<>>
          /\ \A n \in 1 .. len : f[n] = IF n \in I THEN Append(f[n - 1], s[n]) ELSE f[n - 1]
          /\ Picked(s, I) = f[len]
  BY PickedSteps
<1> DEFINE Ok(n) == f[n] \in Seq(Upto(n)) /\ NoRepeats(f[n])
           T == {n \in Nat : n \in 0 .. len => Ok(n)}
<1>3. 0 \in T
  <2>1. f[0] \in Seq(Upto(0)) /\ Len(f[0]) = 0
    BY <1>2
  <2> QED
    BY <2>1 DEF NoRepeats
<1>4. ASSUME NEW n \in Nat, n \in T PROVE n + 1 \in T
  <2> SUFFICES ASSUME n + 1 \in 0 .. len PROVE Ok(n + 1)
    BY <1>4
  <2>0. (n + 1) - 1 = n /\ n \in 0 .. len /\ n + 1 \in 1 .. len
    BY <1>1, <1>4
  <2>1. f[n] \in Seq(Upto(n)) /\ NoRepeats(f[n])
    BY <1>4, <2>0
  <2>2. Upto(n) \subseteq Upto(n + 1) /\ s[n + 1] \in Upto(n + 1) /\ s[n + 1] \notin Upto(n)
    BY <1>4, <2>0 DEF NoRepeats
  <2>3. f[n + 1] = IF n + 1 \in I THEN Append(f[n], s[n + 1]) ELSE f[n]
    BY <1>2, <2>0
  <2> HIDE DEF Upto, T, Vals, len
  <2>4. f[n] \in Seq(Upto(n + 1))
    BY <2>1, <2>2, Wider
  <2>5. \A i \in 1 .. Len(f[n]) : f[n][i] # s[n + 1]
    BY <2>1, <2>2
  <2>6. Append(f[n], s[n + 1]) \in Seq(Upto(n + 1)) /\ NoRepeats(Append(f[n], s[n + 1]))
    <3> DEFINE a == Append(f[n], s[n + 1])
               m == Len(f[n])
    <3>1. a \in Seq(Upto(n + 1)) /\ Len(a) = m + 1 /\ m \in Nat
      BY <2>2, <2>4
    <3>2. a[m + 1] = s[n + 1] /\ \A i \in 1 .. m : a[i] = f[n][i]
      BY <2>2, <2>4
    <3>3. \A i, j \in 1 .. m : f[n][i] = f[n][j] => i = j
      BY <2>1 DEF NoRepeats
    <3> HIDE DEF a, m
    <3>4. \A i \in 1 .. m : f[n][i] # s[n + 1]
      BY <2>5 DEF m
    <3>5. \A i \in 1 .. (m + 1) : i \in 1 .. m \/ i = m + 1
      BY <3>1
    <3>6. NoRepeats(a)
      BY <3>1, <3>2, <3>3, <3>4, <3>5 DEF NoRepeats
    <3> QED
      BY <3>1, <3>6 DEF a
  <2> QED
    BY <2>1, <2>3, <2>4, <2>6
<1> HIDE DEF T
<1>5. len \in T
  BY <1>1, <1>3, <1>4, Induction
<1> QED
  BY <1>1, <1>2, <1>5 DEF T

LEMMA AmongDistinct ==
  ASSUME NEW Items, NEW s \in Seq(Items), NEW S, NoRepeats(s)
  PROVE  NoRepeats(Among(s, S))
BY PickedDistinct DEF Among

\* Lists without common items, one behind the other, and the beginning of a list.
LEMMA JoinDistinct ==
  ASSUME NEW Items, NEW s \in Seq(Items), NEW u \in Seq(Items), NoRepeats(s), NoRepeats(u), Range(s) \intersect Range(u) = {}
  PROVE  s \o u \in Seq(Items) /\ NoRepeats(s \o u)
<1> DEFINE n == Len(s)
           m == Len(u)
           w == s \o u
<1>1. n \in Nat /\ m \in Nat /\ w \in Seq(Items) /\ Len(w) = n + m
  OBVIOUS
<1>2. \A i \in 1 .. n : w[i] = s[i] /\ s[i] \in Range(s)
  BY DEF Range
<1>3. ASSUME NEW i \in 1 .. (n + m), ~(i <= n) PROVE i - n \in 1 .. m /\ w[i] = u[i - n] /\ u[i - n] \in Range(u)
  <2>1. i - n \in 1 .. m
    BY <1>1, <1>3
  <2>2. w[i] = u[i - n]
    BY <1>1, <1>3
  <2> QED
    BY <2>1, <2>2 DEF Range
<1>4. ASSUME NEW i \in 1 .. (n + m), NEW j \in 1 .. (n + m), w[i] = w[j] PROVE i = j
  <2> HIDE DEF n, m, w
  <2>1. CASE i <= n /\ j <= n
    <3>1. i \in 1 .. n /\ j \in 1 .. n
      BY <1>1, <2>1
    <3> QED
      BY <1>2, <1>4, <3>1 DEF NoRepeats, n
  <2>2. CASE ~(i <= n) /\ ~(j <= n)
    <3>1. i - n = j - n
      BY <1>3, <1>4, <2>2 DEF NoRepeats, m
    <3> QED
      BY <1>1, <3>1
  <2>3. CASE i <= n /\ ~(j <= n)
    <3>1. i \in 1 .. n
      BY <1>1, <2>3
    <3> QED
      BY <1>2, <1>3, <1>4, <2>3, <3>1
  <2>4. CASE ~(i <= n) /\ j <= n
    <3>1. j \in 1 .. n
      BY <1>1, <2>4
    <3> QED
      BY <1>2, <1>3, <1>4, <2>4, <3>1
  <2> QED
    BY <2>1, <2>2, <2>3, <2>4
<1> HIDE DEF n, m, w
<1>5. NoRepeats(w)
  BY <1>1, <1>4 DEF NoRepeats
<1> QED
  BY <1>1, <1>5 DEF w

LEMMA BeginDistinct ==
  ASSUME NEW Items, NEW s \in Seq(Items), NEW n \in Nat, n <= Len(s)
  PROVE  /\ SubSeq(s, 1, n) \in Seq(Items) /\ Range(SubSeq(s, 1, n)) \subseteq Range(s)
         /\ NoRepeats(s) => NoRepeats(SubSeq(s, 1, n))
<1> DEFINE b == SubSeq(s, 1, n)
<1>1. b \in Seq(Items) /\ Len(b) = n /\ \A i \in 1 .. n : b[i] = s[i]
  OBVIOUS
<1>2. Len(s) \in Nat /\ \A i \in 1 .. n : i \in 1 .. Len(s)
  OBVIOUS
<1>3. DOMAIN s = 1 .. Len(s) /\ DOMAIN b = 1 .. n
  BY <1>1
<1> HIDE DEF b
<1>4. Range(b) \subseteq Range(s)
  BY <1>1, <1>2, <1>3 DEF Range
<1>5. NoRepeats(s) => NoRepeats(b)
  BY <1>1, <1>2 DEF NoRepeats
<1> QED
  BY <1>1, <1>4, <1>5 DEF b

-----------------------------------------------------------------------------
=============================================================================
