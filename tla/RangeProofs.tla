----------------------------- MODULE RangeProofs -----------------------------
(* That every range of every structure of Ranges answers as the plain array  *)
(* does: for any number of cells, any values and any sequence of calls. The  *)
(* recursive functions of the model are CHOOSEs: each is first shown to be   *)
(* its own recursion (the lemmas named ...Unfolds, by Recursion), and then   *)
(* what it gives is shown by induction on a measure, an index or a node.     *)
EXTENDS Ranges, FiniteSetTheorems, WellFoundedInduction, NaturalsInduction, TLAPS

(* Induction on a measure, for a set of things.                              *)
LEMMA ByMeasure ==
    ASSUME NEW D, NEW mu \in [D -> Nat], NEW T,
           \A d \in D : (\A e \in D : mu[e] < mu[d] => e \in T) => d \in T
    PROVE  \A d \in D : d \in T
<1> DEFINE Bad == {d \in D : d \notin T}
           Marks == {mu[d] : d \in Bad}
           R == OpToRel(<, Nat)
<1> SUFFICES ASSUME Bad # {} PROVE FALSE
  OBVIOUS
<1>1. IsWellFoundedOn(R, Nat)
  BY NatLessThanWellFounded
<1>2. \A k, m \in Nat : k < m => <<k, m>> \in R
  BY DEF OpToRel
<1>3. Marks \subseteq Nat /\ Marks # {}
  OBVIOUS
<1> HIDE DEF R, Marks
<1>4. PICK m \in Marks : \A k \in Marks : <<k, m>> \notin R
  BY <1>1, <1>3, WFMin
<1>5. PICK d \in Bad : mu[d] = m
  BY <1>4 DEF Marks
<1>6. \A e \in D : mu[e] < mu[d] => e \in T
  <2> SUFFICES ASSUME NEW e \in D, mu[e] < mu[d], e \notin T PROVE FALSE
    OBVIOUS
  <2>1. e \in Bad
    OBVIOUS
  <2>2. mu[e] \in Marks
    BY <2>1 DEF Marks
  <2> QED
    BY <1>2, <1>3, <1>4, <1>5, <2>2
<1> QED
  BY <1>5, <1>6

(* A recursive function exists when what it is at an argument depends only   *)
(* on what it is at arguments of a smaller measure: h makes, of a function,  *)
(* what the right-hand side of the definition says with it.                  *)
Recursive(D, X, mu, h) ==
    /\ X # {} /\ mu \in [D -> Nat] /\ h \in [[D -> X] -> [D -> X]]
    /\ \A f, g \in [D -> X], d \in D : (\A e \in D : mu[e] < mu[d] => f[e] = g[e]) => h[f][d] = h[g][d]

(* A function that asks itself only about what measures less.                *)
LEMMA Recursion ==
    ASSUME NEW D, NEW X, NEW mu, NEW h, Recursive(D, X, mu, h)
    PROVE  \E g \in [D -> X] : g = h[g]
<1> USE DEF Recursive
<1> DEFINE Fits(f, K) == \A d \in D : mu[d] < K => f[d] = h[f][d]
           T == {K \in Nat : \E f \in [D -> X] : Fits(f, K)}
           F(d) == CHOOSE f \in [D -> X] : Fits(f, mu[d] + 1)
           G == [d \in D |-> F(d)[d]]
<1>1. 0 \in T
  <2>1. PICK x \in X : TRUE
    OBVIOUS
  <2>2. [d \in D |-> x] \in [D -> X] /\ Fits([d \in D |-> x], 0)
    OBVIOUS
  <2> QED
    BY <2>2
<1>2. ASSUME NEW K \in Nat, K \in T PROVE K + 1 \in T
  <2>1. PICK f \in [D -> X] : Fits(f, K)
    BY <1>2
  <2>2. h[f] \in [D -> X]
    OBVIOUS
  <2>3. ASSUME NEW d \in D, mu[d] < K + 1 PROVE h[f][d] = h[h[f]][d]
    <3>1. \A e \in D : mu[e] < mu[d] => f[e] = h[f][e]
      BY <2>1, <2>3
    <3> QED
      BY <2>2, <3>1
  <2>4. Fits(h[f], K + 1)
    BY <2>3
  <2> QED
    BY <2>2, <2>4
<1>3. \A K \in Nat : K \in T
  <2> DEFINE same == [K \in Nat |-> K]
  <2>1. same \in [Nat -> Nat]
    OBVIOUS
  <2>2. ASSUME NEW K \in Nat, \A k \in Nat : same[k] < same[K] => k \in T PROVE K \in T
    <3>1. CASE K = 0
      BY <1>1, <3>1
    <3>2. CASE K # 0
      <4>1. K - 1 \in Nat /\ same[K - 1] < same[K] /\ (K - 1) + 1 = K
        BY <3>2
      <4> HIDE DEF T, same
      <4>2. K - 1 \in T
        BY <2>2, <4>1
      <4> QED
        BY <1>2, <4>1, <4>2
    <3> QED
      BY <3>1, <3>2
  <2> HIDE DEF T, same
  <2> QED
    BY <2>1, <2>2, ByMeasure
<1>4. \A d \in D : mu[d] + 1 \in Nat /\ mu[d] < mu[d] + 1
  OBVIOUS
<1>5. \A d \in D : F(d) \in [D -> X] /\ Fits(F(d), mu[d] + 1)
  BY <1>3, <1>4
<1>6. ASSUME NEW K \in Nat, NEW f \in [D -> X], NEW g \in [D -> X], Fits(f, K), Fits(g, K)
      PROVE  \A d \in D : mu[d] < K => f[d] = g[d]
  <2> DEFINE Same == {d \in D : mu[d] < K => f[d] = g[d]}
  <2>1. ASSUME NEW d \in D, \A e \in D : mu[e] < mu[d] => e \in Same PROVE d \in Same
    <3> SUFFICES ASSUME mu[d] < K PROVE f[d] = g[d]
      OBVIOUS
    <3>1. \A e \in D : mu[e] < mu[d] => f[e] = g[e]
      <4> SUFFICES ASSUME NEW e \in D, mu[e] < mu[d] PROVE f[e] = g[e]
        OBVIOUS
      <4>1. mu[e] < K
        <5>1. mu[e] \in Nat /\ mu[d] \in Nat
          OBVIOUS
        <5> QED
          BY <5>1
      <4> QED
        BY <2>1, <4>1
    <3> QED
      BY <1>6, <3>1
  <2> HIDE DEF Same
  <2>2. \A d \in D : d \in Same
    BY <2>1, ByMeasure
  <2> QED
    BY <2>2 DEF Same
<1> HIDE DEF F
<1>7. G \in [D -> X]
  BY <1>5
<1>8. ASSUME NEW d \in D PROVE G[d] = h[G][d]
  <2>1. \A e \in D : mu[e] < mu[d] => G[e] = F(d)[e]
    <3> SUFFICES ASSUME NEW e \in D, mu[e] < mu[d] PROVE F(e)[e] = F(d)[e]
      OBVIOUS
    <3>1. Fits(F(d), mu[e] + 1)
      <4> SUFFICES ASSUME NEW c \in D, mu[c] < mu[e] + 1 PROVE F(d)[c] = h[F(d)][c]
        OBVIOUS
      <4>1. mu[c] < mu[d] + 1
        <5>1. mu[e] \in Nat /\ mu[d] \in Nat /\ mu[c] \in Nat
          OBVIOUS
        <5> QED
          BY <5>1
      <4> QED
        BY <1>5, <4>1
    <3> QED
      BY <1>4, <1>5, <1>6, <3>1
  <2>2. h[G][d] = h[F(d)][d]
    BY <1>5, <1>7, <2>1
  <2>3. F(d)[d] = h[F(d)][d]
    BY <1>4, <1>5
  <2> QED
    BY <2>2, <2>3
<1>9. h[G] \in [D -> X]
  BY <1>7
<1>10. G = h[G]
  BY <1>7, <1>8, <1>9
<1> QED
  BY <1>7, <1>10

(* Induction over a range of integers, from below.                           *)
LEMMA Upward ==
    ASSUME NEW a \in Int, NEW b \in Int, NEW T, a \in T, \A i \in a..(b - 1) : i \in T => i + 1 \in T
    PROVE  \A i \in a..b : i \in T
<1> DEFINE mu == [i \in a..b |-> i - a]
<1>1. mu \in [a..b -> Nat]
  OBVIOUS
<1>2. ASSUME NEW i \in a..b, \A j \in a..b : mu[j] < mu[i] => j \in T PROVE i \in T
  <2>1. CASE i = a
    BY <2>1
  <2>2. CASE i # a
    <3>1. i - 1 \in a..(b - 1) /\ i - 1 \in a..b /\ mu[i - 1] < mu[i] /\ (i - 1) + 1 = i
      BY <2>2
    <3> QED
      BY <1>2, <3>1
  <2> QED
    BY <2>1, <2>2
<1> DEFINE D == a..b
<1>3. mu \in [D -> Nat] /\ \A i \in D : (\A j \in D : mu[j] < mu[i] => j \in T) => i \in T
  BY <1>1, <1>2
<1> HIDE DEF mu, D
<1>4. \A i \in D : i \in T
  BY <1>3, ByMeasure
<1> QED
  BY <1>4 DEF D

(* And from above.                                                           *)
LEMMA Downward ==
    ASSUME NEW a \in Int, NEW b \in Int, NEW T, b \in T, \A i \in a..(b - 1) : i + 1 \in T => i \in T
    PROVE  \A i \in a..b : i \in T
<1> DEFINE mu == [i \in a..b |-> b - i]
<1>1. mu \in [a..b -> Nat]
  OBVIOUS
<1>2. ASSUME NEW i \in a..b, \A j \in a..b : mu[j] < mu[i] => j \in T PROVE i \in T
  <2>1. CASE i = b
    BY <2>1
  <2>2. CASE i # b
    <3>1. i \in a..(b - 1) /\ i + 1 \in a..b /\ mu[i + 1] < mu[i]
      BY <2>2
    <3> QED
      BY <1>2, <3>1
  <2> QED
    BY <2>1, <2>2
<1> DEFINE D == a..b
<1>3. mu \in [D -> Nat] /\ \A i \in D : (\A j \in D : mu[j] < mu[i] => j \in T) => i \in T
  BY <1>1, <1>2
<1> HIDE DEF mu, D
<1>4. \A i \in D : i \in T
  BY <1>3, ByMeasure
<1> QED
  BY <1>4 DEF D

-----------------------------------------------------------------------------
(* What SumOf computes: cell after cell.                                     *)
SumFrom(c, hi, s, i) == IF i > hi THEN 0 ELSE c[i] + s[i + 1]

IntsOn(c, lo, hi) == lo <= hi + 1 /\ \A i \in lo..hi : c[i] \in Int

(* SumOf is its own recursion: what its CHOOSE stands for exists.            *)
LEMMA SumUnfolds ==
    ASSUME NEW lo \in Int, NEW hi \in Int, NEW c, IntsOn(c, lo, hi)
    PROVE  \E s : SumOf(c, lo, hi) = s[lo] /\ \A i \in lo..(hi + 1) : s[i] = SumFrom(c, hi, s, i)
<1> DEFINE D == lo..(hi + 1)
           mu == [i \in D |-> hi + 1 - i]
           h == [s \in [D -> Int] |-> [i \in D |-> SumFrom(c, hi, s, i)]]
           F(s) == [i \in D |-> IF i > hi THEN 0 ELSE c[i] + s[i + 1]]
           G == CHOOSE s : s = F(s)
<1> USE DEF IntsOn
<1>1. mu \in [D -> Nat]
  OBVIOUS
<1>2. h \in [[D -> Int] -> [D -> Int]]
  BY DEF SumFrom
<1>3. ASSUME NEW f \in [D -> Int], NEW g \in [D -> Int], NEW d \in D,
             \A e \in D : mu[e] < mu[d] => f[e] = g[e]
      PROVE  h[f][d] = h[g][d]
  <2>1. CASE d > hi
    BY <2>1 DEF SumFrom
  <2>2. CASE ~(d > hi)
    <3>1. d + 1 \in D /\ mu[d + 1] < mu[d]
      BY <2>2
    <3>2. f[d + 1] = g[d + 1]
      BY <1>3, <3>1
    <3> QED
      BY <2>2, <3>2 DEF SumFrom
  <2> QED
    BY <2>1, <2>2
<1>4. Recursive(D, Int, mu, h)
  <2> HIDE DEF mu, h, D
  <2>1. Int # {}
    BY 0 \in Int
  <2> QED
    BY <1>1, <1>2, <1>3, <2>1 DEF Recursive
<1> HIDE DEF mu, h, D
<1>5. PICK s \in [D -> Int] : s = h[s]
  BY <1>4, Recursion
<1> USE DEF h, D
<1>6. s = F(s)
  BY <1>5 DEF SumFrom
<1>7. SumOf(c, lo, hi) = G[lo]
  BY DEF SumOf
<1> HIDE DEF F
<1>8. G = F(G)
  BY <1>6
<1> HIDE DEF G
<1>9. \A i \in D : G[i] = SumFrom(c, hi, G, i)
  BY <1>8 DEF F, SumFrom
<1> QED
  BY <1>7, <1>9

(* No cells sum to zero.                                                     *)
LEMMA SumEmpty ==
    ASSUME NEW lo \in Int, NEW hi \in Int, hi = lo - 1, NEW c
    PROVE  SumOf(c, lo, hi) = 0
<1>1. IntsOn(c, lo, hi)
  BY DEF IntsOn
<1>2. PICK s : SumOf(c, lo, hi) = s[lo] /\ \A i \in lo..(hi + 1) : s[i] = SumFrom(c, hi, s, i)
  BY <1>1, SumUnfolds
<1>3. lo \in lo..(hi + 1) /\ lo > hi
  OBVIOUS
<1> QED
  BY <1>2, <1>3 DEF SumFrom

(* A sum takes its first cell off.                                           *)
LEMMA SumStep ==
    ASSUME NEW lo \in Int, NEW hi \in Int, lo <= hi, NEW c, \A i \in lo..hi : c[i] \in Int
    PROVE  /\ SumOf(c, lo, hi) \in Int /\ SumOf(c, lo + 1, hi) \in Int
           /\ SumOf(c, lo, hi) = c[lo] + SumOf(c, lo + 1, hi)
<1>0. IntsOn(c, lo, hi)
  BY DEF IntsOn
<1>1. PICK s : SumOf(c, lo, hi) = s[lo] /\ \A i \in lo..(hi + 1) : s[i] = SumFrom(c, hi, s, i)
  BY <1>0, SumUnfolds
<1>2. PICK m \in Int : m = lo + 1
  BY lo + 1 \in Int
<1>3. PICK r : SumOf(c, m, hi) = r[m] /\ \A i \in m..(hi + 1) : r[i] = SumFrom(c, hi, r, i)
  <2>1. IntsOn(c, m, hi)
    BY <1>2 DEF IntsOn
  <2> QED
    BY <2>1, SumUnfolds
<1> DEFINE T == {i \in m..(hi + 1) : s[i] = r[i] /\ s[i] \in Int}
<1>4. hi + 1 \in T
  BY <1>1, <1>2, <1>3 DEF SumFrom
<1>5. ASSUME NEW i \in m..((hi + 1) - 1), i + 1 \in T PROVE i \in T
  <2>1. i \in m..(hi + 1) /\ i \in lo..(hi + 1) /\ ~(i > hi) /\ i \in lo..hi
    BY <1>2
  <2>2. s[i] = c[i] + s[i + 1] /\ r[i] = c[i] + r[i + 1]
    BY <1>1, <1>3, <2>1 DEF SumFrom
  <2> QED
    BY <1>5, <2>1, <2>2
<1>6. \A i \in m..(hi + 1) : i \in T
  <2> HIDE DEF T
  <2>1. m \in Int /\ hi + 1 \in Int
    OBVIOUS
  <2> QED
    BY <1>4, <1>5, <2>1, Downward
<1>7. s[m] = r[m] /\ s[m] \in Int
  BY <1>2, <1>6, m \in m..(hi + 1)
<1>8. s[lo] = c[lo] + s[m] /\ c[lo] \in Int
  BY <1>1, <1>2, lo \in lo..(hi + 1), lo \in lo..hi, ~(lo > hi) DEF SumFrom
<1> QED
  BY <1>1, <1>2, <1>3, <1>7, <1>8

(* A sum of integers is one.                                                 *)
LEMMA SumInt ==
    ASSUME NEW lo \in Int, NEW hi \in Int, lo <= hi + 1, NEW c, \A i \in lo..hi : c[i] \in Int
    PROVE  SumOf(c, lo, hi) \in Int
<1>1. CASE lo <= hi
  BY <1>1, SumStep
<1>2. CASE lo = hi + 1
  <2>1. hi = lo - 1
    BY <1>2
  <2> QED
    BY <2>1, SumEmpty, 0 \in Int
<1> QED
  BY <1>1, <1>2

(* One cell sums to itself. *)
LEMMA SumOne ==
    ASSUME NEW i \in Int, NEW c, c[i] \in Int
    PROVE  SumOf(c, i, i) = c[i]
<1>1. \A j \in i..i : c[j] \in Int
  BY \A j \in i..i : j = i
<1>2. SumOf(c, i, i) = c[i] + SumOf(c, i + 1, i)
  BY <1>1, i <= i, SumStep
<1>3. SumOf(c, i + 1, i) = 0
  BY i + 1 \in Int, i = (i + 1) - 1, SumEmpty
<1> QED
  BY <1>2, <1>3

(* A range sums to what its two parts sum to. *)
LEMMA SumSplits ==
    ASSUME NEW lo \in Int, NEW hi \in Int, NEW m \in Int, lo <= m + 1, m <= hi,
           NEW c, \A i \in lo..hi : c[i] \in Int
    PROVE  SumOf(c, lo, hi) = SumOf(c, lo, m) + SumOf(c, m + 1, hi)
<1> DEFINE T == {i \in lo..(m + 1) : SumOf(c, i, hi) = SumOf(c, i, m) + SumOf(c, m + 1, hi)}
<1>0. SumOf(c, m + 1, hi) \in Int
  BY m + 1 \in Int, m + 1 <= hi + 1, \A i \in (m + 1)..hi : c[i] \in Int, SumInt
<1>1. m + 1 \in T
  <2>1. SumOf(c, m + 1, m) = 0
    BY m + 1 \in Int, m = (m + 1) - 1, SumEmpty
  <2> QED
    BY <1>0, <2>1
<1>2. ASSUME NEW i \in lo..((m + 1) - 1), i + 1 \in T PROVE i \in T
  <2>1. i \in Int /\ i <= m /\ i <= hi /\ i \in lo..(m + 1)
        /\ (\A j \in i..hi : c[j] \in Int) /\ (\A j \in i..m : c[j] \in Int)
    OBVIOUS
  <2>2. SumOf(c, i, hi) = c[i] + SumOf(c, i + 1, hi) /\ SumOf(c, i + 1, hi) \in Int
    BY <2>1, SumStep
  <2>3. SumOf(c, i, m) = c[i] + SumOf(c, i + 1, m) /\ SumOf(c, i + 1, m) \in Int
    BY <2>1, SumStep
  <2>4. c[i] \in Int
    BY <2>1
  <2> QED
    BY <1>0, <1>2, <2>1, <2>2, <2>3, <2>4
<1>3. \A i \in lo..(m + 1) : i \in T
  <2> HIDE DEF T
  <2> QED
    BY <1>1, <1>2, m + 1 \in Int, Downward
<1> QED
  BY <1>3, lo \in lo..(m + 1)

(* Ranges of cells that are as far apart everywhere sum that far apart.      *)
LEMMA SumShifts ==
    ASSUME NEW lo \in Int, NEW hi \in Int, lo <= hi + 1, NEW b, NEW c, NEW d \in Int,
           \A i \in lo..hi : c[i] \in Int, \A i \in lo..hi : b[i] = c[i] + d
    PROVE  SumOf(b, lo, hi) = SumOf(c, lo, hi) + d * (hi + 1 - lo)
<1> DEFINE T == {i \in lo..(hi + 1) : SumOf(b, i, hi) = SumOf(c, i, hi) + d * (hi + 1 - i)}
<1>1. hi + 1 \in T
  <2>1. SumOf(b, hi + 1, hi) = 0 /\ SumOf(c, hi + 1, hi) = 0
    BY hi + 1 \in Int, hi = (hi + 1) - 1, SumEmpty
  <2> QED
    BY <2>1
<1>2. ASSUME NEW i \in lo..((hi + 1) - 1), i + 1 \in T PROVE i \in T
  <2>1. i \in Int /\ i <= hi /\ i \in lo..(hi + 1)
        /\ (\A j \in i..hi : c[j] \in Int) /\ (\A j \in i..hi : b[j] \in Int)
    OBVIOUS
  <2>2. SumOf(b, i, hi) = b[i] + SumOf(b, i + 1, hi)
    BY <2>1, SumStep
  <2>3. SumOf(c, i, hi) = c[i] + SumOf(c, i + 1, hi) /\ SumOf(c, i + 1, hi) \in Int
    BY <2>1, SumStep
  <2>4. c[i] \in Int /\ b[i] = c[i] + d
    BY <2>1
  <2>5. d * (hi + 1 - i) = d + d * (hi + 1 - (i + 1))
    BY <2>1
  <2>6. d * (hi + 1 - (i + 1)) \in Int
    BY <2>1
  <2>7. SumOf(b, i + 1, hi) = SumOf(c, i + 1, hi) + d * (hi + 1 - (i + 1))
    BY <1>2
  <2> HIDE DEF T
  <2>8. SumOf(b, i, hi) = SumOf(c, i, hi) + d * (hi + 1 - i)
    BY <2>2, <2>3, <2>4, <2>5, <2>6, <2>7
  <2> QED
    BY <2>1, <2>8 DEF T
<1>3. \A i \in lo..(hi + 1) : i \in T
  <2> HIDE DEF T
  <2> QED
    BY <1>1, <1>2, hi + 1 \in Int, Downward
<1> QED
  BY <1>3, lo \in lo..(hi + 1)

(* Arrays that agree on a range have one sum there.                          *)
LEMMA SumSame ==
    ASSUME NEW lo \in Int, NEW hi \in Int, lo <= hi + 1, NEW b, NEW c,
           \A i \in lo..hi : c[i] \in Int, \A i \in lo..hi : b[i] = c[i]
    PROVE  SumOf(b, lo, hi) = SumOf(c, lo, hi)
<1>1. \A i \in lo..hi : b[i] = c[i] + 0
  OBVIOUS
<1>2. SumOf(b, lo, hi) = SumOf(c, lo, hi) + 0 * (hi + 1 - lo)
  BY <1>1, SumShifts
<1>3. SumOf(c, lo, hi) \in Int
  BY SumInt
<1> QED
  BY <1>2, <1>3

(* As many times the value as there are cells.                               *)
LEMMA SumConstant ==
    ASSUME NEW lo \in Int, NEW hi \in Int, lo <= hi + 1, NEW c, NEW v \in Int, \A i \in lo..hi : c[i] = v
    PROVE  SumOf(c, lo, hi) = v * (hi + 1 - lo)
<1> DEFINE zero == [i \in lo..hi |-> 0]
           T == {i \in lo..(hi + 1) : SumOf(zero, i, hi) = 0}
<1>1. hi + 1 \in T
  <2>1. SumOf(zero, hi + 1, hi) = 0
    BY hi + 1 \in Int, hi = (hi + 1) - 1, SumEmpty
  <2> QED
    BY <2>1
<1>2. ASSUME NEW i \in lo..((hi + 1) - 1), i + 1 \in T PROVE i \in T
  <2>1. i \in Int /\ i <= hi /\ i \in lo..(hi + 1) /\ (\A j \in i..hi : zero[j] \in Int) /\ zero[i] = 0
    OBVIOUS
  <2> HIDE DEF zero
  <2>2. SumOf(zero, i, hi) = zero[i] + SumOf(zero, i + 1, hi)
    BY <2>1, SumStep
  <2> QED
    BY <1>2, <2>1, <2>2
<1>3. \A i \in lo..(hi + 1) : i \in T
  <2> HIDE DEF T
  <2> QED
    BY <1>1, <1>2, hi + 1 \in Int, Downward
<1>4. SumOf(zero, lo, hi) = 0
  BY <1>3, lo \in lo..(hi + 1)
<1>5. (\A i \in lo..hi : zero[i] \in Int) /\ \A i \in lo..hi : c[i] = zero[i] + v
  OBVIOUS
<1> HIDE DEF zero
<1>6. SumOf(c, lo, hi) = SumOf(zero, lo, hi) + v * (hi + 1 - lo)
  BY <1>5, SumShifts
<1> QED
  BY <1>4, <1>6

(* The size of a function over a range.                                      *)
LEMMA SizeOfRange ==
    ASSUME NEW a \in Int, NEW b \in Int, a <= b + 1, NEW f, DOMAIN f = a..b
    PROVE  Size(f) = b - a + 1
<1>1. IsFiniteSet(a..b) /\ Cardinality(a..b) = IF a > b THEN 0 ELSE b - a + 1
  BY FS_Interval
<1> QED
  BY <1>1 DEF Size

-----------------------------------------------------------------------------
(* Fenwick tree: a slot holds the sum of the cells it covers.                *)

(* One cell more or less by d makes the ranges that hold it so.              *)
DiffersAt(b, c, lo, hi, k, d) ==
    /\ lo <= hi + 1 /\ \A i \in lo..hi : c[i] \in Int
    /\ \A i \in lo..hi : b[i] = IF i = k THEN c[i] + d ELSE c[i]

(* One cell changed, the sum changes with it if it is in range.              *)
LEMMA SumPoint ==
    ASSUME NEW lo \in Int, NEW hi \in Int, NEW b, NEW c, NEW d \in Int, NEW k \in Int,
           DiffersAt(b, c, lo, hi, k, d)
    PROVE  SumOf(b, lo, hi) = SumOf(c, lo, hi) + IF lo <= k /\ k <= hi THEN d ELSE 0
<1> USE DEF DiffersAt
<1>1. CASE ~(lo <= k /\ k <= hi)
  <2>1. \A i \in lo..hi : b[i] = c[i]
    BY <1>1
  <2> QED
    BY <1>1, <2>1, SumSame, SumInt
<1>2. CASE lo <= k /\ k <= hi
  <2>1. (\A i \in lo..hi : b[i] \in Int) /\ k - 1 \in Int /\ lo <= (k - 1) + 1 /\ k - 1 <= hi /\ k <= k + 1
    BY <1>2
  <2>2. SumOf(c, lo, hi) = SumOf(c, lo, k - 1) + SumOf(c, (k - 1) + 1, hi)
    BY <2>1, SumSplits
  <2>3. SumOf(b, lo, hi) = SumOf(b, lo, k - 1) + SumOf(b, (k - 1) + 1, hi)
    BY <2>1, SumSplits
  <2>4. (k - 1) + 1 = k /\ (\A i \in lo..(k - 1) : b[i] = c[i] /\ c[i] \in Int) /\ lo <= (k - 1) + 1
    BY <1>2
  <2>5. SumOf(b, lo, k - 1) = SumOf(c, lo, k - 1) /\ SumOf(c, lo, k - 1) \in Int
    BY <2>1, <2>4, SumSame, SumInt
  <2>6. SumOf(c, k, hi) = c[k] + SumOf(c, k + 1, hi) /\ SumOf(c, k + 1, hi) \in Int
    BY <1>2, SumStep, \A i \in k..hi : c[i] \in Int
  <2>7. SumOf(b, k, hi) = b[k] + SumOf(b, k + 1, hi)
    BY <1>2, <2>1, SumStep, \A i \in k..hi : b[i] \in Int
  <2>8. SumOf(b, k + 1, hi) = SumOf(c, k + 1, hi)
    <3>1. k + 1 \in Int /\ k + 1 <= hi + 1 /\ \A i \in (k + 1)..hi : b[i] = c[i] /\ c[i] \in Int
      BY <1>2
    <3> QED
      BY <3>1, SumSame
  <2>9. b[k] = c[k] + d /\ c[k] \in Int
    BY <1>2
  <2> QED
    BY <1>2, <2>2, <2>3, <2>4, <2>5, <2>6, <2>7, <2>8, <2>9
<1> QED
  BY <1>1, <1>2

-----------------------------------------------------------------------------
LowBitFrom(g, i) == IF i % 2 = 1 THEN 1 ELSE 2 * g[i \div 2]

(* Halving an index.                                                         *)
LEMMA Halves ==
    ASSUME NEW i \in Nat \ {0}
    PROVE  /\ i % 2 \in {0, 1}
           /\ i % 2 = 0 => i \div 2 \in Nat \ {0} /\ i \div 2 < i /\ i = 2 * (i \div 2)
           /\ i % 2 = 1 => i \div 2 \in Nat /\ i = 2 * (i \div 2) + 1
OBVIOUS

(* LowBit is its own recursion.                                              *)
LEMMA LowBitUnfolds == \A i \in Nat \ {0} : LowBit[i] = LowBitFrom(LowBit, i)
<1> DEFINE D == Nat \ {0}
           mu == [i \in D |-> i]
           h == [s \in [D -> Int] |-> [i \in D |-> LowBitFrom(s, i)]]
           F(s) == [i \in D |-> IF i % 2 = 1 THEN 1 ELSE 2 * s[i \div 2]]
           G == CHOOSE s : s = F(s)
<1>1. mu \in [D -> Nat]
  OBVIOUS
<1>2. h \in [[D -> Int] -> [D -> Int]]
  BY Halves DEF LowBitFrom
<1>3. ASSUME NEW f \in [D -> Int], NEW g \in [D -> Int], NEW d \in D,
             \A e \in D : mu[e] < mu[d] => f[e] = g[e]
      PROVE  h[f][d] = h[g][d]
  <2>1. CASE d % 2 = 1
    BY <2>1 DEF LowBitFrom
  <2>2. CASE d % 2 # 1
    <3>1. d \div 2 \in D /\ mu[d \div 2] < mu[d]
      BY <2>2, Halves
    <3>2. f[d \div 2] = g[d \div 2]
      BY <1>3, <3>1
    <3> QED
      BY <2>2, <3>2 DEF LowBitFrom
  <2> QED
    BY <2>1, <2>2
<1>4. Recursive(D, Int, mu, h)
  <2> HIDE DEF mu, h, D
  <2>1. Int # {}
    BY 0 \in Int
  <2> QED
    BY <1>1, <1>2, <1>3, <2>1 DEF Recursive
<1> HIDE DEF mu, h, D
<1>5. PICK s \in [D -> Int] : s = h[s]
  BY <1>4, Recursion
<1> USE DEF h, D
<1>6. s = F(s)
  BY <1>5 DEF LowBitFrom
<1>7. LowBit = G
  BY DEF LowBit
<1> HIDE DEF F
<1>8. G = F(G)
  BY <1>6
<1> HIDE DEF G
<1>9. \A i \in D : G[i] = LowBitFrom(G, i)
  BY <1>8 DEF F, LowBitFrom
<1> QED
  BY <1>7, <1>9

(* The lowest bit of an odd index is 1, of an even one twice that of its half. *)
LEMMA LowBitRule ==
    ASSUME NEW i \in Nat \ {0}
    PROVE  /\ LowBit[i] \in 1..i
           /\ i % 2 = 1 => LowBit[i] = 1
           /\ i % 2 = 0 => LowBit[i] = 2 * LowBit[i \div 2]
<1> DEFINE D == Nat \ {0}
           mu == [j \in D |-> j]
           T == {j \in D : LowBit[j] \in 1..j}
<1>1. ASSUME NEW j \in D, \A k \in D : mu[k] < mu[j] => k \in T PROVE j \in T
  <2>1. CASE j % 2 = 1
    BY <2>1, LowBitUnfolds DEF LowBitFrom
  <2>2. CASE j % 2 = 0
    <3>1. j \div 2 \in D /\ mu[j \div 2] < mu[j] /\ j = 2 * (j \div 2)
      BY <2>2, Halves
    <3>2. LowBit[j \div 2] \in 1..(j \div 2)
      BY <1>1, <3>1
    <3>3. LowBit[j] = 2 * LowBit[j \div 2]
      BY <2>2, LowBitUnfolds DEF LowBitFrom
    <3> QED
      BY <3>1, <3>2, <3>3
  <2> QED
    BY <2>1, <2>2, Halves
<1>2. mu \in [D -> Nat]
  OBVIOUS
<1>3. \A j \in D : j \in T
  <2> HIDE DEF mu, D, T
  <2> QED
    BY <1>1, <1>2, ByMeasure
<1> QED
  BY <1>3, LowBitUnfolds DEF LowBitFrom

(* An even index as the double of a smaller one.                             *)
LEMMA EvenBit ==
    ASSUME NEW i \in Nat \ {0}, i % 2 = 0
    PROVE  \E q \in Nat \ {0} : q < i /\ i = 2 * q /\ LowBit[i] = 2 * LowBit[q] /\ LowBit[q] \in 1..q
<1>1. i \div 2 \in Nat \ {0} /\ i \div 2 < i /\ i = 2 * (i \div 2)
  BY Halves
<1>2. LowBit[i] = 2 * LowBit[i \div 2]
  BY LowBitRule
<1>3. PICK q \in Nat \ {0} : q = i \div 2
  BY <1>1
<1>4. LowBit[q] \in 1..q
  BY LowBitRule
<1> QED
  BY <1>1, <1>2, <1>3, <1>4

(* Slot j answers for the cells from j - LowBit[j] on: the next slot up from *)
(* i that answers for cell i is the one the lowest bit of i away.            *)
Covers(i, j) == j - LowBit[j] < i /\ i <= j

(* The step of AddAt: i and i + LowBit[i] are covered by the same later slots. *)
LEMMA NextSlot ==
    ASSUME NEW i \in Nat \ {0}, NEW j \in Nat \ {0}, i # j
    PROVE  Covers(i, j) <=> Covers(i + LowBit[i], j)
<1> DEFINE D == Nat \ {0}
           mu == [k \in D |-> k]
           T == {k \in D : \A l \in D : k # l => (Covers(k, l) <=> Covers(k + LowBit[k], l))}
<1>1. ASSUME NEW k \in D, \A m \in D : mu[m] < mu[k] => m \in T PROVE k \in T
  <2> SUFFICES ASSUME NEW l \in D, k # l PROVE Covers(k, l) <=> Covers(k + LowBit[k], l)
    OBVIOUS
  <2>0. LowBit[k] \in 1..k /\ LowBit[l] \in 1..l
    BY LowBitRule
  <2>1. CASE l % 2 = 1
    <3>1. LowBit[l] = 1
      BY <2>1, LowBitRule
    <3>2. k + LowBit[k] # l
      <4>1. CASE k % 2 = 1
        BY <2>1, <4>1, LowBitRule
      <4>2. CASE k % 2 = 0
        <5>1. LowBit[k] = 2 * LowBit[k \div 2] /\ LowBit[k \div 2] \in Int
          BY <4>2, LowBitRule, Halves
        <5> QED
          BY <2>1, <4>2, <5>1
      <4> QED
        BY <4>1, <4>2, Halves
    <3> QED
      BY <2>0, <3>1, <3>2 DEF Covers
  <2>2. CASE l % 2 = 0
    <3>0. PICK q \in D : l = 2 * q /\ LowBit[l] = 2 * LowBit[q] /\ LowBit[q] \in Int
      BY <2>2, EvenBit
    <3>1. CASE k % 2 = 1
      <4>1. LowBit[k] = 1
        BY <3>1, LowBitRule
      <4>2. PICK p \in Nat : k = 2 * p + 1
        BY <3>1, Halves
      <4> QED
        BY <3>0, <4>1, <4>2 DEF Covers
    <3>2. CASE k % 2 = 0
      <4>1. PICK p \in D : p < k /\ k = 2 * p /\ LowBit[k] = 2 * LowBit[p] /\ LowBit[p] \in Int
        BY <3>2, EvenBit
      <4>2. p \in T /\ p # q
        BY <1>1, <3>0, <4>1
      <4>3. Covers(p, q) <=> Covers(p + LowBit[p], q)
        BY <4>2
      <4> QED
        BY <3>0, <4>1, <4>3 DEF Covers
    <3> QED
      BY <3>1, <3>2, Halves
  <2> QED
    BY <2>1, <2>2, Halves
<1>2. mu \in [D -> Nat]
  OBVIOUS
<1>3. \A k \in D : k \in T
  <2> HIDE DEF mu, D, T
  <2> QED
    BY <1>1, <1>2, ByMeasure
<1> QED
  BY <1>3

-----------------------------------------------------------------------------
(* Every slot holds the sum of the cells it answers for.                     *)
FenwickHolds(t, n, c) ==
    /\ t \in [1..n -> Int] /\ c \in [0..(n - 1) -> Int]
    /\ \A j \in 1..n : t[j] = SumOf(c, j - LowBit[j], j - 1)

TotalFrom(t, g, j) == IF j = 0 THEN 0 ELSE t[j] + g[j - LowBit[j]]

(* PrefixSum is its own recursion.                                           *)
LEMMA PrefixUnfolds ==
    ASSUME NEW i \in Nat, NEW t, \A j \in 1..i : t[j] \in Int
    PROVE  \E g : PrefixSum(t, i) = g[i] /\ \A j \in 0..i : g[j] = TotalFrom(t, g, j)
<1> DEFINE D == 0..i
           mu == [j \in D |-> j]
           h == [s \in [D -> Int] |-> [j \in D |-> TotalFrom(t, s, j)]]
           F(s) == [j \in D |-> IF j = 0 THEN 0 ELSE t[j] + s[j - LowBit[j]]]
           G == CHOOSE s : s = F(s)
<1>0. \A j \in D : j # 0 => j \in 1..i /\ j - LowBit[j] \in D /\ j - LowBit[j] < j
  <2> TAKE j \in D
  <2> HAVE j # 0
  <2>1. LowBit[j] \in 1..j
    BY LowBitRule
  <2> QED
    BY <2>1
<1>1. mu \in [D -> Nat]
  OBVIOUS
<1>2. h \in [[D -> Int] -> [D -> Int]]
  BY <1>0 DEF TotalFrom
<1>3. ASSUME NEW f \in [D -> Int], NEW g \in [D -> Int], NEW d \in D,
             \A e \in D : mu[e] < mu[d] => f[e] = g[e]
      PROVE  h[f][d] = h[g][d]
  <2>1. CASE d = 0
    BY <2>1 DEF TotalFrom
  <2>2. CASE d # 0
    <3>1. f[d - LowBit[d]] = g[d - LowBit[d]]
      BY <1>0, <1>3, <2>2
    <3> QED
      BY <2>2, <3>1 DEF TotalFrom
  <2> QED
    BY <2>1, <2>2
<1>4. Recursive(D, Int, mu, h)
  <2> HIDE DEF mu, h, D
  <2>1. Int # {}
    BY 0 \in Int
  <2> QED
    BY <1>1, <1>2, <1>3, <2>1 DEF Recursive
<1> HIDE DEF mu, h, D
<1>5. PICK s \in [D -> Int] : s = h[s]
  BY <1>4, Recursion
<1> USE DEF h, D
<1>6. s = F(s)
  BY <1>5 DEF TotalFrom
<1>7. PrefixSum(t, i) = G[i]
  BY DEF PrefixSum
<1> HIDE DEF F
<1>8. G = F(G)
  BY <1>6
<1> HIDE DEF G
<1>9. \A j \in D : G[j] = TotalFrom(t, G, j)
  BY <1>8 DEF F, TotalFrom
<1> QED
  BY <1>7, <1>9

(* The walk down of PrefixSum adds up to the sum of the cells before i.      *)
LEMMA PrefixIsSum ==
    ASSUME NEW n \in Nat, NEW t, NEW c, FenwickHolds(t, n, c), NEW i \in 0..n
    PROVE  PrefixSum(t, i) = SumOf(c, 0, i - 1)
<1>0. \A j \in 1..i : j \in 1..n /\ t[j] \in Int
  BY DEF FenwickHolds
<1>1. PICK g : PrefixSum(t, i) = g[i] /\ \A j \in 0..i : g[j] = TotalFrom(t, g, j)
  BY <1>0, PrefixUnfolds
<1> DEFINE D == 0..i
           mu == [j \in D |-> j]
           T == {j \in D : g[j] = SumOf(c, 0, j - 1)}
<1>2. ASSUME NEW j \in D, \A k \in D : mu[k] < mu[j] => k \in T PROVE j \in T
  <2>1. CASE j = 0
    <3>1. SumOf(c, 0, -1) = 0
      BY SumEmpty
    <3> QED
      BY <1>1, <2>1, <3>1 DEF TotalFrom
  <2>2. CASE j # 0
    <3>1. j \in 1..n /\ LowBit[j] \in 1..j
      BY <2>2, LowBitRule
    <3>2. j - LowBit[j] \in D /\ mu[j - LowBit[j]] < mu[j]
      BY <3>1
    <3>3. g[j - LowBit[j]] = SumOf(c, 0, (j - LowBit[j]) - 1)
      BY <1>2, <3>2
    <3>4. g[j] = t[j] + g[j - LowBit[j]]
      BY <1>1, <2>2 DEF TotalFrom
    <3>5. PICK m \in Int : m = (j - LowBit[j]) - 1 /\ 0 <= m + 1 /\ m <= j - 1 /\ m + 1 = j - LowBit[j]
      BY <3>1
    <3>6. \A k \in 0..(j - 1) : c[k] \in Int
      BY <3>1 DEF FenwickHolds
    <3>7. j - 1 \in Int
      BY <3>1
    <3>8. SumOf(c, 0, j - 1) = SumOf(c, 0, m) + SumOf(c, m + 1, j - 1)
      BY <3>5, <3>6, <3>7, SumSplits
    <3>9. SumOf(c, 0, m) \in Int
      BY <3>5, <3>6, SumInt, \A k \in 0..m : k \in 0..(j - 1)
    <3>10. t[j] = SumOf(c, m + 1, j - 1) /\ t[j] \in Int
      BY <3>1, <3>5 DEF FenwickHolds
    <3> QED
      BY <3>3, <3>4, <3>5, <3>8, <3>9, <3>10
  <2> QED
    BY <2>1, <2>2
<1>3. mu \in [D -> Nat]
  OBVIOUS
<1>4. \A j \in D : j \in T
  <2> HIDE DEF mu, D, T
  <2> QED
    BY <1>2, <1>3, ByMeasure
<1> QED
  BY <1>1, <1>4

SlotsFrom(n, g, j) == IF j > n THEN {} ELSE {j} \cup g[j + LowBit[j]]

(* The slots AddAt reaches are their own recursion.                          *)
LEMMA AddUnfolds ==
    ASSUME NEW n \in Nat, NEW t, DOMAIN t = 1..n, NEW i \in 1..n, NEW d
    PROVE  \E g : /\ \A j \in 1..(2 * n) : g[j] = SlotsFrom(n, g, j)
                  /\ AddAt(t, i, d) = [j \in 1..n |-> IF j \in g[i] THEN t[j] + d ELSE t[j]]
<1> DEFINE D == 1..(2 * n)
           X == SUBSET Nat
           mu == [j \in D |-> 2 * n - j]
           h == [s \in [D -> X] |-> [j \in D |-> SlotsFrom(n, s, j)]]
           F(s) == [j \in D |-> IF j > n THEN {} ELSE {j} \cup s[j + LowBit[j]]]
           G == CHOOSE s : s = F(s)
<1>0. \A j \in D : j <= n => j \in Nat /\ j + LowBit[j] \in D /\ j + LowBit[j] > j
  <2> TAKE j \in D
  <2> HAVE j <= n
  <2>1. LowBit[j] \in 1..j
    BY LowBitRule
  <2> QED
    BY <2>1
<1>1. mu \in [D -> Nat]
  OBVIOUS
<1>2. h \in [[D -> X] -> [D -> X]]
  <2> SUFFICES ASSUME NEW s \in [D -> X], NEW j \in D PROVE SlotsFrom(n, s, j) \in X
    OBVIOUS
  <2>1. CASE j > n
    BY <2>1 DEF SlotsFrom
  <2>2. CASE j <= n
    <3>1. s[j + LowBit[j]] \in SUBSET Nat
      BY <1>0, <2>2
    <3> QED
      BY <1>0, <2>2, <3>1 DEF SlotsFrom
  <2> QED
    BY <2>1, <2>2
<1>3. ASSUME NEW f \in [D -> X], NEW g \in [D -> X], NEW k \in D,
             \A e \in D : mu[e] < mu[k] => f[e] = g[e]
      PROVE  h[f][k] = h[g][k]
  <2>1. CASE k > n
    BY <2>1 DEF SlotsFrom
  <2>2. CASE k <= n
    <3>1. k + LowBit[k] \in D /\ mu[k + LowBit[k]] < mu[k]
      BY <1>0, <2>2
    <3>2. f[k + LowBit[k]] = g[k + LowBit[k]]
      BY <1>3, <3>1
    <3> QED
      BY <2>2, <3>2 DEF SlotsFrom
  <2> QED
    BY <2>1, <2>2
<1>4. Recursive(D, X, mu, h)
  <2>1. X # {}
    BY {} \in SUBSET Nat
  <2> HIDE DEF mu, h, D, X
  <2> QED
    BY <1>1, <1>2, <1>3, <2>1 DEF Recursive
<1> HIDE DEF mu, h, D, X
<1>5. PICK s \in [D -> X] : s = h[s]
  BY <1>4, Recursion
<1> USE DEF h, D
<1>6. s = F(s)
  BY <1>5 DEF SlotsFrom
<1>7. AddAt(t, i, d) = [j \in 1..n |-> IF j \in G[i] THEN t[j] + d ELSE t[j]]
  <2>1. Size(t) = n
    BY SizeOfRange, 1 \in Int, n \in Int, 1 <= n + 1, n - 1 + 1 = n
  <2> QED
    BY <2>1 DEF AddAt
<1> HIDE DEF F
<1>8. G = F(G)
  BY <1>6
<1> HIDE DEF G
<1>9. \A j \in D : G[j] = SlotsFrom(n, G, j)
  BY <1>8 DEF F, SlotsFrom
<1> QED
  BY <1>7, <1>9

(* The walk up from i visits the slots that answer for cell i, and no other. *)
LEMMA AddReaches ==
    ASSUME NEW n \in Nat, NEW t, DOMAIN t = 1..n, NEW i \in 1..n, NEW d
    PROVE  AddAt(t, i, d) = [j \in 1..n |-> IF Covers(i, j) THEN t[j] + d ELSE t[j]]
<1>1. PICK g : /\ \A j \in 1..(2 * n) : g[j] = SlotsFrom(n, g, j)
               /\ AddAt(t, i, d) = [j \in 1..n |-> IF j \in g[i] THEN t[j] + d ELSE t[j]]
  BY AddUnfolds
<1> DEFINE D == 1..(2 * n)
           mu == [j \in D |-> 2 * n - j]
           T == {j \in D : \A k \in 1..n : k \in g[j] <=> Covers(j, k)}
<1>2. ASSUME NEW j \in D, \A k \in D : mu[k] < mu[j] => k \in T PROVE j \in T
  <2> SUFFICES ASSUME NEW k \in 1..n PROVE k \in g[j] <=> Covers(j, k)
    OBVIOUS
  <2>1. CASE j > n
    <3>1. g[j] = SlotsFrom(n, g, j)
      BY <1>1
    <3>2. g[j] = {}
      BY <2>1, <3>1 DEF SlotsFrom
    <3> QED
      BY <2>1, <3>2 DEF Covers
  <2>2. CASE j <= n
    <3>1. LowBit[j] \in 1..j /\ LowBit[k] \in 1..k
      BY LowBitRule
    <3>2. j + LowBit[j] \in D /\ mu[j + LowBit[j]] < mu[j]
      BY <2>2, <3>1
    <3>3. k \in g[j + LowBit[j]] <=> Covers(j + LowBit[j], k)
      BY <1>2, <3>2
    <3>4. k \in g[j] <=> k = j \/ k \in g[j + LowBit[j]]
      <4>1. g[j] = SlotsFrom(n, g, j)
        BY <1>1
      <4>2. g[j] = {j} \cup g[j + LowBit[j]]
        BY <2>2, <4>1 DEF SlotsFrom
      <4> QED
        BY <4>2
    <3>5. CASE k = j
      BY <3>1, <3>4, <3>5 DEF Covers
    <3>6. CASE k # j
      <4>1. Covers(j, k) <=> Covers(j + LowBit[j], k)
        BY <3>6, NextSlot
      <4> QED
        BY <3>3, <3>4, <3>6, <4>1
    <3> QED
      BY <3>5, <3>6
  <2> QED
    BY <2>1, <2>2
<1>3. mu \in [D -> Nat]
  OBVIOUS
<1>4. \A j \in D : j \in T
  <2> HIDE DEF mu, D, T
  <2> QED
    BY <1>2, <1>3, ByMeasure
<1>5. \A k \in 1..n : k \in g[i] <=> Covers(i, k)
  BY <1>4, i \in 1..(2 * n)
<1> QED
  BY <1>1, <1>5

(* Adding to a cell keeps every slot the sum of what it covers.              *)
LEMMA AddHolds ==
    ASSUME NEW n \in Nat, NEW t, NEW c, FenwickHolds(t, n, c), NEW i \in 1..n, NEW d \in Int,
           NEW b \in [0..(n - 1) -> Int], \A k \in 0..(n - 1) : b[k] = IF k = i - 1 THEN c[k] + d ELSE c[k]
    PROVE  FenwickHolds(AddAt(t, i, d), n, b)
<1>1. t \in [1..n -> Int] /\ c \in [0..(n - 1) -> Int]
  BY DEF FenwickHolds
<1>2. AddAt(t, i, d) = [j \in 1..n |-> IF Covers(i, j) THEN t[j] + d ELSE t[j]]
  BY <1>1, AddReaches
<1>3. ASSUME NEW j \in 1..n PROVE AddAt(t, i, d)[j] = SumOf(b, j - LowBit[j], j - 1)
  <2>1. LowBit[j] \in 1..j
    BY LowBitRule
  <2>2. PICK lo \in Int, hi \in Int, k \in Int : lo = j - LowBit[j] /\ hi = j - 1 /\ k = i - 1
    BY <2>1, j - LowBit[j] \in Int
  <2>3. DiffersAt(b, c, lo, hi, k, d)
    BY <1>1, <2>1, <2>2 DEF DiffersAt
  <2>4. SumOf(b, lo, hi) = SumOf(c, lo, hi) + IF lo <= k /\ k <= hi THEN d ELSE 0
    BY <2>3, SumPoint
  <2>5. Covers(i, j) <=> lo <= k /\ k <= hi
    BY <2>1, <2>2 DEF Covers
  <2>6. t[j] = SumOf(c, lo, hi) /\ t[j] \in Int
    BY <1>1, <2>2 DEF FenwickHolds
  <2> QED
    BY <1>2, <2>2, <2>4, <2>5, <2>6
<1>4. AddAt(t, i, d) \in [1..n -> Int]
  BY <1>1, <1>2
<1> QED
  BY <1>3, <1>4 DEF FenwickHolds

(* So does an empty tree, of cells that are zero.                            *)
LEMMA ZeroHolds ==
    ASSUME NEW n \in Nat, NEW c \in [0..(n - 1) -> Int], \A i \in 0..(n - 1) : c[i] = 0
    PROVE  FenwickHolds([i \in 1..n |-> 0], n, c)
<1>1. ASSUME NEW j \in 1..n PROVE SumOf(c, j - LowBit[j], j - 1) = 0
  <2>1. LowBit[j] \in 1..j
    BY LowBitRule
  <2>2. PICK lo \in Int, hi \in Int : lo = j - LowBit[j] /\ hi = j - 1
    BY <2>1, j - LowBit[j] \in Int
  <2>3. lo <= hi + 1 /\ \A m \in lo..hi : c[m] = 0
    BY <2>1, <2>2
  <2>4. SumOf(c, lo, hi) = 0 * (hi + 1 - lo)
    BY <2>3, SumConstant
  <2> QED
    BY <2>2, <2>4
<1> QED
  BY <1>1 DEF FenwickHolds

(* resize: of the cells that stay, the first k have been written.            *)
ResizedFrom(t, n, g, k) ==
    IF k = 0 THEN [i \in 1..n |-> 0] ELSE AddAt(g[k - 1], k, PrefixSum(t, k) - PrefixSum(t, k - 1))

(* FenwickResized is its own recursion.                                      *)
LEMMA ResizeUnfolds ==
    ASSUME NEW m \in Nat, NEW t, DOMAIN t = 1..m, NEW n \in Nat,
           \A i \in 0..m : PrefixSum(t, i) \in Int
    PROVE  \E g, keep : /\ keep = Smaller(m, n) /\ FenwickResized(t, n) = g[keep]
                        /\ \A k \in 0..keep : g[k] = ResizedFrom(t, n, g, k)
<1> DEFINE keep == Smaller(Size(t), n)
           D == 0..keep
           X == [1..n -> Int]
           mu == [k \in D |-> k]
           h == [s \in [D -> X] |-> [k \in D |-> ResizedFrom(t, n, s, k)]]
           F(s) == [k \in D |-> IF k = 0 THEN [i \in 1..n |-> 0]
                                ELSE AddAt(s[k - 1], k, PrefixSum(t, k) - PrefixSum(t, k - 1))]
           G == CHOOSE s : s = F(s)
<1>0. Size(t) = m
  BY SizeOfRange, 1 \in Int, m \in Int, 1 <= m + 1, m - 1 + 1 = m
<1>1. keep = Smaller(m, n) /\ keep \in Nat /\ keep <= m /\ keep <= n
  BY <1>0 DEF Smaller
<1> HIDE DEF keep
<1>2. mu \in [D -> Nat]
  BY <1>1
<1>3. h \in [[D -> X] -> [D -> X]]
  <2> SUFFICES ASSUME NEW s \in [D -> X], NEW k \in D PROVE ResizedFrom(t, n, s, k) \in X
    OBVIOUS
  <2>1. CASE k = 0
    BY <2>1 DEF ResizedFrom
  <2>2. CASE k # 0
    <3>1. k - 1 \in D /\ k \in 1..n /\ k \in 0..m /\ k - 1 \in 0..m
      BY <1>1, <2>2
    <3>2. PrefixSum(t, k) - PrefixSum(t, k - 1) \in Int /\ s[k - 1] \in [1..n -> Int]
      BY <3>1
    <3> DEFINE d == PrefixSum(t, k) - PrefixSum(t, k - 1)
               u == s[k - 1]
    <3>3. d \in Int /\ u \in [1..n -> Int] /\ DOMAIN u = 1..n
      BY <3>2
    <3> HIDE DEF d, u
    <3>4. AddAt(u, k, d) = [j \in 1..n |-> IF Covers(k, j) THEN u[j] + d ELSE u[j]]
      BY <3>1, <3>3, AddReaches, SMTT(20)
    <3>5. AddAt(u, k, d) \in [1..n -> Int]
      BY <3>3, <3>4
    <3> QED
      BY <2>2, <3>5 DEF d, u, ResizedFrom
  <2> QED
    BY <2>1, <2>2
<1>4. ASSUME NEW f \in [D -> X], NEW g \in [D -> X], NEW k \in D,
             \A e \in D : mu[e] < mu[k] => f[e] = g[e]
      PROVE  h[f][k] = h[g][k]
  <2>1. CASE k = 0
    BY <2>1 DEF ResizedFrom
  <2>2. CASE k # 0
    <3>1. k - 1 \in D /\ mu[k - 1] < mu[k]
      BY <1>1, <2>2
    <3>2. f[k - 1] = g[k - 1]
      BY <1>4, <3>1
    <3> QED
      BY <2>2, <3>2 DEF ResizedFrom
  <2> QED
    BY <2>1, <2>2
<1>5. Recursive(D, X, mu, h)
  <2>1. X # {}
    BY [i \in 1..n |-> 0] \in X
  <2> HIDE DEF mu, h, D, X
  <2> QED
    BY <1>2, <1>3, <1>4, <2>1 DEF Recursive
<1> HIDE DEF mu, h, D, X
<1>6. PICK s \in [D -> X] : s = h[s]
  BY <1>5, Recursion
<1> USE DEF h, D
<1>7. s = F(s)
  BY <1>6 DEF ResizedFrom
<1>8. FenwickResized(t, n) = G[keep]
  BY DEF FenwickResized, keep
<1> HIDE DEF F
<1>9. G = F(G)
  BY <1>7
<1> HIDE DEF G
<1>10. \A k \in D : G[k] = ResizedFrom(t, n, G, k)
  BY <1>9 DEF F, ResizedFrom
<1> QED
  BY <1>1, <1>8, <1>10

(* A resized tree holds the cells that stay, and zeros.                      *)
LEMMA ResizeHolds ==
    ASSUME NEW m \in Nat, NEW t, NEW c, FenwickHolds(t, m, c), NEW n \in Nat
    PROVE  FenwickHolds(FenwickResized(t, n), n, [i \in 0..(n - 1) |-> IF i \in 0..(m - 1) THEN c[i] ELSE 0])
<1>0. t \in [1..m -> Int] /\ c \in [0..(m - 1) -> Int] /\ DOMAIN t = 1..m
  BY DEF FenwickHolds
<1>1. \A i \in 0..m : PrefixSum(t, i) = SumOf(c, 0, i - 1) /\ SumOf(c, 0, i - 1) \in Int
  <2> TAKE i \in 0..m
  <2>1. PICK hi \in Int : hi = i - 1
    BY i - 1 \in Int
  <2>2. 0 <= hi + 1 /\ \A k \in 0..hi : c[k] \in Int
    BY <1>0, <2>1
  <2>3. SumOf(c, 0, hi) \in Int
    BY <2>2, SumInt, 0 \in Int
  <2> QED
    BY <2>1, <2>3, PrefixIsSum
<1>2. PICK g, keep : /\ keep = Smaller(m, n) /\ FenwickResized(t, n) = g[keep]
                     /\ \A k \in 0..keep : g[k] = ResizedFrom(t, n, g, k)
  BY <1>0, <1>1, ResizeUnfolds
<1>3. keep \in Nat /\ keep <= m /\ keep <= n /\ (keep = m \/ keep = n)
  BY <1>2 DEF Smaller
<1> DEFINE first(k) == [i \in 0..(n - 1) |-> IF i < k THEN c[i] ELSE 0]
           T == {k \in 0..keep : FenwickHolds(g[k], n, first(k))}
<1>4. \A k \in 0..keep : first(k) \in [0..(n - 1) -> Int]
  BY <1>0, <1>3
<1>5. 0 \in T
  <2>1. g[0] = [i \in 1..n |-> 0]
    BY <1>2, <1>3 DEF ResizedFrom
  <2>2. first(0) \in [0..(n - 1) -> Int] /\ \A i \in 0..(n - 1) : first(0)[i] = 0
    OBVIOUS
  <2> HIDE DEF first
  <2>3. FenwickHolds([i \in 1..n |-> 0], n, first(0))
    BY <2>2, ZeroHolds
  <2> QED
    BY <1>3, <2>1, <2>3
<1>6. ASSUME NEW k \in 0..(keep - 1), k \in T PROVE k + 1 \in T
  <2>1. PICK j \in 0..keep : j = k + 1
    BY <1>3
  <2>2. j # 0 /\ j - 1 = k /\ j \in 1..n /\ j \in 1..m /\ k \in 0..m /\ j \in 0..m
    BY <1>3, <2>1
  <2>3. g[j] = AddAt(g[k], j, PrefixSum(t, j) - PrefixSum(t, k))
    BY <1>2, <2>2 DEF ResizedFrom
  <2>4. PrefixSum(t, j) - PrefixSum(t, k) = c[k] /\ c[k] \in Int
    <3>1. PICK hi \in Int : hi = k - 1
      BY k - 1 \in Int
    <3>2. k \in Int /\ 0 <= hi + 1 /\ hi <= k /\ hi + 1 = k /\ \A i \in 0..k : c[i] \in Int
      BY <1>0, <2>2, <3>1
    <3>3. SumOf(c, 0, k) = SumOf(c, 0, hi) + SumOf(c, hi + 1, k)
      BY <3>2, SumSplits, 0 \in Int
    <3>4. SumOf(c, k, k) = c[k] /\ c[k] \in Int
      BY <3>2, SumOne, k \in 0..k
    <3>5. PrefixSum(t, j) = SumOf(c, 0, k) /\ PrefixSum(t, k) = SumOf(c, 0, hi) /\ SumOf(c, 0, hi) \in Int
      BY <1>1, <2>2, <3>1
    <3> QED
      BY <3>2, <3>3, <3>4, <3>5
  <2>5. /\ first(j) \in [0..(n - 1) -> Int]
        /\ \A i \in 0..(n - 1) : first(j)[i] = IF i = j - 1 THEN first(k)[i] + c[k] ELSE first(k)[i]
    BY <1>0, <2>2, <2>4
  <2>6. FenwickHolds(g[k], n, first(k))
    BY <1>6
  <2> HIDE DEF first
  <2>7. FenwickHolds(AddAt(g[k], j, c[k]), n, first(j))
    BY <2>2, <2>4, <2>5, <2>6, AddHolds
  <2> QED
    BY <2>1, <2>3, <2>4, <2>7
<1>7. \A k \in 0..keep : k \in T
  <2> HIDE DEF T
  <2> QED
    BY <1>3, <1>5, <1>6, Upward
<1>8. first(keep) = [i \in 0..(n - 1) |-> IF i \in 0..(m - 1) THEN c[i] ELSE 0]
  BY <1>3
<1> HIDE DEF first
<1> QED
  BY <1>2, <1>3, <1>7, <1>8

-----------------------------------------------------------------------------
(* Segment tree: a node combines its children, the leaves are the cells.     *)

Segment == rangeKind \in {"sum", "min", "max"}

(* What a cell of the segment tree can hold, for Identity to be neutral.     *)
Values == IF rangeKind = "sum" THEN Int ELSE -Infinity..Infinity

(* What the cells of a segment tree can be.                                  *)
LEMMA ValuesAreInt == Values \subseteq Int /\ 0 \in Values /\ (Segment => Identity \in Values)
BY RangeAssumption DEF Values, Segment, Identity

(* Combine stays among them, in any order, and Identity is neutral.          *)
LEMMA CombineTwo ==
    ASSUME Segment, NEW a \in Values, NEW b \in Values
    PROVE  /\ Combine(a, b) \in Values /\ Combine(a, b) = Combine(b, a)
           /\ Combine(Identity, a) = a /\ Combine(a, Identity) = a
<1>1. CASE rangeKind = "sum"
  BY <1>1 DEF Values, Combine, Identity
<1>2. CASE rangeKind = "min"
  BY <1>2, RangeAssumption DEF Values, Combine, Identity
<1>3. CASE rangeKind = "max"
  BY <1>3, RangeAssumption DEF Values, Combine, Identity
<1> QED
  BY <1>1, <1>2, <1>3 DEF Segment

(* It does not matter which are combined first.                              *)
LEMMA CombineThree ==
    ASSUME Segment, NEW a \in Values, NEW b \in Values, NEW c \in Values
    PROVE  Combine(Combine(a, b), c) = Combine(a, Combine(b, c))
<1>1. CASE rangeKind = "sum"
  BY <1>1 DEF Values, Combine
<1>2. CASE rangeKind = "min"
  BY <1>2, RangeAssumption DEF Values, Combine
<1>3. CASE rangeKind = "max"
  BY <1>3, RangeAssumption DEF Values, Combine
<1> QED
  BY <1>1, <1>2, <1>3 DEF Segment

(* Every inner node combines its two children, and the leaves are the cells. *)
Inner(t, n, x) == t[x] = Combine(t[2 * x], t[2 * x + 1])
SegmentHolds(t, n, c) ==
    /\ t \in [1..(2 * n - 1) -> Values] /\ c \in [0..(n - 1) -> Values]
    /\ \A x \in 1..(n - 1) : Inner(t, n, x)
    /\ \A i \in 0..(n - 1) : t[n + i] = c[i]

-----------------------------------------------------------------------------
UpFrom(g, y, u) == IF y = 0 THEN u ELSE g[y \div 2][Combined(u, y)]

(* Combining one node keeps the tree one of integers.                        *)
LEMMA CombinedType ==
    ASSUME NEW n \in Nat, NEW u \in [1..(2 * n - 1) -> Int], NEW y \in 1..(n - 1), Segment
    PROVE  Combined(u, y) \in [1..(2 * n - 1) -> Int]
<1>1. y \in 1..(2 * n - 1) /\ 2 * y \in 1..(2 * n - 1) /\ 2 * y + 1 \in 1..(2 * n - 1)
  OBVIOUS
<1>2. Combine(u[2 * y], u[2 * y + 1]) \in Int
  BY <1>1 DEF Combine, Segment
<1> QED
  BY <1>2 DEF Combined

TreeOf(t, n) == DOMAIN t = 1..(2 * n - 1)

(* Recombined is its own recursion.                                          *)
LEMMA UpUnfolds ==
    ASSUME Segment, NEW n \in Nat, NEW t, TreeOf(t, n), NEW x \in 0..(n - 1)
    PROVE  \E g : /\ Recombined(t, x) = g[x][t]
                  /\ \A y \in 0..x : \A u \in [1..(2 * n - 1) -> Int] : g[y][u] = UpFrom(g, y, u)
<1> DEFINE D == 0..x
           S == [1..(2 * n - 1) -> Int]
           X == [S -> S]
           mu == [y \in D |-> y]
           h == [s \in [D -> X] |-> [y \in D |-> [u \in S |-> UpFrom(s, y, u)]]]
           F(s) == [y \in 0..x |-> [u \in [DOMAIN t -> Int] |-> IF y = 0 THEN u ELSE s[y \div 2][Combined(u, y)]]]
           G == CHOOSE s : s = F(s)
<1>1. mu \in [D -> Nat]
  OBVIOUS
<1>2. \A y \in D : y # 0 => y \div 2 \in D /\ y \div 2 < y /\ y \in 1..(n - 1)
  OBVIOUS
<1>3. h \in [[D -> X] -> [D -> X]]
  <2> SUFFICES ASSUME NEW s \in [D -> X], NEW y \in D, NEW u \in S PROVE UpFrom(s, y, u) \in S
    OBVIOUS
  <2>1. CASE y = 0
    BY <2>1 DEF UpFrom
  <2>2. CASE y # 0
    <3>1. Combined(u, y) \in S
      BY <1>2, <2>2, CombinedType
    <3>2. s[y \div 2] \in [S -> S]
      BY <1>2, <2>2
    <3> HIDE DEF S
    <3>3. s[y \div 2][Combined(u, y)] \in S
      BY <3>1, <3>2
    <3> QED
      BY <2>2, <3>3 DEF UpFrom
  <2> QED
    BY <2>1, <2>2
<1>4. ASSUME NEW f \in [D -> X], NEW g \in [D -> X], NEW y \in D,
             \A e \in D : mu[e] < mu[y] => f[e] = g[e]
      PROVE  h[f][y] = h[g][y]
  <2>1. CASE y = 0
    BY <2>1 DEF UpFrom
  <2>2. CASE y # 0
    <3>1. f[y \div 2] = g[y \div 2]
      BY <1>2, <1>4, <2>2
    <3> QED
      BY <2>2, <3>1 DEF UpFrom
  <2> QED
    BY <2>1, <2>2
<1>5. Recursive(D, X, mu, h)
  <2>1. X # {}
    <3>1. [u \in S |-> u] \in X
      OBVIOUS
    <3> QED
      BY <3>1
  <2> HIDE DEF mu, h, D, X
  <2> QED
    BY <1>1, <1>3, <1>4, <2>1 DEF Recursive
<1> HIDE DEF mu, h, D, X
<1>6. PICK s \in [D -> X] : s = h[s]
  BY <1>5, Recursion
<1> USE DEF h, D
<1>7. s = F(s)
  BY <1>6 DEF UpFrom, TreeOf
<1>8. Recombined(t, x) = G[x][t]
  BY DEF Recombined
<1> USE DEF TreeOf
<1> HIDE DEF F
<1>9. G = F(G)
  BY <1>7
<1> HIDE DEF G
<1>10. \A y \in D : \A u \in [1..(2 * n - 1) -> Int] : G[y][u] = UpFrom(G, y, u)
  <2> TAKE y \in D
  <2> TAKE u \in [1..(2 * n - 1) -> Int]
  <2>1. G[y] = [w \in [DOMAIN t -> Int] |-> IF y = 0 THEN w ELSE G[y \div 2][Combined(w, y)]]
    BY <1>9 DEF F
  <2>2. u \in [DOMAIN t -> Int]
    BY DEF TreeOf
  <2> QED
    BY <2>1, <2>2 DEF UpFrom
<1> QED
  BY <1>8, <1>10

(* Recombining on the way up from x mends a tree in which x alone may be     *)
(* wrong, and touches no leaf.                                               *)
LEMMA UpMends ==
    ASSUME Segment, NEW n \in Nat, NEW t \in [1..(2 * n - 1) -> Values], NEW x \in 0..(n - 1),
           \A z \in 1..(n - 1) : z # x => Inner(t, n, z)
    PROVE  /\ Recombined(t, x) \in [1..(2 * n - 1) -> Values]
           /\ \A z \in 1..(n - 1) : Inner(Recombined(t, x), n, z)
           /\ \A z \in n..(2 * n - 1) : Recombined(t, x)[z] = t[z]
<1>0. TreeOf(t, n)
  BY DEF TreeOf
<1>1. PICK g : /\ Recombined(t, x) = g[x][t]
               /\ \A y \in 0..x : \A u \in [1..(2 * n - 1) -> Int] : g[y][u] = UpFrom(g, y, u)
  BY <1>0, UpUnfolds
<1> DEFINE S == [1..(2 * n - 1) -> Values]
           D == 0..x
           mu == [y \in D |-> y]
           Wrong(y) == {u \in S : \A z \in 1..(n - 1) : z # y => Inner(u, n, z)}
           Right(u) == {w \in S : /\ \A z \in 1..(n - 1) : Inner(w, n, z)
                                  /\ \A z \in n..(2 * n - 1) : w[z] = u[z]}
<1> DEFINE T == {y \in D : \A u \in Wrong(y) : g[y][u] \in Right(u)}
<1>2. \A u \in S : u \in [1..(2 * n - 1) -> Int]
  BY ValuesAreInt
<1>3. ASSUME NEW y \in D, \A e \in D : mu[e] < mu[y] => e \in T PROVE y \in T
  <2> SUFFICES ASSUME NEW u \in Wrong(y) PROVE g[y][u] \in Right(u)
    OBVIOUS
  <2>1. g[y][u] = UpFrom(g, y, u)
    BY <1>1, <1>2
  <2>2. CASE y = 0
    BY <2>1, <2>2 DEF UpFrom
  <2>3. CASE y # 0
    <3>1. y \div 2 \in D /\ mu[y \div 2] < mu[y] /\ y \in 1..(n - 1)
      BY <2>3
    <3>2. /\ y \in 1..(2 * n - 1) /\ 2 * y \in 1..(2 * n - 1) /\ 2 * y + 1 \in 1..(2 * n - 1)
          /\ 2 * y # y /\ 2 * y + 1 # y
      BY <3>1
    <3>3. Combine(u[2 * y], u[2 * y + 1]) \in Values
      BY <3>2, CombineTwo
    <3> DEFINE w == Combined(u, y)
    <3>4. w \in S /\ w[y] = Combine(u[2 * y], u[2 * y + 1]) /\ \A z \in 1..(2 * n - 1) : z # y => w[z] = u[z]
      BY <3>2, <3>3 DEF Combined
    <3> HIDE DEF w
    <3>5. w \in Wrong(y \div 2)
      <4> SUFFICES ASSUME NEW z \in 1..(n - 1), z # y \div 2 PROVE Inner(w, n, z)
        BY <3>4
      <4>1. CASE z = y
        BY <3>2, <3>4, <4>1 DEF Inner
      <4>2. CASE z # y
        <5>1. /\ z \in 1..(2 * n - 1) /\ 2 * z \in 1..(2 * n - 1) /\ 2 * z + 1 \in 1..(2 * n - 1)
              /\ 2 * z # y /\ 2 * z + 1 # y
          OBVIOUS
        <5>2. Inner(u, n, z)
          BY <4>2
        <5> QED
          BY <3>4, <4>2, <5>1, <5>2 DEF Inner
      <4> QED
        BY <4>1, <4>2
    <3>6. g[y \div 2][w] \in Right(w)
      BY <1>3, <3>1, <3>5
    <3>7. \A z \in n..(2 * n - 1) : w[z] = u[z]
      BY <3>1, <3>4
    <3>8. g[y \div 2][w] \in Right(u)
      BY <3>6, <3>7
    <3> QED
      BY <2>1, <2>3, <3>8 DEF UpFrom, w
  <2> QED
    BY <2>2, <2>3
<1>4. mu \in [D -> Nat]
  OBVIOUS
<1>5. \A y \in D : y \in T
  <2> HIDE DEF mu, D, T
  <2> QED
    BY <1>3, <1>4, ByMeasure
<1>6. t \in Wrong(x) /\ x \in D
  OBVIOUS
<1>7. g[x][t] \in Right(t)
  BY <1>5, <1>6
<1> QED
  BY <1>1, <1>7

-----------------------------------------------------------------------------
(* What the nodes l..r-1 combine to.                                         *)
Agg(t, l, r) ==
    LET from[i \in l..r] == IF i >= r THEN Identity ELSE Combine(t[i], from[i + 1])
    IN  from[l]

AggFrom(t, r, g, i) == IF i >= r THEN Identity ELSE Combine(t[i], g[i + 1])

ValuesOn(t, l, r) == l <= r /\ \A i \in l..(r - 1) : t[i] \in Values

(* Agg, the nodes l..r-1 combined from the left, is its own recursion.       *)
LEMMA AggUnfolds ==
    ASSUME Segment, NEW l \in Int, NEW r \in Int, NEW t, ValuesOn(t, l, r)
    PROVE  \E g : Agg(t, l, r) = g[l] /\ \A i \in l..r : g[i] = AggFrom(t, r, g, i)
<1> DEFINE D == l..r
           X == Values
           mu == [i \in D |-> r - i]
           h == [s \in [D -> X] |-> [i \in D |-> AggFrom(t, r, s, i)]]
           F(s) == [i \in D |-> IF i >= r THEN Identity ELSE Combine(t[i], s[i + 1])]
           G == CHOOSE s : s = F(s)
<1>1. mu \in [D -> Nat]
  OBVIOUS
<1>2. \A i \in D : ~(i >= r) => i + 1 \in D /\ mu[i + 1] < mu[i] /\ t[i] \in Values
  BY DEF ValuesOn
<1>3. h \in [[D -> X] -> [D -> X]]
  <2> SUFFICES ASSUME NEW s \in [D -> X], NEW i \in D PROVE AggFrom(t, r, s, i) \in X
    OBVIOUS
  <2>1. CASE i >= r
    BY <2>1, ValuesAreInt DEF AggFrom
  <2>2. CASE ~(i >= r)
    <3>1. t[i] \in Values /\ s[i + 1] \in Values
      BY <1>2, <2>2
    <3>2. Combine(t[i], s[i + 1]) \in Values
      BY <3>1, CombineTwo
    <3> QED
      BY <2>2, <3>2 DEF AggFrom
  <2> QED
    BY <2>1, <2>2
<1>4. ASSUME NEW f \in [D -> X], NEW g \in [D -> X], NEW i \in D,
             \A e \in D : mu[e] < mu[i] => f[e] = g[e]
      PROVE  h[f][i] = h[g][i]
  <2>1. CASE i >= r
    BY <2>1 DEF AggFrom
  <2>2. CASE ~(i >= r)
    <3>1. f[i + 1] = g[i + 1]
      BY <1>2, <1>4, <2>2
    <3> QED
      BY <2>2, <3>1 DEF AggFrom
  <2> QED
    BY <2>1, <2>2
<1>5. Recursive(D, X, mu, h)
  <2>1. X # {}
    BY ValuesAreInt
  <2> HIDE DEF mu, h, D, X
  <2> QED
    BY <1>1, <1>3, <1>4, <2>1 DEF Recursive
<1> HIDE DEF mu, h, D, X
<1>6. PICK s \in [D -> X] : s = h[s]
  BY <1>5, Recursion
<1> USE DEF h, D
<1>7. s = F(s)
  BY <1>6 DEF AggFrom
<1>8. Agg(t, l, r) = G[l]
  BY DEF Agg
<1> HIDE DEF F
<1>9. G = F(G)
  BY <1>7
<1> HIDE DEF G
<1>10. \A i \in D : G[i] = AggFrom(t, r, G, i)
  BY <1>9 DEF F, AggFrom
<1> QED
  BY <1>8, <1>10

(* No nodes combine to Identity.                                             *)
LEMMA AggEmpty ==
    ASSUME Segment, NEW r \in Int, NEW t
    PROVE  Agg(t, r, r) = Identity
<1>1. ValuesOn(t, r, r)
  BY DEF ValuesOn
<1>2. PICK g : Agg(t, r, r) = g[r] /\ \A i \in r..r : g[i] = AggFrom(t, r, g, i)
  BY <1>1, AggUnfolds
<1> QED
  BY <1>2, r \in r..r, r >= r DEF AggFrom

(* The first node taken off.                                                 *)
LEMMA AggStep ==
    ASSUME Segment, NEW l \in Int, NEW r \in Int, l < r, NEW t, ValuesOn(t, l, r)
    PROVE  /\ Agg(t, l, r) \in Values /\ Agg(t, l + 1, r) \in Values /\ t[l] \in Values
           /\ Agg(t, l, r) = Combine(t[l], Agg(t, l + 1, r))
<1>1. PICK s : Agg(t, l, r) = s[l] /\ \A i \in l..r : s[i] = AggFrom(t, r, s, i)
  BY AggUnfolds
<1>2. PICK m \in Int : m = l + 1
  BY l + 1 \in Int
<1>3. PICK u : Agg(t, m, r) = u[m] /\ \A i \in m..r : u[i] = AggFrom(t, r, u, i)
  <2>1. ValuesOn(t, m, r)
    BY <1>2 DEF ValuesOn
  <2> QED
    BY <2>1, AggUnfolds
<1> DEFINE T == {i \in m..r : s[i] = u[i] /\ s[i] \in Values}
<1>4. r \in T
  <2>1. r \in m..r /\ r \in l..r /\ r >= r
    BY <1>2
  <2> QED
    BY <1>1, <1>3, <2>1, ValuesAreInt DEF AggFrom
<1>5. ASSUME NEW i \in m..(r - 1), i + 1 \in T PROVE i \in T
  <2>1. i \in m..r /\ i \in l..r /\ ~(i >= r) /\ t[i] \in Values
    BY <1>2 DEF ValuesOn
  <2>2. s[i] = Combine(t[i], s[i + 1]) /\ u[i] = Combine(t[i], u[i + 1])
    BY <1>1, <1>3, <2>1 DEF AggFrom
  <2>3. s[i + 1] = u[i + 1] /\ s[i + 1] \in Values
    BY <1>5
  <2>4. Combine(t[i], s[i + 1]) \in Values
    BY <2>1, <2>3, CombineTwo
  <2> QED
    BY <2>1, <2>2, <2>3, <2>4
<1>6. \A i \in m..r : i \in T
  <2> HIDE DEF T
  <2> QED
    BY <1>4, <1>5, Downward
<1>7. s[m] = u[m] /\ s[m] \in Values
  BY <1>2, <1>6, m \in m..r
<1>8. s[l] = Combine(t[l], s[m]) /\ t[l] \in Values
  <2>1. l \in l..r /\ ~(l >= r) /\ t[l] \in Values
    BY DEF ValuesOn
  <2> QED
    BY <1>1, <1>2, <2>1 DEF AggFrom
<1>9. Combine(t[l], s[m]) \in Values
  BY <1>7, <1>8, CombineTwo
<1> QED
  BY <1>1, <1>2, <1>3, <1>7, <1>8, <1>9

(* What is combined stays among the values.                                  *)
LEMMA AggType ==
    ASSUME Segment, NEW l \in Int, NEW r \in Int, NEW t, ValuesOn(t, l, r)
    PROVE  Agg(t, l, r) \in Values
<1>1. CASE l < r
  BY <1>1, AggStep
<1>2. CASE l = r
  BY <1>2, AggEmpty, ValuesAreInt
<1> QED
  BY <1>1, <1>2 DEF ValuesOn

(* The last node can be combined on the right as well.                       *)
LEMMA AggLast ==
    ASSUME Segment, NEW l \in Int, NEW r \in Int, l < r, NEW t, ValuesOn(t, l, r)
    PROVE  /\ Agg(t, l, r - 1) \in Values /\ t[r - 1] \in Values
           /\ Agg(t, l, r) = Combine(Agg(t, l, r - 1), t[r - 1])
<1>0. PICK q \in Int : q = r - 1
  BY r - 1 \in Int
<1> DEFINE T == {i \in l..q : Agg(t, i, q) \in Values /\ Agg(t, i, r) = Combine(Agg(t, i, q), t[q])}
<1>1. t[q] \in Values
  BY <1>0 DEF ValuesOn
<1>2. q \in T
  <2>1. ValuesOn(t, q, r) /\ q < r /\ q + 1 = r
    BY <1>0 DEF ValuesOn
  <2>2. Agg(t, q, r) = Combine(t[q], Agg(t, q + 1, r))
    BY <2>1, AggStep
  <2>3. Agg(t, q + 1, r) = Identity /\ Agg(t, q, q) = Identity
    BY <2>1, AggEmpty
  <2>4. Combine(t[q], Identity) = t[q] /\ Combine(Identity, t[q]) = t[q]
    BY <1>1, CombineTwo
  <2> QED
    BY <1>0, <2>2, <2>3, <2>4, ValuesAreInt
<1>3. ASSUME NEW i \in l..(q - 1), i + 1 \in T PROVE i \in T
  <2>1. i \in Int /\ i < q /\ i < r /\ i \in l..q /\ ValuesOn(t, i, q) /\ ValuesOn(t, i, r)
    BY <1>0 DEF ValuesOn
  <2>2. /\ Agg(t, i, q) \in Values /\ t[i] \in Values /\ Agg(t, i + 1, q) \in Values
        /\ Agg(t, i, q) = Combine(t[i], Agg(t, i + 1, q))
    BY <2>1, AggStep
  <2>3. Agg(t, i, r) = Combine(t[i], Agg(t, i + 1, r))
    BY <2>1, AggStep
  <2>4. Agg(t, i + 1, r) = Combine(Agg(t, i + 1, q), t[q])
    BY <1>3
  <2>5. Combine(Combine(t[i], Agg(t, i + 1, q)), t[q]) = Combine(t[i], Combine(Agg(t, i + 1, q), t[q]))
    BY <1>1, <2>2, CombineThree
  <2> QED
    BY <2>1, <2>2, <2>3, <2>4, <2>5
<1>4. \A i \in l..q : i \in T
  <2> HIDE DEF T
  <2> QED
    BY <1>2, <1>3, Downward
<1>5. l \in T
  BY <1>0, <1>4, l \in l..q
<1> QED
  BY <1>0, <1>1, <1>5

(* A level of the tree combines to what the level below it does.             *)
LEMMA AggLevel ==
    ASSUME Segment, NEW n \in Nat, NEW t \in [1..(2 * n - 1) -> Values],
           \A x \in 1..(n - 1) : Inner(t, n, x),
           NEW a \in 1..n, NEW b \in 1..n, a <= b
    PROVE  Agg(t, 2 * a, 2 * b) = Agg(t, a, b)
<1> DEFINE T == {i \in a..b : Agg(t, 2 * i, 2 * b) = Agg(t, i, b)}
<1>1. b \in T
  BY AggEmpty
<1>2. ASSUME NEW i \in a..(b - 1), i + 1 \in T PROVE i \in T
  <2>1. i \in 1..(n - 1) /\ i \in a..b
    OBVIOUS
  <2>2. PICK p \in Int, q \in Int, e \in Int : p = 2 * i /\ q = 2 * i + 1 /\ e = 2 * b
    BY 2 * i \in Int, 2 * i + 1 \in Int, 2 * b \in Int
  <2>3. p < e /\ q < e /\ i < b /\ ValuesOn(t, p, e) /\ ValuesOn(t, q, e) /\ ValuesOn(t, i, b)
    BY <2>1, <2>2 DEF ValuesOn
  <2>4. Agg(t, p, e) = Combine(t[p], Agg(t, p + 1, e))
    BY <2>3, AggStep
  <2>5. /\ t[q] \in Values /\ Agg(t, q + 1, e) \in Values
        /\ Agg(t, q, e) = Combine(t[q], Agg(t, q + 1, e))
    BY <2>3, AggStep
  <2>6. Agg(t, i, b) = Combine(t[i], Agg(t, i + 1, b))
    BY <2>1, <2>3, AggStep
  <2>7. t[i] = Combine(t[p], t[q])
    BY <2>1, <2>2 DEF Inner
  <2>8. p + 1 = q /\ q + 1 = 2 * (i + 1) /\ t[p] \in Values
    BY <2>2, <2>3 DEF ValuesOn
  <2>9. Agg(t, 2 * (i + 1), e) = Agg(t, i + 1, b)
    BY <1>2, <2>2
  <2>10. Combine(Combine(t[p], t[q]), Agg(t, q + 1, e)) = Combine(t[p], Combine(t[q], Agg(t, q + 1, e)))
    BY <2>5, <2>8, CombineThree
  <2> HIDE DEF T
  <2>11. Agg(t, 2 * i, 2 * b) = Agg(t, i, b)
    BY <2>2, <2>4, <2>5, <2>6, <2>7, <2>8, <2>9, <2>10
  <2> QED
    BY <2>1, <2>11 DEF T
<1>3. \A i \in a..b : i \in T
  <2> HIDE DEF T
  <2> QED
    BY <1>1, <1>2, Downward, SMTT(20)
<1> QED
  BY <1>3, a \in a..b

-----------------------------------------------------------------------------
FirstOf(t, l, res) == IF l % 2 = 1 THEN Combine(res, t[l]) ELSE res
BothOf(t, l, r, res) ==
    IF r % 2 = 1 THEN Combine(FirstOf(t, l, res), t[r - 1]) ELSE FirstOf(t, l, res)
AskFrom(t, g, v, res) ==
    IF v[1] >= v[2] THEN res ELSE g[<<(v[1] + 1) \div 2, v[2] \div 2>>][BothOf(t, v[1], v[2], res)]

(* One round of RangeOf stays among the integers.                            *)
LEMMA BothType ==
    ASSUME Segment, NEW n \in Nat, NEW t \in [1..(2 * n - 1) -> Int], NEW l \in 1..(2 * n), NEW r \in 1..(2 * n),
           l < r, NEW res \in Int
    PROVE  BothOf(t, l, r, res) \in Int
<1>1. t[l] \in Int /\ t[r - 1] \in Int
  BY l \in 1..(2 * n - 1), r - 1 \in 1..(2 * n - 1)
<1>2. \A a, b \in Int : Combine(a, b) \in Int
  BY DEF Combine, Segment
<1> QED
  BY <1>1, <1>2 DEF BothOf, FirstOf

Asks(t, n, g) ==
    \A v \in (1..(2 * n)) \X (1..(2 * n)) : \A res \in Int : g[v][res] = AskFrom(t, g, v, res)
IntTree(t, n) == n \in Nat \ {0} /\ TreeOf(t, n) /\ t \in [1..(2 * n - 1) -> Int]

(* RangeOf is its own recursion.                                             *)
LEMMA AskUnfolds ==
    ASSUME Segment, NEW n \in Nat \ {0}, NEW t, IntTree(t, n), NEW lo \in 0..(n - 1), NEW hi \in 0..(n - 1)
    PROVE  \E g : RangeOf(t, lo, hi) = g[<<lo + n, hi + 1 + n>>][Identity] /\ Asks(t, n, g)
<1> USE DEF IntTree
<1> DEFINE m == (Size(t) + 1) \div 2
           D == (1..(2 * m)) \X (1..(2 * m))
           X == [Int -> Int]
           mu == [v \in D |-> v[2]]
           h == [s \in [D -> X] |-> [v \in D |-> [res \in Int |-> AskFrom(t, s, v, res)]]]
           F(s) == [v \in (1..(2 * m)) \X (1..(2 * m)) |->
                      LET l == v[1]
                          r == v[2]
                          first(res) == IF l % 2 = 1 THEN Combine(res, t[l]) ELSE res
                          both(res) == IF r % 2 = 1 THEN Combine(first(res), t[r - 1]) ELSE first(res)
                      IN  [res \in Int |-> IF l >= r THEN res ELSE s[<<(l + 1) \div 2, r \div 2>>][both(res)]]]
           G == CHOOSE s : s = F(s)
<1>0. m = n
  <2>1. Size(t) = 2 * n - 1
    BY SizeOfRange, 1 \in Int, 2 * n - 1 \in Int, 1 <= (2 * n - 1) + 1, (2 * n - 1) - 1 + 1 = 2 * n - 1 DEF TreeOf
  <2> QED
    BY <2>1
<1> HIDE DEF m
<1>1. mu \in [D -> Nat]
  BY <1>0
<1>2. \A v \in D : ~(v[1] >= v[2]) =>
          /\ <<(v[1] + 1) \div 2, v[2] \div 2>> \in D /\ mu[<<(v[1] + 1) \div 2, v[2] \div 2>>] < mu[v]
          /\ \A res \in Int : BothOf(t, v[1], v[2], res) \in Int
  <2> TAKE v \in D
  <2> HAVE ~(v[1] >= v[2])
  <2>1. v[1] \in 1..(2 * n) /\ v[2] \in 1..(2 * n) /\ v[1] < v[2]
    BY <1>0
  <2>2. (v[1] + 1) \div 2 \in 1..(2 * n) /\ v[2] \div 2 \in 1..(2 * n) /\ v[2] \div 2 < v[2]
    BY <2>1, SMTT(20)
  <2> QED
    BY <1>0, <2>1, <2>2, BothType
<1>3. h \in [[D -> X] -> [D -> X]]
  <2> SUFFICES ASSUME NEW s \in [D -> X], NEW v \in D, NEW res \in Int PROVE AskFrom(t, s, v, res) \in Int
    OBVIOUS
  <2>1. CASE v[1] >= v[2]
    BY <2>1 DEF AskFrom
  <2>2. CASE ~(v[1] >= v[2])
    <3>1. s[<<(v[1] + 1) \div 2, v[2] \div 2>>] \in [Int -> Int] /\ BothOf(t, v[1], v[2], res) \in Int
      BY <1>2, <2>2
    <3> QED
      BY <2>2, <3>1 DEF AskFrom
  <2> QED
    BY <2>1, <2>2
<1>4. ASSUME NEW f \in [D -> X], NEW g \in [D -> X], NEW v \in D,
             \A e \in D : mu[e] < mu[v] => f[e] = g[e]
      PROVE  h[f][v] = h[g][v]
  <2>1. CASE v[1] >= v[2]
    BY <2>1 DEF AskFrom
  <2>2. CASE ~(v[1] >= v[2])
    <3>1. f[<<(v[1] + 1) \div 2, v[2] \div 2>>] = g[<<(v[1] + 1) \div 2, v[2] \div 2>>]
      BY <1>2, <1>4, <2>2
    <3> QED
      BY <2>2, <3>1 DEF AskFrom
  <2> QED
    BY <2>1, <2>2
<1>5. Recursive(D, X, mu, h)
  <2>1. X # {}
    <3>1. [u \in Int |-> u] \in X
      OBVIOUS
    <3> QED
      BY <3>1
  <2> HIDE DEF mu, h, D, X
  <2> QED
    BY <1>1, <1>3, <1>4, <2>1 DEF Recursive
<1> HIDE DEF mu, h, D, X
<1>6. PICK s \in [D -> X] : s = h[s]
  BY <1>5, Recursion
<1> USE DEF h, D
<1>7. s = F(s)
  BY <1>6 DEF AskFrom, BothOf, FirstOf
<1>8. RangeOf(t, lo, hi) = G[<<lo + m, hi + 1 + m>>][Identity]
  BY DEF RangeOf, m
<1> HIDE DEF F
<1>9. G = F(G)
  BY <1>7
<1> HIDE DEF G
<1>10. ASSUME NEW v \in D, NEW res \in Int PROVE G[v][res] = AskFrom(t, G, v, res)
  <2>1. G[v] = F(G)[v]
    BY <1>9
  <2>2. F(G)[v][res] = IF v[1] >= v[2] THEN res ELSE G[<<(v[1] + 1) \div 2, v[2] \div 2>>][BothOf(t, v[1], v[2], res)]
    <3> USE DEF D
    <3> QED
      BY DEF F, BothOf, FirstOf
  <2> QED
    BY <2>1, <2>2 DEF AskFrom
<1> QED
  BY <1>0, <1>8, <1>10 DEF Asks

(* Climbing from the leaves, what has been combined and what is left to      *)
(* combine make the same at every level.                                     *)
LEMMA AskCombines ==
    ASSUME Segment, NEW n \in Nat \ {0}, NEW t \in [1..(2 * n - 1) -> Values], TreeOf(t, n),
           \A x \in 1..(n - 1) : Inner(t, n, x),
           NEW lo \in 0..(n - 1), NEW hi \in 0..(n - 1), lo <= hi
    PROVE  RangeOf(t, lo, hi) = Agg(t, lo + n, hi + 1 + n)
<1>0. IntTree(t, n)
  BY ValuesAreInt DEF IntTree
<1>1. PICK g : RangeOf(t, lo, hi) = g[<<lo + n, hi + 1 + n>>][Identity] /\ Asks(t, n, g)
  BY <1>0, AskUnfolds
<1> DEFINE D == (1..(2 * n)) \X (1..(2 * n))
           mu == [v \in D |-> v[2]]
           T == {v \in D : v[1] <= v[2] =>
                    \A res \in Values : g[v][res] = Combine(res, Agg(t, v[1], v[2]))}
<1>2. ASSUME NEW v \in D, \A e \in D : mu[e] < mu[v] => e \in T PROVE v \in T
  <2> SUFFICES ASSUME v[1] <= v[2], NEW res \in Values
               PROVE  g[v][res] = Combine(res, Agg(t, v[1], v[2]))
    OBVIOUS
  <2>0. g[v][res] = AskFrom(t, g, v, res) /\ res \in Int
    BY <1>1, ValuesAreInt DEF Asks
  <2>1. PICK l \in 1..(2 * n), r \in 1..(2 * n) : l = v[1] /\ r = v[2]
    OBVIOUS
  <2>2. CASE l = r
    <3>1. g[v][res] = res
      BY <2>0, <2>1, <2>2 DEF AskFrom
    <3>2. Agg(t, l, r) = Identity
      BY <2>2, AggEmpty
    <3> QED
      BY <2>1, <3>1, <3>2, CombineTwo, ValuesAreInt
  <2>3. CASE l < r
    <3>1. PICK a \in Int, b \in Int : a = (l + 1) \div 2 /\ b = r \div 2
      BY (l + 1) \div 2 \in Int, r \div 2 \in Int
    <3>2. /\ a \in 1..n /\ b \in 1..n /\ a <= b /\ b < r
          /\ l % 2 \in {0, 1} /\ r % 2 \in {0, 1}
          /\ (l % 2 = 1 => l + 1 = 2 * a) /\ (l % 2 = 0 => l = 2 * a)
          /\ (r % 2 = 1 => r - 1 = 2 * b) /\ (r % 2 = 0 => r = 2 * b)
      BY <2>3, <3>1
    <3>3. <<a, b>> \in D /\ mu[<<a, b>>] < mu[v]
      BY <2>1, <3>2, SMTT(20)
    <3>4. g[v][res] = g[<<a, b>>][BothOf(t, l, r, res)]
      BY <2>0, <2>1, <2>3, <3>1 DEF AskFrom
    <3>5. \A w \in Values : g[<<a, b>>][w] = Combine(w, Agg(t, a, b))
      BY <1>2, <3>2, <3>3
    <3>6. Agg(t, 2 * a, 2 * b) = Agg(t, a, b)
      BY <3>2, AggLevel
    <3>7. PICK p \in Int, q \in Int : p = 2 * a /\ q = 2 * b
      BY <3>1, 2 * a \in Int, 2 * b \in Int
    <3>8. p <= q /\ q <= r /\ p <= r /\ ValuesOn(t, l, r) /\ ValuesOn(t, p, r) /\ ValuesOn(t, p, q)
      BY <2>3, <3>2, <3>7 DEF ValuesOn
    <3>9. Agg(t, l, r) \in Values /\ Agg(t, p, r) \in Values /\ Agg(t, p, q) \in Values
      BY <3>8, AggType
    <3>10. /\ FirstOf(t, l, res) \in Values
           /\ Combine(FirstOf(t, l, res), Agg(t, p, r)) = Combine(res, Agg(t, l, r))
      <4>1. CASE l % 2 = 1
        <5>1. l + 1 = p /\ FirstOf(t, l, res) = Combine(res, t[l])
          BY <3>2, <3>7, <4>1 DEF FirstOf
        <5>2. t[l] \in Values /\ Agg(t, l, r) = Combine(t[l], Agg(t, p, r))
          BY <2>3, <3>8, <5>1, AggStep
        <5>3. Combine(res, t[l]) \in Values
          BY <5>2, CombineTwo
        <5>4. Combine(Combine(res, t[l]), Agg(t, p, r)) = Combine(res, Combine(t[l], Agg(t, p, r)))
          BY <3>9, <5>2, CombineThree
        <5> QED
          BY <5>1, <5>2, <5>3, <5>4
      <4>2. CASE l % 2 = 0
        <5>1. l = p /\ FirstOf(t, l, res) = res
          BY <3>2, <3>7, <4>2 DEF FirstOf
        <5> QED
          BY <5>1
      <4> QED
        BY <3>2, <4>1, <4>2
    <3> DEFINE first == FirstOf(t, l, res)
               both == BothOf(t, l, r, res)
    <3>11. both \in Values /\ Combine(both, Agg(t, p, q)) = Combine(first, Agg(t, p, r))
      <4>1. CASE r % 2 = 1
        <5>1. r - 1 = q /\ both = Combine(first, t[q]) /\ p < r
          BY <3>2, <3>7, <3>8, <4>1 DEF BothOf
        <5>2. t[q] \in Values /\ Agg(t, p, r) = Combine(Agg(t, p, q), t[q])
          BY <3>8, <5>1, AggLast
        <5>3. Combine(Combine(first, t[q]), Agg(t, p, q)) = Combine(first, Combine(t[q], Agg(t, p, q)))
          BY <3>9, <3>10, <5>2, CombineThree
        <5>4. Combine(t[q], Agg(t, p, q)) = Combine(Agg(t, p, q), t[q]) /\ Combine(first, t[q]) \in Values
          BY <3>9, <3>10, <5>2, CombineTwo
        <5> QED
          BY <5>1, <5>2, <5>3, <5>4
      <4>2. CASE r % 2 = 0
        BY <3>2, <3>7, <3>10, <4>2 DEF BothOf
      <4> QED
        BY <3>2, <4>1, <4>2
    <3> HIDE DEF first, both, T, mu, D
    <3>12. g[v][res] = Combine(both, Agg(t, a, b))
      BY <3>4, <3>5, <3>11 DEF both
    <3> QED
      BY <2>1, <3>6, <3>7, <3>10, <3>11, <3>12 DEF first
  <2> QED
    BY <2>1, <2>2, <2>3
<1>3. mu \in [D -> Nat]
  OBVIOUS
<1>4. \A v \in D : v \in T
  <2> HIDE DEF mu, D, T
  <2> QED
    BY <1>2, <1>3, ByMeasure
<1>5. <<lo + n, hi + 1 + n>> \in D /\ lo + n <= hi + 1 + n
  OBVIOUS
<1>6. g[<<lo + n, hi + 1 + n>>][Identity] = Combine(Identity, Agg(t, lo + n, hi + 1 + n))
  BY <1>4, <1>5, ValuesAreInt
<1>7. Agg(t, lo + n, hi + 1 + n) \in Values
  <2>1. lo + n \in Int /\ hi + 1 + n \in Int /\ ValuesOn(t, lo + n, hi + 1 + n)
    BY DEF ValuesOn
  <2> QED
    BY <2>1, AggType
<1> QED
  BY <1>1, <1>6, <1>7, CombineTwo

-----------------------------------------------------------------------------
(* An empty tree holds cells that are zero.                                  *)
LEMMA ZeroTreeHolds ==
    ASSUME Segment, NEW n \in Nat \ {0}, NEW c \in [0..(n - 1) -> Values], \A i \in 0..(n - 1) : c[i] = 0
    PROVE  SegmentHolds([x \in 1..(2 * n - 1) |-> 0], n, c)
<1>1. Combine(0, 0) = 0
  BY DEF Combine, Segment
<1>2. \A x \in 1..(n - 1) : x \in 1..(2 * n - 1) /\ 2 * x \in 1..(2 * n - 1) /\ 2 * x + 1 \in 1..(2 * n - 1)
  OBVIOUS
<1>3. \A i \in 0..(n - 1) : n + i \in 1..(2 * n - 1)
  OBVIOUS
<1> QED
  BY <1>1, <1>2, <1>3, ValuesAreInt DEF SegmentHolds, Inner

(* Setting a leaf and mending the way up holds the cell set.                 *)
LEMMA SetHolds ==
    ASSUME Segment, NEW n \in Nat \ {0}, NEW t, NEW c, SegmentHolds(t, n, c),
           NEW i \in 0..(n - 1), NEW v \in Values
    PROVE  SegmentHolds(Recombined([t EXCEPT ![i + n] = v], (i + n) \div 2), n, [c EXCEPT ![i] = v])
<1> DEFINE u == [t EXCEPT ![i + n] = v]
           x == (i + n) \div 2
<1>1. t \in [1..(2 * n - 1) -> Values] /\ c \in [0..(n - 1) -> Values]
  BY DEF SegmentHolds
<1>2. /\ u \in [1..(2 * n - 1) -> Values] /\ u[i + n] = v
      /\ \A z \in 1..(2 * n - 1) : z # i + n => u[z] = t[z]
  BY <1>1, i + n \in 1..(2 * n - 1)
<1>3. x \in 0..(n - 1)
  OBVIOUS
<1>4. \A z \in 1..(n - 1) : z # x => Inner(u, n, z)
  <2> SUFFICES ASSUME NEW z \in 1..(n - 1), z # x PROVE Inner(u, n, z)
    OBVIOUS
  <2>1. /\ z \in 1..(2 * n - 1) /\ 2 * z \in 1..(2 * n - 1) /\ 2 * z + 1 \in 1..(2 * n - 1)
        /\ z # i + n /\ 2 * z # i + n /\ 2 * z + 1 # i + n
    OBVIOUS
  <2>2. Inner(t, n, z)
    BY DEF SegmentHolds
  <2> HIDE DEF u
  <2> QED
    BY <1>2, <2>1, <2>2 DEF Inner
<1> HIDE DEF u, x
<1>5. /\ Recombined(u, x) \in [1..(2 * n - 1) -> Values]
      /\ \A z \in 1..(n - 1) : Inner(Recombined(u, x), n, z)
      /\ \A z \in n..(2 * n - 1) : Recombined(u, x)[z] = u[z]
  BY <1>2, <1>3, <1>4, UpMends
<1>6. ASSUME NEW j \in 0..(n - 1) PROVE Recombined(u, x)[n + j] = [c EXCEPT ![i] = v][j]
  <2>1. n + j \in n..(2 * n - 1) /\ n + j \in 1..(2 * n - 1) /\ (n + j = i + n <=> j = i)
    OBVIOUS
  <2>2. t[n + j] = c[j]
    BY DEF SegmentHolds
  <2> QED
    BY <1>1, <1>2, <1>5, <2>1, <2>2
<1>7. [c EXCEPT ![i] = v] \in [0..(n - 1) -> Values]
  BY <1>1
<1> QED
  BY <1>5, <1>6, <1>7 DEF SegmentHolds, u, x

(* resize: the nodes from x on are right.                                    *)
DownFrom(t, old, n, g, x) ==
    IF x = n THEN [y \in 1..(2 * n - 1) |-> IF y >= n /\ y - n < old THEN t[y - n + old] ELSE 0]
    ELSE Combined(g[x + 1], x)

(* Combining one node changes that node alone.                               *)
LEMMA CombinedSets ==
    ASSUME Segment, NEW n \in Nat, NEW u \in [1..(2 * n - 1) -> Values], NEW y \in 1..(n - 1)
    PROVE  /\ Combined(u, y) \in [1..(2 * n - 1) -> Values]
           /\ Combined(u, y)[y] = Combine(u[2 * y], u[2 * y + 1])
           /\ \A z \in 1..(2 * n - 1) : z # y => Combined(u, y)[z] = u[z]
<1>1. y \in 1..(2 * n - 1) /\ 2 * y \in 1..(2 * n - 1) /\ 2 * y + 1 \in 1..(2 * n - 1)
  OBVIOUS
<1>2. Combine(u[2 * y], u[2 * y + 1]) \in Values
  BY <1>1, CombineTwo
<1> QED
  BY <1>1, <1>2 DEF Combined

(* SegResized is its own recursion.                                          *)
LEMMA DownUnfolds ==
    ASSUME Segment, NEW m \in Nat \ {0}, NEW t \in [1..(2 * m - 1) -> Values], TreeOf(t, m), NEW n \in Nat \ {0}
    PROVE  \E g : SegResized(t, n) = g[1] /\ \A x \in 1..n : g[x] = DownFrom(t, m, n, g, x)
<1> DEFINE old == (Size(t) + 1) \div 2
           D == 1..n
           X == [1..(2 * n - 1) -> Values]
           mu == [x \in D |-> n - x]
           h == [s \in [D -> X] |-> [x \in D |-> DownFrom(t, old, n, s, x)]]
           F(s) == [x \in 1..n |->
                      IF x = n THEN [y \in 1..(2 * n - 1) |-> IF y >= n /\ y - n < old THEN t[y - n + old] ELSE 0]
                      ELSE Combined(s[x + 1], x)]
           G == CHOOSE s : s = F(s)
<1>0. old = m
  <2>1. Size(t) = 2 * m - 1
    BY SizeOfRange, 1 \in Int, 2 * m - 1 \in Int, 1 <= (2 * m - 1) + 1, (2 * m - 1) - 1 + 1 = 2 * m - 1 DEF TreeOf
  <2> QED
    BY <2>1
<1> HIDE DEF old
<1>1. mu \in [D -> Nat]
  OBVIOUS
<1>2. \A x \in D : x # n => x + 1 \in D /\ mu[x + 1] < mu[x] /\ x \in 1..(n - 1)
  OBVIOUS
<1>3. h \in [[D -> X] -> [D -> X]]
  <2> SUFFICES ASSUME NEW s \in [D -> X], NEW x \in D PROVE DownFrom(t, old, n, s, x) \in X
    OBVIOUS
  <2>1. CASE x = n
    <3>1. ASSUME NEW y \in 1..(2 * n - 1) PROVE (IF y >= n /\ y - n < old THEN t[y - n + old] ELSE 0) \in Values
      <4>1. CASE y >= n /\ y - n < old
        <5>1. y - n + old \in 1..(2 * m - 1)
          BY <1>0, <4>1
        <5> QED
          BY <4>1, <5>1
      <4>2. CASE ~(y >= n /\ y - n < old)
        BY <4>2, ValuesAreInt
      <4> QED
        BY <4>1, <4>2
    <3> QED
      BY <2>1, <3>1 DEF DownFrom
  <2>2. CASE x # n
    <3>1. s[x + 1] \in [1..(2 * n - 1) -> Values]
      BY <1>2, <2>2
    <3>2. Combined(s[x + 1], x) \in [1..(2 * n - 1) -> Values]
      BY <1>2, <2>2, <3>1, CombinedSets
    <3> QED
      BY <2>2, <3>2 DEF DownFrom
  <2> QED
    BY <2>1, <2>2
<1>4. ASSUME NEW f \in [D -> X], NEW g \in [D -> X], NEW x \in D,
             \A e \in D : mu[e] < mu[x] => f[e] = g[e]
      PROVE  h[f][x] = h[g][x]
  <2>1. CASE x = n
    BY <2>1 DEF DownFrom
  <2>2. CASE x # n
    <3>1. f[x + 1] = g[x + 1]
      BY <1>2, <1>4, <2>2
    <3> QED
      BY <2>2, <3>1 DEF DownFrom
  <2> QED
    BY <2>1, <2>2
<1>5. Recursive(D, X, mu, h)
  <2>1. X # {}
    <3>1. [y \in 1..(2 * n - 1) |-> 0] \in X
      BY ValuesAreInt
    <3> QED
      BY <3>1
  <2> HIDE DEF mu, h, D, X
  <2> QED
    BY <1>1, <1>3, <1>4, <2>1 DEF Recursive
<1> HIDE DEF mu, h, D, X
<1>6. PICK s \in [D -> X] : s = h[s]
  BY <1>5, Recursion
<1> USE DEF h, D
<1>7. s = F(s)
  BY <1>6 DEF DownFrom
<1>8. SegResized(t, n) = G[1]
  BY DEF SegResized, old
<1> HIDE DEF F
<1>9. G = F(G)
  BY <1>7
<1> HIDE DEF G
<1>10. \A x \in D : G[x] = DownFrom(t, old, n, G, x)
  BY <1>9 DEF F, DownFrom
<1> QED
  BY <1>0, <1>8, <1>10

(* A resized tree holds the cells that stay, and zeros.                      *)
LEMMA SegResizeHolds ==
    ASSUME Segment, NEW m \in Nat \ {0}, NEW t, NEW c, SegmentHolds(t, m, c), NEW n \in Nat \ {0}
    PROVE  SegmentHolds(SegResized(t, n), n, [i \in 0..(n - 1) |-> IF i \in 0..(m - 1) THEN c[i] ELSE 0])
<1>0. t \in [1..(2 * m - 1) -> Values] /\ c \in [0..(m - 1) -> Values] /\ TreeOf(t, m)
  BY DEF SegmentHolds, TreeOf
<1>1. PICK g : SegResized(t, n) = g[1] /\ \A x \in 1..n : g[x] = DownFrom(t, m, n, g, x)
  BY <1>0, DownUnfolds
<1> DEFINE b == [i \in 0..(n - 1) |-> IF i \in 0..(m - 1) THEN c[i] ELSE 0]
           S == [1..(2 * n - 1) -> Values]
           T == {x \in 1..n : /\ g[x] \in S
                              /\ \A z \in x..(n - 1) : Inner(g[x], n, z)
                              /\ \A i \in 0..(n - 1) : g[x][n + i] = b[i]}
<1>2. b \in [0..(n - 1) -> Values]
  BY <1>0, ValuesAreInt
<1>3. n \in T
  <2>1. g[n] = [y \in 1..(2 * n - 1) |-> IF y >= n /\ y - n < m THEN t[y - n + m] ELSE 0]
    BY <1>1, n \in 1..n DEF DownFrom
  <2>2. ASSUME NEW y \in 1..(2 * n - 1) PROVE g[n][y] \in Values
    <3>1. CASE y >= n /\ y - n < m
      <4>1. y - n + m \in 1..(2 * m - 1)
        BY <3>1
      <4> QED
        BY <1>0, <2>1, <3>1, <4>1
    <3>2. CASE ~(y >= n /\ y - n < m)
      BY <2>1, <3>2, ValuesAreInt
    <3> QED
      BY <3>1, <3>2
  <2>3. ASSUME NEW i \in 0..(n - 1) PROVE g[n][n + i] = b[i]
    <3>1. n + i \in 1..(2 * n - 1) /\ n + i >= n /\ (n + i) - n = i
      OBVIOUS
    <3>2. CASE i < m
      <4>1. i \in 0..(m - 1) /\ i + m = m + i
        BY <3>2
      <4>2. t[m + i] = c[i]
        BY <4>1 DEF SegmentHolds
      <4> QED
        BY <2>1, <3>1, <3>2, <4>1, <4>2
    <3>3. CASE ~(i < m)
      BY <2>1, <3>1, <3>3
    <3> QED
      BY <3>2, <3>3
  <2>4. g[n] \in S
    BY <2>1, <2>2
  <2> QED
    BY <2>3, <2>4
<1> HIDE DEF b
<1>4. ASSUME NEW x \in 1..(n - 1), x + 1 \in T PROVE x \in T
  <2>1. PICK y \in 1..n : y = x + 1
    BY x + 1 \in 1..n
  <2>2. g[x] = Combined(g[y], x)
    BY <1>1, <2>1, x \in 1..n, x # n DEF DownFrom
  <2>3. g[y] \in S /\ (\A z \in y..(n - 1) : Inner(g[y], n, z)) /\ \A i \in 0..(n - 1) : g[y][n + i] = b[i]
    BY <1>4, <2>1
  <2>4. /\ g[x] \in S /\ g[x][x] = Combine(g[y][2 * x], g[y][2 * x + 1])
        /\ \A z \in 1..(2 * n - 1) : z # x => g[x][z] = g[y][z]
    <3> DEFINE u == g[y]
    <3>1. u \in [1..(2 * n - 1) -> Values]
      BY <2>3
    <3> HIDE DEF u
    <3>2. /\ Combined(u, x) \in [1..(2 * n - 1) -> Values]
          /\ Combined(u, x)[x] = Combine(u[2 * x], u[2 * x + 1])
          /\ \A z \in 1..(2 * n - 1) : z # x => Combined(u, x)[z] = u[z]
      BY <3>1, CombinedSets
    <3> QED
      BY <2>2, <3>2 DEF u
  <2>5. ASSUME NEW z \in x..(n - 1) PROVE Inner(g[x], n, z)
    <3>1. /\ z \in 1..(2 * n - 1) /\ 2 * z \in 1..(2 * n - 1) /\ 2 * z + 1 \in 1..(2 * n - 1)
          /\ 2 * z # x /\ 2 * z + 1 # x /\ 2 * x # x /\ 2 * x + 1 # x
      OBVIOUS
    <3>2. CASE z = x
      BY <2>4, <3>1, <3>2 DEF Inner
    <3>3. CASE z # x
      <4>1. Inner(g[y], n, z)
        BY <2>1, <2>3, <3>3
      <4> QED
        BY <2>4, <3>1, <3>3, <4>1 DEF Inner
    <3> QED
      BY <3>2, <3>3
  <2>6. ASSUME NEW i \in 0..(n - 1) PROVE g[x][n + i] = b[i]
    <3>1. n + i \in 1..(2 * n - 1) /\ n + i # x
      OBVIOUS
    <3> QED
      BY <2>3, <2>4, <3>1
  <2> QED
    BY <2>4, <2>5, <2>6
<1>5. \A x \in 1..n : x \in T
  <2> HIDE DEF T
  <2> QED
    BY <1>3, <1>4, Downward
<1>6. 1 \in T
  BY <1>5
<1>7. SegmentHolds(g[1], n, b)
  BY <1>2, <1>6 DEF SegmentHolds
<1> QED
  BY <1>1, <1>7 DEF b

-----------------------------------------------------------------------------
(* The leaves combined, the first cell taken off.                            *)
LEMMA LeafStep ==
    ASSUME Segment, NEW n \in Nat \ {0}, NEW t, NEW c, SegmentHolds(t, n, c),
           NEW i \in 0..(n - 1), NEW hi \in 0..(n - 1), i <= hi
    PROVE  /\ Agg(t, i + n, hi + 1 + n) \in Values /\ Agg(t, i + 1 + n, hi + 1 + n) \in Values /\ c[i] \in Values
           /\ Agg(t, i + n, hi + 1 + n) = Combine(c[i], Agg(t, i + 1 + n, hi + 1 + n))
<1>1. PICK l \in Int, r \in Int : l = i + n /\ r = hi + 1 + n
  BY i + n \in Int, hi + 1 + n \in Int
<1>2. l < r /\ ValuesOn(t, l, r) /\ l + 1 = i + 1 + n
  BY <1>1 DEF SegmentHolds, ValuesOn
<1>3. /\ Agg(t, l, r) \in Values /\ Agg(t, l + 1, r) \in Values
      /\ Agg(t, l, r) = Combine(t[l], Agg(t, l + 1, r))
  BY <1>2, AggStep
<1>4. t[l] = c[i] /\ c[i] \in Values
  BY <1>1 DEF SegmentHolds
<1> QED
  BY <1>1, <1>2, <1>3, <1>4

(* After the last of them.                                                   *)
LEMMA LeafEnd ==
    ASSUME Segment, NEW t, NEW n \in Int, NEW hi \in Int
    PROVE  Agg(t, hi + 1 + n, hi + 1 + n) = Identity
<1>1. PICK r \in Int : r = hi + 1 + n
  BY hi + 1 + n \in Int
<1>2. Agg(t, r, r) = Identity
  BY AggEmpty
<1> QED
  BY <1>1, <1>2

(* In mode sum the leaves combine to the sum of the cells,                   *)
LEMMA AnswerSum ==
    ASSUME rangeKind = "sum", NEW n \in Nat \ {0}, NEW t, NEW c, SegmentHolds(t, n, c),
           NEW lo \in 0..(n - 1), NEW hi \in 0..(n - 1), lo <= hi
    PROVE  Agg(t, lo + n, hi + 1 + n) = SumOf(c, lo, hi)
<1>0. Segment
  BY DEF Segment
<1> DEFINE T == {i \in lo..(hi + 1) : Agg(t, i + n, hi + 1 + n) = SumOf(c, i, hi)}
<1>1. hi + 1 \in T
  <2>1. SumOf(c, hi + 1, hi) = 0
    BY hi + 1 \in Int, hi \in Int, hi = (hi + 1) - 1, SumEmpty
  <2>2. Agg(t, hi + 1 + n, hi + 1 + n) = Identity
    BY <1>0, hi \in Int, n \in Int, LeafEnd
  <2> QED
    BY <2>1, <2>2 DEF Identity
<1>2. ASSUME NEW i \in lo..((hi + 1) - 1), i + 1 \in T PROVE i \in T
  <2>1. i \in 0..(n - 1) /\ i <= hi /\ i \in Int /\ hi \in Int /\ i \in lo..(hi + 1)
    OBVIOUS
  <2>2. /\ Agg(t, i + 1 + n, hi + 1 + n) \in Int /\ c[i] \in Int
        /\ Agg(t, i + n, hi + 1 + n) = c[i] + Agg(t, i + 1 + n, hi + 1 + n)
    BY <1>0, <2>1, LeafStep, ValuesAreInt DEF Combine
  <2>3. \A j \in i..hi : c[j] \in Int
    <3>1. c \in [0..(n - 1) -> Values] /\ \A j \in i..hi : j \in 0..(n - 1)
      BY <2>1 DEF SegmentHolds
    <3> QED
      BY <3>1, ValuesAreInt
  <2>4. SumOf(c, i, hi) = c[i] + SumOf(c, i + 1, hi)
    BY <2>1, <2>3, SumStep
  <2> QED
    BY <1>2, <2>1, <2>2, <2>4
<1>3. \A i \in lo..(hi + 1) : i \in T
  <2> HIDE DEF T
  <2> QED
    BY <1>1, <1>2, lo \in Int, hi + 1 \in Int, Downward
<1> QED
  BY <1>3, lo \in lo..(hi + 1)

(* in mode min to the least of them,                                         *)
LEMMA AnswerMin ==
    ASSUME rangeKind = "min", NEW n \in Nat \ {0}, NEW t, NEW c, SegmentHolds(t, n, c),
           NEW lo \in 0..(n - 1), NEW hi \in 0..(n - 1), lo <= hi
    PROVE  /\ Agg(t, lo + n, hi + 1 + n) \in {c[j] : j \in lo..hi}
           /\ \A j \in lo..hi : Agg(t, lo + n, hi + 1 + n) <= c[j]
<1>0. Segment
  BY DEF Segment
<1> DEFINE A(i) == Agg(t, i + n, hi + 1 + n)
           T == {i \in lo..hi : A(i) \in {c[j] : j \in i..hi} /\ \A j \in i..hi : A(i) <= c[j]}
<1>1. \A i \in lo..hi : A(i) \in Int /\ A(i + 1) \in Int /\ c[i] \in Int /\ A(i) = IF c[i] < A(i + 1) THEN c[i] ELSE A(i + 1)
  <2> TAKE i \in lo..hi
  <2>1. i \in 0..(n - 1) /\ i <= hi
    OBVIOUS
  <2> QED
    BY <1>0, <2>1, LeafStep, ValuesAreInt DEF Combine
<1>2. hi \in T
  <2>1. A(hi + 1) = Identity
    BY <1>0, hi \in Int, n \in Int, LeafEnd
  <2>2. A(hi) = c[hi]
    <3>1. A(hi) = Combine(c[hi], A(hi + 1)) /\ c[hi] \in Values
      BY <1>0, LeafStep, SMTT(20)
    <3> QED
      BY <1>0, <2>1, <3>1, CombineTwo
  <2>3. c[hi] \in Int
    BY <1>1, hi \in lo..hi
  <2> HIDE DEF A
  <2> QED
    BY <2>2, <2>3, hi \in hi..hi
<1> HIDE DEF A
<1>3. ASSUME NEW i \in lo..(hi - 1), i + 1 \in T PROVE i \in T
  <2>1. i \in lo..hi /\ i + 1 \in lo..hi
    OBVIOUS
  <2>2. A(i + 1) \in {c[j] : j \in (i + 1)..hi} /\ \A j \in (i + 1)..hi : A(i + 1) <= c[j]
    BY <1>3
  <2>3. PICK k \in (i + 1)..hi : A(i + 1) = c[k]
    BY <2>2
  <2>4. /\ A(i) \in Int /\ A(i + 1) \in Int /\ c[i] \in Int
        /\ A(i) = IF c[i] < A(i + 1) THEN c[i] ELSE A(i + 1)
    BY <1>1, <2>1
  <2>5. A(i) \in {c[j] : j \in i..hi}
    <3>1. i \in i..hi /\ k \in i..hi
      BY <2>1
    <3> QED
      BY <2>3, <2>4, <3>1
  <2>6. ASSUME NEW j \in i..hi PROVE A(i) <= c[j]
    <3>1. CASE j = i
      BY <2>4, <3>1
    <3>2. CASE j # i
      <4>1. j \in (i + 1)..hi /\ j \in lo..hi
        BY <3>2
      <4>2. A(i + 1) <= c[j] /\ c[j] \in Int
        BY <1>1, <2>2, <4>1
      <4> QED
        BY <2>4, <4>2
    <3> QED
      BY <3>1, <3>2
  <2> QED
    BY <2>1, <2>5, <2>6
<1>4. \A i \in lo..hi : i \in T
  <2> HIDE DEF T
  <2> QED
    BY <1>2, <1>3, lo \in Int, hi \in Int, Downward
<1> QED
  BY <1>4, lo \in lo..hi DEF A

(* and in mode max to the most.                                              *)
LEMMA AnswerMax ==
    ASSUME rangeKind = "max", NEW n \in Nat \ {0}, NEW t, NEW c, SegmentHolds(t, n, c),
           NEW lo \in 0..(n - 1), NEW hi \in 0..(n - 1), lo <= hi
    PROVE  /\ Agg(t, lo + n, hi + 1 + n) \in {c[j] : j \in lo..hi}
           /\ \A j \in lo..hi : c[j] <= Agg(t, lo + n, hi + 1 + n)
<1>0. Segment
  BY DEF Segment
<1> DEFINE A(i) == Agg(t, i + n, hi + 1 + n)
           T == {i \in lo..hi : A(i) \in {c[j] : j \in i..hi} /\ \A j \in i..hi : c[j] <= A(i)}
<1>1. \A i \in lo..hi : A(i) \in Int /\ A(i + 1) \in Int /\ c[i] \in Int /\ A(i) = IF c[i] > A(i + 1) THEN c[i] ELSE A(i + 1)
  <2> TAKE i \in lo..hi
  <2>1. i \in 0..(n - 1) /\ i <= hi
    OBVIOUS
  <2> QED
    BY <1>0, <2>1, LeafStep, ValuesAreInt DEF Combine
<1>2. hi \in T
  <2>1. A(hi + 1) = Identity
    BY <1>0, hi \in Int, n \in Int, LeafEnd
  <2>2. A(hi) = c[hi]
    <3>1. A(hi) = Combine(c[hi], A(hi + 1)) /\ c[hi] \in Values
      BY <1>0, LeafStep, SMTT(20)
    <3> QED
      BY <1>0, <2>1, <3>1, CombineTwo
  <2>3. c[hi] \in Int
    BY <1>1, hi \in lo..hi
  <2> HIDE DEF A
  <2> QED
    BY <2>2, <2>3, hi \in hi..hi
<1> HIDE DEF A
<1>3. ASSUME NEW i \in lo..(hi - 1), i + 1 \in T PROVE i \in T
  <2>1. i \in lo..hi /\ i + 1 \in lo..hi
    OBVIOUS
  <2>2. A(i + 1) \in {c[j] : j \in (i + 1)..hi} /\ \A j \in (i + 1)..hi : c[j] <= A(i + 1)
    BY <1>3
  <2>3. PICK k \in (i + 1)..hi : A(i + 1) = c[k]
    BY <2>2
  <2>4. /\ A(i) \in Int /\ A(i + 1) \in Int /\ c[i] \in Int
        /\ A(i) = IF c[i] > A(i + 1) THEN c[i] ELSE A(i + 1)
    BY <1>1, <2>1
  <2>5. A(i) \in {c[j] : j \in i..hi}
    <3>1. i \in i..hi /\ k \in i..hi
      BY <2>1
    <3> QED
      BY <2>3, <2>4, <3>1
  <2>6. ASSUME NEW j \in i..hi PROVE c[j] <= A(i)
    <3>1. CASE j = i
      BY <2>4, <3>1
    <3>2. CASE j # i
      <4>1. j \in (i + 1)..hi /\ j \in lo..hi
        BY <3>2
      <4>2. c[j] <= A(i + 1) /\ c[j] \in Int
        BY <1>1, <2>2, <4>1
      <4> QED
        BY <2>4, <4>2
    <3> QED
      BY <3>1, <3>2
  <2> QED
    BY <2>1, <2>5, <2>6
<1>4. \A i \in lo..hi : i \in T
  <2> HIDE DEF T
  <2> QED
    BY <1>2, <1>3, lo \in Int, hi \in Int, Downward
<1> QED
  BY <1>4, lo \in lo..hi DEF A

(* The least element of a set.                                               *)
LEMMA MinIs ==
    ASSUME NEW S \in SUBSET Int, NEW m \in S, \A x \in S : m <= x
    PROVE  Min(S) = m
<1>1. Min(S) \in S /\ \A x \in S : Min(S) <= x
  BY DEF Min
<1>2. Min(S) <= m /\ m <= Min(S) /\ m \in Int /\ Min(S) \in Int
  BY <1>1
<1> QED
  BY <1>2

(* The most.                                                                 *)
LEMMA MaxIs ==
    ASSUME NEW S \in SUBSET Int, NEW m \in S, \A x \in S : x <= m
    PROVE  Max(S) = m
<1>1. Max(S) \in S /\ \A x \in S : Max(S) >= x
  BY DEF Max
<1>2. m <= Max(S) /\ Max(S) <= m /\ m \in Int /\ Max(S) \in Int
  <2>1. Max(S) >= m
    BY <1>1
  <2>2. Max(S) \in Int /\ m \in Int
    BY <1>1
  <2> QED
    BY <1>1, <2>1, <2>2
<1> QED
  BY <1>2

(* A tree that holds the cells answers every range as they would.            *)
LEMMA SegmentAnswers ==
    ASSUME Segment, NEW n \in Nat \ {0}, NEW t, SegmentHolds(t, n, cells),
           NEW lo \in 0..(n - 1), NEW hi \in 0..(n - 1), lo <= hi
    PROVE  RangeOf(t, lo, hi) = CASE rangeKind = "sum" -> SumOf(cells, lo, hi)
                                  [] rangeKind = "min" -> Min(Cells(lo, hi))
                                  [] rangeKind = "max" -> Max(Cells(lo, hi))
<1>1. RangeOf(t, lo, hi) = Agg(t, lo + n, hi + 1 + n)
  <2>1. /\ t \in [1..(2 * n - 1) -> Values] /\ TreeOf(t, n) /\ \A x \in 1..(n - 1) : Inner(t, n, x)
    BY DEF SegmentHolds, TreeOf
  <2> QED
    BY <2>1, AskCombines
<1>2. Cells(lo, hi) \in SUBSET Int
  <2>1. cells \in [0..(n - 1) -> Values] /\ \A j \in lo..hi : j \in 0..(n - 1)
    BY DEF SegmentHolds
  <2>2. \A j \in lo..hi : cells[j] \in Int
    BY <2>1, ValuesAreInt
  <2> QED
    BY <2>2 DEF Cells
<1>3. CASE rangeKind = "sum"
  BY <1>1, <1>3, AnswerSum
<1>4. CASE rangeKind = "min"
  <2>1. /\ RangeOf(t, lo, hi) \in Cells(lo, hi)
        /\ \A x \in Cells(lo, hi) : RangeOf(t, lo, hi) <= x
    BY <1>1, <1>4, AnswerMin DEF Cells
  <2> QED
    BY <1>2, <1>4, <2>1, MinIs
<1>5. CASE rangeKind = "max"
  <2>1. /\ RangeOf(t, lo, hi) \in Cells(lo, hi)
        /\ \A x \in Cells(lo, hi) : x <= RangeOf(t, lo, hi)
    BY <1>1, <1>5, AnswerMax DEF Cells
  <2> QED
    BY <1>2, <1>5, <2>1, MaxIs
<1> QED
  BY <1>3, <1>4, <1>5 DEF Segment

-----------------------------------------------------------------------------
(* Square-root decomposition: a cell and the tag of its block, a block's sum. *)

(* A block size exists: the integer square root.                             *)
LEMMA RootExists ==
    ASSUME NEW n \in Nat \ {0}
    PROVE  BlockSize(n) \in 1..n
<1> DEFINE Above == {b \in Nat : b * b > n}
           Square == [b \in Above |-> b]
<1>1. \E b \in 1..n : b * b <= n /\ (b + 1) * (b + 1) > n
  <2> SUFFICES ASSUME \A b \in 1..n : b * b <= n => ~((b + 1) * (b + 1) > n) PROVE FALSE
    OBVIOUS
  <2> DEFINE T == {b \in 1..(n + 1) : b * b <= n}
  <2>1. 1 \in T
    OBVIOUS
  <2>2. ASSUME NEW b \in 1..((n + 1) - 1), b \in T PROVE b + 1 \in T
    <3>1. b \in 1..n /\ b * b <= n
      BY <2>2
    <3>2. (b + 1) * (b + 1) \in Int /\ ~((b + 1) * (b + 1) > n)
      BY <3>1
    <3> QED
      BY <3>1, <3>2
  <2>3. \A b \in 1..(n + 1) : b \in T
    <3> HIDE DEF T
    <3> QED
      BY <2>1, <2>2, n + 1 \in Int, Upward
  <2>4. (n + 1) * (n + 1) <= n
    BY <2>3, n + 1 \in 1..(n + 1)
  <2>5. (n + 1) * (n + 1) = n * n + n + n + 1 /\ n * n >= 0
    OBVIOUS
  <2> QED
    BY <2>4, <2>5
<1> QED
  BY <1>1 DEF BlockSize

(* What division gives.                                                      *)
LEMMA DivideRule ==
    ASSUME NEW i \in Nat, NEW B \in Nat \ {0}
    PROVE  i \div B \in Nat /\ (i \div B) * B <= i /\ i < (i \div B) * B + B
OBVIOUS

(* And that nothing else does.                                               *)
LEMMA DivideUnique ==
    ASSUME NEW i \in Nat, NEW B \in Nat \ {0}, NEW p \in Nat, NEW q \in Nat,
           p * B <= i, i < p * B + B, q * B <= i, i < q * B + B
    PROVE  p = q
<1>1. ASSUME NEW x \in Nat, NEW y \in Nat, x < y PROVE x * B + B <= y * B
  <2>1. PICK z \in Nat : y = x + 1 + z
    BY <1>1, y - x - 1 \in Nat, y = x + 1 + (y - x - 1)
  <2>2. y * B = x * B + B + z * B /\ z * B >= 0
    BY <2>1
  <2>3. x * B \in Int /\ y * B \in Int /\ z * B \in Int
    OBVIOUS
  <2> QED
    BY <2>2, <2>3
<1>2. p * B \in Int /\ q * B \in Int
  OBVIOUS
<1> QED
  BY <1>1, <1>2

BlockStart(n, b) == b * BlockSize(n)

(* The blocks part the cells into runs.                                      *)
LEMMA BlockRule ==
    ASSUME NEW n \in Nat \ {0}
    PROVE  /\ \A i \in 0..(n - 1) : BlockOf(n, i) \in Blocks(n)
           /\ \A b \in Blocks(n) :
                 /\ b \in Nat /\ BlockStart(n, b) \in 0..(n - 1)
                 /\ BlockEnd(n, b) \in BlockStart(n, b)..(n - 1)
                 /\ \A i \in 0..(n - 1) :
                       BlockOf(n, i) = b <=> BlockStart(n, b) <= i /\ i <= BlockEnd(n, b)
<1>1. PICK B \in Nat \ {0} : B = BlockSize(n) /\ B <= n
  BY RootExists
<1>2. PICK e \in Nat : e = n - 1
  BY n - 1 \in Nat
<1>3. PICK last \in Nat : last = e \div B /\ last * B <= e /\ e < last * B + B
  BY DivideRule
<1>4. Blocks(n) = 0..last /\ \A i \in Nat : BlockOf(n, i) = i \div B
  BY <1>1, <1>2, <1>3 DEF Blocks, BlockOf
<1>5. ASSUME NEW x \in Nat, NEW y \in Nat, x < y PROVE x * B + B <= y * B
  <2>1. PICK z \in Nat : y = x + 1 + z
    BY <1>5, y - x - 1 \in Nat, y = x + 1 + (y - x - 1)
  <2>2. y * B = x * B + B + z * B /\ z * B >= 0
    BY <2>1
  <2>3. x * B \in Int /\ y * B \in Int /\ z * B \in Int
    OBVIOUS
  <2> QED
    BY <2>2, <2>3
<1>6. ASSUME NEW i \in 0..(n - 1) PROVE BlockOf(n, i) \in Blocks(n)
  <2>1. PICK p \in Nat : p = i \div B /\ p * B <= i /\ i < p * B + B
    BY DivideRule
  <2>2. p * B \in Int /\ last * B \in Int
    OBVIOUS
  <2>3. p <= last
    <3> SUFFICES ASSUME last < p PROVE FALSE
      BY <2>1
    <3>1. last * B + B <= p * B
      BY <1>5
    <3> QED
      BY <1>2, <1>3, <2>1, <2>2, <3>1
  <2>4. BlockOf(n, i) = p
    BY <1>4, <2>1, i \in Nat
  <2> QED
    BY <1>3, <1>4, <2>1, <2>3, <2>4
<1>7. ASSUME NEW b \in Blocks(n)
      PROVE  /\ b \in Nat /\ BlockStart(n, b) \in 0..(n - 1)
             /\ BlockEnd(n, b) \in BlockStart(n, b)..(n - 1)
             /\ \A i \in 0..(n - 1) : BlockOf(n, i) = b <=> BlockStart(n, b) <= i /\ i <= BlockEnd(n, b)
  <2>1. b \in Nat /\ b <= last
    BY <1>3, <1>4
  <2>2. PICK s \in Int : s = b * B
    BY <2>1, b * B \in Int
  <2>3. 0 <= s
    BY <2>1, <2>2
  <2>4. last * B \in Int /\ s <= last * B
    <3>1. last * B \in Int
      OBVIOUS
    <3>2. CASE b = last
      BY <2>2, <3>1, <3>2
    <3>3. CASE b < last
      BY <1>5, <2>1, <2>2, <3>1, <3>3
    <3> QED
      BY <2>1, <3>1, <3>2, <3>3
  <2>5. s \in 0..(n - 1)
    BY <1>2, <1>3, <2>3, <2>4
  <2>6. PICK f \in Int : f = BlockEnd(n, b) /\ f = (IF s + B < n THEN s + B ELSE n) - 1
    BY <1>1, <2>2, (IF s + B < n THEN s + B ELSE n) - 1 \in Int DEF BlockEnd, Smaller
  <2>7. f \in s..(n - 1)
    BY <2>5, <2>6
  <2>8. ASSUME NEW i \in 0..(n - 1) PROVE BlockOf(n, i) = b <=> s <= i /\ i <= f
    <3>1. PICK p \in Nat : p = i \div B /\ p * B <= i /\ i < p * B + B
      BY DivideRule
    <3>2. BlockOf(n, i) = p
      BY <1>4, <3>1
    <3>3. ASSUME p = b PROVE s <= i /\ i <= f
      BY <2>2, <2>6, <3>1, <3>3
    <3>4. ASSUME s <= i, i <= f PROVE p = b
      <4>1. b * B <= i /\ i < b * B + B
        BY <2>2, <2>6, <3>4
      <4> QED
        BY <2>1, <3>1, <4>1, DivideUnique
    <3> QED
      BY <3>2, <3>3, <3>4
  <2>9. BlockStart(n, b) = s
    BY <1>1, <2>2 DEF BlockStart
  <2> QED
    BY <2>1, <2>5, <2>6, <2>7, <2>8, <2>9
<1> QED
  BY <1>6, <1>7

(* A block's sum is what its cells hold without the block's tag.             *)
SqrtHolds(s, n, c) ==
    /\ n \in Nat \ {0} /\ s \in SqrtState(n) /\ c \in [0..(n - 1) -> Int]
    /\ \A i \in 0..(n - 1) : c[i] = s.a[i] + s.tag[BlockOf(n, i)]
    /\ \A b \in Blocks(n) : s.sum[b] = SumOf(s.a, BlockStart(n, b), BlockEnd(n, b))

(* A block's cells sum to its sum and its tag for each.                      *)
LEMMA BlockSum ==
    ASSUME NEW n, NEW s, NEW c, SqrtHolds(s, n, c), NEW b \in Blocks(n)
    PROVE  SumOf(c, BlockStart(n, b), BlockEnd(n, b))
              = s.sum[b] + s.tag[b] * (BlockEnd(n, b) + 1 - BlockStart(n, b))
<1>0. /\ n \in Nat \ {0} /\ s \in SqrtState(n) /\ c \in [0..(n - 1) -> Int]
      /\ \A i \in 0..(n - 1) : c[i] = s.a[i] + s.tag[BlockOf(n, i)]
  BY DEF SqrtHolds
<1>a. /\ BlockStart(n, b) \in 0..(n - 1) /\ BlockEnd(n, b) \in BlockStart(n, b)..(n - 1)
      /\ \A i \in 0..(n - 1) : BlockOf(n, i) = b <=> BlockStart(n, b) <= i /\ i <= BlockEnd(n, b)
  BY <1>0, BlockRule
<1>1. PICK lo \in Int, hi \in Int :
         /\ lo = BlockStart(n, b) /\ hi = BlockEnd(n, b) /\ 0 <= lo /\ lo <= hi /\ hi <= n - 1
         /\ \A i \in 0..(n - 1) : BlockOf(n, i) = b <=> lo <= i /\ i <= hi
  BY <1>0, <1>a
<1>2. s.tag[b] \in Int /\ \A i \in lo..hi : s.a[i] \in Int /\ c[i] = s.a[i] + s.tag[b]
  BY <1>0, <1>1 DEF SqrtState
<1> DEFINE d == s.tag[b]
           a == s.a
<1>3. d \in Int /\ (\A i \in lo..hi : a[i] \in Int) /\ (\A i \in lo..hi : c[i] = a[i] + d) /\ lo <= hi + 1
  BY <1>1, <1>2
<1> HIDE DEF d, a
<1>4. SumOf(c, lo, hi) = SumOf(a, lo, hi) + d * (hi + 1 - lo)
  BY <1>3, SumShifts
<1>5. s.sum[b] = SumOf(a, lo, hi)
  BY <1>1 DEF SqrtHolds, a
<1> QED
  BY <1>1, <1>4, <1>5 DEF d

(* What range_sum makes of the cells from i on.                              *)
SqrtFrom(s, n, hi, g, i) ==
    IF i > hi THEN 0
    ELSE IF WholeBlock(n, i, hi)
    THEN s.sum[BlockOf(n, i)] + s.tag[BlockOf(n, i)] * (BlockEnd(n, BlockOf(n, i)) + 1 - i)
         + g[BlockEnd(n, BlockOf(n, i)) + 1]
    ELSE s.a[i] + s.tag[BlockOf(n, i)] + g[i + 1]

(* A step of a walk over the cells: by one, or over a whole block.           *)
LEMMA Steps ==
    ASSUME NEW n \in Nat \ {0}, NEW lo \in 0..(n - 1), NEW hi \in lo..(n - 1), NEW i \in lo..hi
    PROVE  /\ i + 1 \in lo..(hi + 1) /\ i + 1 > i /\ BlockOf(n, i) \in Blocks(n) /\ i \in 0..(n - 1)
           /\ WholeBlock(n, i, hi) =>
                 /\ BlockStart(n, BlockOf(n, i)) = i
                 /\ BlockEnd(n, BlockOf(n, i)) \in i..hi
                 /\ BlockEnd(n, BlockOf(n, i)) + 1 \in lo..(hi + 1)
                 /\ BlockEnd(n, BlockOf(n, i)) + 1 > i
<1>1. i \in 0..(n - 1) /\ i + 1 \in lo..(hi + 1) /\ i + 1 > i
  OBVIOUS
<1>2. PICK b \in Blocks(n) : b = BlockOf(n, i)
  BY <1>1, BlockRule
<1>3. PICK e \in Int : e = BlockEnd(n, b) /\ i <= e
  BY <1>1, <1>2, BlockRule
<1>4. ASSUME WholeBlock(n, i, hi) PROVE BlockStart(n, b) = i /\ e \in i..hi
  BY <1>2, <1>3, <1>4 DEF WholeBlock, BlockStart
<1> QED
  BY <1>1, <1>2, <1>3, <1>4

(* SqrtSum is its own recursion.                                             *)
LEMMA SqrtSumUnfolds ==
    ASSUME NEW n, NEW s, NEW c, SqrtHolds(s, n, c), NEW lo \in 0..(n - 1), NEW hi \in lo..(n - 1)
    PROVE  \E g : SqrtSum(s, n, lo, hi) = g[lo] /\ \A i \in lo..(hi + 1) : g[i] = SqrtFrom(s, n, hi, g, i)
<1> DEFINE D == lo..(hi + 1)
           mu == [i \in D |-> hi + 1 - i]
           h == [g \in [D -> Int] |-> [i \in D |-> SqrtFrom(s, n, hi, g, i)]]
           F(from) == [i \in D |->
                         LET b == BlockOf(n, i) IN
                         IF i > hi THEN 0
                         ELSE IF WholeBlock(n, i, hi)
                         THEN s.sum[b] + s.tag[b] * (BlockEnd(n, b) + 1 - i) + from[BlockEnd(n, b) + 1]
                         ELSE s.a[i] + s.tag[b] + from[i + 1]]
           G == CHOOSE g : g = F(g)
<1>0. n \in Nat \ {0} /\ s \in SqrtState(n)
  BY DEF SqrtHolds
<1>1. mu \in [D -> Nat]
  OBVIOUS
<1>a. ASSUME NEW d \in D, d <= hi
      PROVE  /\ d + 1 \in D /\ mu[d + 1] < mu[d]
             /\ s.a[d] \in Int /\ s.tag[BlockOf(n, d)] \in Int /\ s.sum[BlockOf(n, d)] \in Int
             /\ WholeBlock(n, d, hi) =>
                   /\ BlockEnd(n, BlockOf(n, d)) + 1 \in D
                   /\ mu[BlockEnd(n, BlockOf(n, d)) + 1] < mu[d]
  <2>1. d \in lo..hi
    BY <1>a
  <2>2. /\ d + 1 \in D /\ d + 1 > d /\ BlockOf(n, d) \in Blocks(n) /\ d \in 0..(n - 1)
        /\ WholeBlock(n, d, hi) =>
              BlockEnd(n, BlockOf(n, d)) + 1 \in D /\ BlockEnd(n, BlockOf(n, d)) + 1 > d
    BY <1>0, <2>1, Steps
  <2>3. \A x, y \in D : x > y => mu[x] < mu[y]
    OBVIOUS
  <2>4. s.a[d] \in Int /\ s.tag[BlockOf(n, d)] \in Int /\ s.sum[BlockOf(n, d)] \in Int
    BY <1>0, <2>2 DEF SqrtState
  <2> HIDE DEF mu, D
  <2> QED
    BY <2>2, <2>3, <2>4
<1>2. h \in [[D -> Int] -> [D -> Int]]
  <2> SUFFICES ASSUME NEW g \in [D -> Int], NEW i \in D PROVE SqrtFrom(s, n, hi, g, i) \in Int
    OBVIOUS
  <2>1. CASE i > hi
    BY <2>1 DEF SqrtFrom
  <2>2. CASE i <= hi
    <3>1. \A x \in D : x \in Int
      OBVIOUS
    <3>2. i \in Int /\ hi \in Int /\ i \in lo..hi
      BY <2>2
    <3> HIDE DEF D, mu
    <3>3. CASE WholeBlock(n, i, hi)
      <4> DEFINE e == BlockEnd(n, BlockOf(n, i))
                 k == s.tag[BlockOf(n, i)]
      <4>1. e + 1 \in D /\ e + 1 \in Int /\ g[e + 1] \in Int /\ k \in Int /\ s.sum[BlockOf(n, i)] \in Int
        BY <1>a, <2>2, <3>1, <3>3
      <4>2. e \in Int
        BY <1>0, <3>3, Steps, <3>2
      <4> HIDE DEF e, k
      <4>3. k * (e + 1 - i) \in Int
        BY <3>2, <4>1, <4>2
      <4>4. s.sum[BlockOf(n, i)] + k * (e + 1 - i) + g[e + 1] \in Int
        BY <4>1, <4>3
      <4>5. ~(i > hi)
        BY <2>2, <3>2
      <4>6. SqrtFrom(s, n, hi, g, i) = s.sum[BlockOf(n, i)] + k * (e + 1 - i) + g[e + 1]
        BY <3>3, <4>5, Zenon DEF SqrtFrom, e, k
      <4> QED
        BY <4>4, <4>6
    <3>4. CASE ~WholeBlock(n, i, hi)
      <4>1. i + 1 \in D /\ g[i + 1] \in Int /\ s.a[i] \in Int /\ s.tag[BlockOf(n, i)] \in Int
        BY <1>a, <2>2
      <4>2. ~(i > hi)
        BY <2>2, <3>2
      <4> QED
        BY <3>4, <4>1, <4>2 DEF SqrtFrom
    <3> QED
      BY <3>3, <3>4
  <2> QED
    BY <2>1, <2>2
<1>3. ASSUME NEW f \in [D -> Int], NEW g \in [D -> Int], NEW d \in D,
             \A e \in D : mu[e] < mu[d] => f[e] = g[e]
      PROVE  h[f][d] = h[g][d]
  <2>1. CASE d > hi
    BY <2>1 DEF SqrtFrom
  <2>2. CASE d <= hi
    <3>1. h[f][d] = SqrtFrom(s, n, hi, f, d) /\ h[g][d] = SqrtFrom(s, n, hi, g, d)
      OBVIOUS
    <3> HIDE DEF h, mu, D
    <3>2. f[d + 1] = g[d + 1]
      BY <1>a, <1>3, <2>2
    <3>3. WholeBlock(n, d, hi) => f[BlockEnd(n, BlockOf(n, d)) + 1] = g[BlockEnd(n, BlockOf(n, d)) + 1]
      BY <1>a, <1>3, <2>2
    <3> QED
      BY <3>1, <3>2, <3>3 DEF SqrtFrom
  <2> QED
    BY <2>1, <2>2
<1>4. Recursive(D, Int, mu, h)
  <2> HIDE DEF mu, h, D
  <2>1. Int # {}
    BY 0 \in Int
  <2> QED
    BY <1>1, <1>2, <1>3, <2>1 DEF Recursive
<1> HIDE DEF mu, h, D
<1>5. PICK g \in [D -> Int] : g = h[g]
  BY <1>4, Recursion
<1>6. g = F(g)
  BY <1>5 DEF SqrtFrom, h
<1>7. SqrtSum(s, n, lo, hi) = G[lo]
  BY DEF SqrtSum, D
<1> HIDE DEF F
<1>8. G = F(G)
  BY <1>6
<1> HIDE DEF G
<1>9. \A i \in D : G[i] = SqrtFrom(s, n, hi, G, i)
  BY <1>8 DEF F, SqrtFrom
<1> QED
  BY <1>7, <1>9 DEF D

(* It answers as the plain array would.                                      *)
LEMMA SqrtAnswers ==
    ASSUME NEW n, NEW s, NEW c, SqrtHolds(s, n, c), NEW lo \in 0..(n - 1), NEW hi \in lo..(n - 1)
    PROVE  SqrtSum(s, n, lo, hi) = SumOf(c, lo, hi)
<1>0. /\ n \in Nat \ {0} /\ s \in SqrtState(n) /\ c \in [0..(n - 1) -> Int]
      /\ \A i \in 0..(n - 1) : c[i] = s.a[i] + s.tag[BlockOf(n, i)]
  BY DEF SqrtHolds
<1>1. PICK g : SqrtSum(s, n, lo, hi) = g[lo] /\ \A i \in lo..(hi + 1) : g[i] = SqrtFrom(s, n, hi, g, i)
  BY SqrtSumUnfolds
<1> DEFINE D == lo..(hi + 1)
           mu == [i \in D |-> hi + 1 - i]
           T == {i \in D : g[i] = SumOf(c, i, hi)}
<1>2. mu \in [D -> Nat] /\ \A x, y \in D : x > y => mu[x] < mu[y]
  OBVIOUS
<1>3. ASSUME NEW i \in D, \A j \in D : mu[j] < mu[i] => j \in T PROVE i \in T
  <2>1. CASE i = hi + 1
    <3>1. g[i] = 0
      BY <1>1, <2>1 DEF SqrtFrom
    <3>2. i \in Int /\ hi \in Int /\ hi = i - 1
      BY <2>1
    <3>3. SumOf(c, i, hi) = 0
      BY <3>2, SumEmpty
    <3> QED
      BY <3>1, <3>3
  <2>2. CASE i # hi + 1
    <3>1. i \in lo..hi /\ ~(i > hi)
      BY <2>2
    <3>2. /\ i + 1 \in D /\ i + 1 > i /\ BlockOf(n, i) \in Blocks(n) /\ i \in 0..(n - 1)
          /\ WholeBlock(n, i, hi) =>
                 /\ BlockStart(n, BlockOf(n, i)) = i
                 /\ BlockEnd(n, BlockOf(n, i)) \in i..hi
                 /\ BlockEnd(n, BlockOf(n, i)) + 1 \in D
                 /\ BlockEnd(n, BlockOf(n, i)) + 1 > i
      BY <1>0, <3>1, Steps
    <3>3. g[i] = SqrtFrom(s, n, hi, g, i)
      BY <1>1
    <3>4. \A j \in D : j > i => g[j] = SumOf(c, j, hi)
      <4> HIDE DEF mu, D
      <4> QED
        BY <1>2, <1>3
    <3>5. i \in Int /\ hi \in Int /\ i <= hi /\ \A j \in i..hi : c[j] \in Int
      BY <1>0, <3>1
    <3>6. CASE WholeBlock(n, i, hi)
      <4>1. PICK b \in Blocks(n) : b = BlockOf(n, i)
        BY <3>2
      <4>2. PICK e \in Int : e = BlockEnd(n, b) /\ i <= e /\ e <= hi /\ e + 1 \in D /\ e + 1 > i
        BY <3>2, <3>6, <4>1
      <4>3. SumOf(c, i, e) = s.sum[b] + s.tag[b] * (e + 1 - i)
        BY <3>2, <3>6, <4>1, <4>2, BlockSum
      <4>4. SumOf(c, i, hi) = SumOf(c, i, e) + SumOf(c, e + 1, hi)
        BY <3>5, <4>2, SumSplits, i <= e + 1
      <4>5. g[e + 1] = SumOf(c, e + 1, hi)
        BY <3>4, <4>2
      <4>6. g[i] = s.sum[b] + s.tag[b] * (e + 1 - i) + g[e + 1]
        BY <3>1, <3>3, <3>6, <4>1, <4>2 DEF SqrtFrom
      <4> QED
        BY <4>3, <4>4, <4>5, <4>6
    <3>7. CASE ~WholeBlock(n, i, hi)
      <4>1. g[i] = s.a[i] + s.tag[BlockOf(n, i)] + g[i + 1]
        BY <3>1, <3>3, <3>7 DEF SqrtFrom
      <4>2. SumOf(c, i, hi) = c[i] + SumOf(c, i + 1, hi)
        BY <3>5, SumStep
      <4>3. g[i + 1] = SumOf(c, i + 1, hi)
        BY <3>2, <3>4
      <4>4. c[i] = s.a[i] + s.tag[BlockOf(n, i)]
        BY <1>0, <3>2
      <4> QED
        BY <4>1, <4>2, <4>3, <4>4
    <3> QED
      BY <3>6, <3>7
  <2> QED
    BY <2>1, <2>2
<1>4. \A i \in D : i \in T
  <2> HIDE DEF mu, D, T
  <2> QED
    BY <1>2, <1>3, ByMeasure
<1>5. lo \in D
  OBVIOUS
<1> QED
  BY <1>1, <1>4, <1>5

Increased(n, c, lo, hi, d) == [j \in 0..(n - 1) |-> IF lo <= j /\ j <= hi THEN c[j] + d ELSE c[j]]

CellUp(s, n, i, d) == [s EXCEPT !.a[i] = @ + d, !.sum[BlockOf(n, i)] = @ + d]
BlockUp(s, b, d) == [s EXCEPT !.tag[b] = @ + d]

(* Functions are equal when they agree everywhere.                           *)
LEMMA SameFunctions ==
    ASSUME NEW S, NEW R, NEW f \in [S -> R], NEW g \in [S -> R], \A x \in S : f[x] = g[x]
    PROVE  f = g
OBVIOUS

Parts(P, B) == [a : [P -> Int], sum : [B -> Int], tag : [B -> Int]]

CellOneUp(q, s, i, k, d) == q = [s EXCEPT !.a[i] = @ + d, !.sum[k] = @ + d]
TagOneUp(q, s, k, d) == q = [s EXCEPT !.tag[k] = @ + d]

(* What an addition to a cell changes, in any record of these fields.        *)
LEMMA UpCell ==
    ASSUME NEW P, NEW B, NEW s \in Parts(P, B), NEW i \in P, NEW k \in B, NEW d \in Int, NEW q,
           CellOneUp(q, s, i, k, d)
    PROVE  /\ q \in Parts(P, B) /\ q.tag = s.tag
           /\ \A j \in P : q.a[j] = IF j = i THEN s.a[j] + d ELSE s.a[j]
           /\ \A j \in B : q.sum[j] = IF j = k THEN s.sum[j] + d ELSE s.sum[j]
<1> DEFINE r == [s EXCEPT !.a[i] = @ + d]
           v == [r EXCEPT !.sum[k] = s.sum[k] + d]
<1>1. r \in Parts(P, B)
  BY DEF Parts
<1>2. r.sum = s.sum /\ r.a = [s.a EXCEPT ![i] = @ + d] /\ r.tag = s.tag
  BY DEF Parts
<1>3. q = v
  BY DEF CellOneUp
<1>4. s.a \in [P -> Int] /\ s.sum \in [B -> Int] /\ s.sum[k] + d \in Int
  BY DEF Parts
<1> HIDE DEF r
<1>5. v \in Parts(P, B)
  BY <1>1, <1>4 DEF Parts
<1>6. v.a = r.a /\ v.tag = r.tag /\ v.sum = [r.sum EXCEPT ![k] = s.sum[k] + d]
  BY <1>1 DEF Parts
<1>7. \A j \in P : q.a[j] = IF j = i THEN s.a[j] + d ELSE s.a[j]
  BY <1>2, <1>3, <1>4, <1>6
<1>8. \A j \in B : q.sum[j] = IF j = k THEN s.sum[j] + d ELSE s.sum[j]
  BY <1>2, <1>3, <1>4, <1>6
<1> QED
  BY <1>2, <1>3, <1>5, <1>6, <1>7, <1>8

(* What an addition to a tag changes.                                        *)
LEMMA UpTag ==
    ASSUME NEW P, NEW B, NEW s \in Parts(P, B), NEW k \in B, NEW d \in Int, NEW q,
           TagOneUp(q, s, k, d)
    PROVE  /\ q \in Parts(P, B) /\ q.a = s.a /\ q.sum = s.sum
           /\ \A j \in B : q.tag[j] = IF j = k THEN s.tag[j] + d ELSE s.tag[j]
<1>1. q \in Parts(P, B)
  BY DEF Parts, TagOneUp
<1>2. q.a = s.a /\ q.sum = s.sum /\ q.tag = [s.tag EXCEPT ![k] = @ + d]
  BY DEF Parts, TagOneUp
<1>3. s.tag \in [B -> Int]
  BY DEF Parts
<1> QED
  BY <1>1, <1>2, <1>3

(* The same, of a square-root decomposition: a cell,                         *)
LEMMA UpCellFields ==
    ASSUME NEW n \in Nat \ {0}, NEW s \in SqrtState(n), NEW i \in 0..(n - 1), NEW d \in Int
    PROVE  /\ CellUp(s, n, i, d) \in SqrtState(n) /\ CellUp(s, n, i, d).tag = s.tag
           /\ \A j \in 0..(n - 1) : CellUp(s, n, i, d).a[j] = IF j = i THEN s.a[j] + d ELSE s.a[j]
           /\ \A k \in Blocks(n) :
                 CellUp(s, n, i, d).sum[k] = IF k = BlockOf(n, i) THEN s.sum[k] + d ELSE s.sum[k]
<1> DEFINE P == 0..(n - 1)
           B == Blocks(n)
           k == BlockOf(n, i)
           q == CellUp(s, n, i, d)
<1>1. k \in B /\ i \in P /\ s \in Parts(P, B) /\ SqrtState(n) = Parts(P, B)
  BY BlockRule DEF Parts, SqrtState
<1>2. CellOneUp(q, s, i, k, d)
  BY DEF CellUp, CellOneUp
<1> HIDE DEF P, B, k, q
<1>3. /\ q \in Parts(P, B) /\ q.tag = s.tag
      /\ \A j \in P : q.a[j] = IF j = i THEN s.a[j] + d ELSE s.a[j]
      /\ \A j \in B : q.sum[j] = IF j = k THEN s.sum[j] + d ELSE s.sum[j]
  BY <1>1, <1>2, UpCell
<1> QED
  BY <1>1, <1>3 DEF P, B, k, q

(* and a tag.                                                                *)
LEMMA UpTagFields ==
    ASSUME NEW n \in Nat \ {0}, NEW s \in SqrtState(n), NEW b \in Blocks(n), NEW d \in Int
    PROVE  /\ BlockUp(s, b, d) \in SqrtState(n)
           /\ BlockUp(s, b, d).a = s.a /\ BlockUp(s, b, d).sum = s.sum
           /\ \A k \in Blocks(n) : BlockUp(s, b, d).tag[k] = IF k = b THEN s.tag[k] + d ELSE s.tag[k]
<1> DEFINE P == 0..(n - 1)
           B == Blocks(n)
           r == BlockUp(s, b, d)
<1>1. b \in B /\ s \in Parts(P, B) /\ SqrtState(n) = Parts(P, B)
  BY DEF Parts, SqrtState
<1>2. TagOneUp(r, s, b, d)
  BY DEF BlockUp, TagOneUp
<1> HIDE DEF P, B, r
<1>3. /\ r \in Parts(P, B) /\ r.a = s.a /\ r.sum = s.sum
      /\ \A j \in B : r.tag[j] = IF j = b THEN s.tag[j] + d ELSE s.tag[j]
  BY <1>1, <1>2, UpTag
<1> QED
  BY <1>1, <1>3 DEF P, B, r

(* Raising a range is raising its start, then the rest.                      *)
LEMMA RaisedOn ==
    ASSUME NEW n \in Nat \ {0}, NEW b \in [0..(n - 1) -> Int], NEW i \in Int, NEW hi \in Int, NEW d \in Int,
           NEW e \in i..hi
    PROVE  Increased(n, Increased(n, b, i, e, d), e + 1, hi, d) = Increased(n, b, i, hi, d)
<1> DEFINE f == Increased(n, b, i, e, d)
           g == Increased(n, f, e + 1, hi, d)
           k == Increased(n, b, i, hi, d)
<1>1. f \in [0..(n - 1) -> Int] /\ \A j \in 0..(n - 1) : f[j] = IF i <= j /\ j <= e THEN b[j] + d ELSE b[j]
  BY DEF Increased
<1>2. k \in [0..(n - 1) -> Int] /\ \A j \in 0..(n - 1) : k[j] = IF i <= j /\ j <= hi THEN b[j] + d ELSE b[j]
  BY DEF Increased
<1> HIDE DEF f
<1>3. g \in [0..(n - 1) -> Int] /\ \A j \in 0..(n - 1) : g[j] = IF e + 1 <= j /\ j <= hi THEN f[j] + d ELSE f[j]
  BY <1>1 DEF Increased
<1> HIDE DEF g, k
<1>4. ASSUME NEW j \in 0..(n - 1) PROVE g[j] = k[j]
  <2>1. f[j] = (IF i <= j /\ j <= e THEN b[j] + d ELSE b[j]) /\ f[j] \in Int
    BY <1>1
  <2>2. g[j] = IF e + 1 <= j /\ j <= hi THEN f[j] + d ELSE f[j]
    BY <1>3
  <2>3. k[j] = IF i <= j /\ j <= hi THEN b[j] + d ELSE b[j]
    BY <1>2
  <2>4. j \in Int /\ e \in Int /\ i <= e /\ e <= hi
    OBVIOUS
  <2> QED
    BY <2>1, <2>2, <2>3, <2>4
<1>5. g = k
  BY <1>2, <1>3, <1>4, SameFunctions
<1> QED
  BY <1>5 DEF f, g, k

(* One cell added to, in the structure and in the array.                     *)
LEMMA CellUpHolds ==
    ASSUME NEW n, NEW s, NEW c, SqrtHolds(s, n, c), NEW i \in 0..(n - 1), NEW d \in Int
    PROVE  SqrtHolds(CellUp(s, n, i, d), n, Increased(n, c, i, i, d))
<1>0. /\ n \in Nat \ {0} /\ s \in SqrtState(n) /\ c \in [0..(n - 1) -> Int]
      /\ \A j \in 0..(n - 1) : c[j] = s.a[j] + s.tag[BlockOf(n, j)]
      /\ \A b \in Blocks(n) : s.sum[b] = SumOf(s.a, BlockStart(n, b), BlockEnd(n, b))
  BY DEF SqrtHolds
<1>1. PICK k \in Blocks(n) : k = BlockOf(n, i)
  BY <1>0, BlockRule
<1> DEFINE u == CellUp(s, n, i, d)
           a == s.a
           f == u.a
           r == Increased(n, c, i, i, d)
<1>2. /\ u \in SqrtState(n) /\ u.tag = s.tag
      /\ \A j \in 0..(n - 1) : u.a[j] = IF j = i THEN s.a[j] + d ELSE s.a[j]
      /\ \A b \in Blocks(n) : u.sum[b] = IF b = k THEN s.sum[b] + d ELSE s.sum[b]
  <2>1. /\ u \in SqrtState(n) /\ u.tag = s.tag
        /\ \A j \in 0..(n - 1) : u.a[j] = IF j = i THEN s.a[j] + d ELSE s.a[j]
        /\ \A b \in Blocks(n) : u.sum[b] = IF b = BlockOf(n, i) THEN s.sum[b] + d ELSE s.sum[b]
    <3>1. n \in Nat \ {0} /\ s \in SqrtState(n)
      BY <1>0
    <3> QED
      BY <3>1, UpCellFields
  <2> HIDE DEF u
  <2> QED
    BY <1>1, <2>1
<1>3. r \in [0..(n - 1) -> Int] /\ \A j \in 0..(n - 1) : r[j] = IF j = i THEN c[j] + d ELSE c[j]
  BY <1>0 DEF Increased
<1>4. \A j \in 0..(n - 1) : BlockOf(n, j) \in Blocks(n)
  BY <1>0, BlockRule
<1>5. ASSUME NEW j \in 0..(n - 1) PROVE r[j] = u.a[j] + u.tag[BlockOf(n, j)]
  <2>1. s.a[j] \in Int /\ s.tag[BlockOf(n, j)] \in Int
    BY <1>0, <1>4 DEF SqrtState
  <2> HIDE DEF r, u
  <2>2. u.a[j] = IF j = i THEN s.a[j] + d ELSE s.a[j]
    BY <1>2
  <2>3. r[j] = (IF j = i THEN c[j] + d ELSE c[j]) /\ c[j] = s.a[j] + s.tag[BlockOf(n, j)]
    BY <1>0, <1>3
  <2>4. u.tag[BlockOf(n, j)] = s.tag[BlockOf(n, j)]
    BY <1>2
  <2> QED
    BY <2>1, <2>2, <2>3, <2>4
<1>6. ASSUME NEW b \in Blocks(n) PROVE u.sum[b] = SumOf(f, BlockStart(n, b), BlockEnd(n, b))
  <2>0. /\ BlockStart(n, b) \in 0..(n - 1) /\ BlockEnd(n, b) \in BlockStart(n, b)..(n - 1)
        /\ \A j \in 0..(n - 1) : BlockOf(n, j) = b <=> BlockStart(n, b) <= j /\ j <= BlockEnd(n, b)
    BY <1>0, BlockRule
  <2>1. PICK lo \in Int, hi \in Int :
         /\ lo = BlockStart(n, b) /\ hi = BlockEnd(n, b) /\ 0 <= lo /\ lo <= hi /\ hi <= n - 1
         /\ BlockOf(n, i) = b <=> lo <= i /\ i <= hi
    BY <1>0, <2>0
  <2>2. \A j \in 0..(n - 1) : a[j] \in Int /\ f[j] = IF j = i THEN a[j] + d ELSE a[j]
    <3> HIDE DEF u, r
    <3> QED
      BY <1>0, <1>2 DEF SqrtState
  <2> HIDE DEF a, f, r, u
  <2>a. \A j \in lo..hi : j \in 0..(n - 1)
    BY <1>0, <2>1
  <2>3. DiffersAt(f, a, lo, hi, i, d)
    BY <2>1, <2>2, <2>a DEF DiffersAt
  <2>4. SumOf(f, lo, hi) = SumOf(a, lo, hi) + IF lo <= i /\ i <= hi THEN d ELSE 0
    BY <2>3, SumPoint, i \in Int
  <2>5. s.sum[b] = SumOf(a, lo, hi) /\ s.sum[b] \in Int
    BY <1>0, <2>1 DEF a, SqrtState
  <2> QED
    BY <1>1, <1>2, <2>1, <2>4, <2>5
<1> HIDE DEF u, r
<1> QED
  BY <1>0, <1>2, <1>3, <1>5, <1>6 DEF SqrtHolds, u, r

(* A whole block added to.                                                   *)
LEMMA BlockUpHolds ==
    ASSUME NEW n, NEW s, NEW c, SqrtHolds(s, n, c), NEW b \in Blocks(n), NEW d \in Int
    PROVE  SqrtHolds(BlockUp(s, b, d), n, Increased(n, c, BlockStart(n, b), BlockEnd(n, b), d))
<1>0. /\ n \in Nat \ {0} /\ s \in SqrtState(n) /\ c \in [0..(n - 1) -> Int]
      /\ \A j \in 0..(n - 1) : c[j] = s.a[j] + s.tag[BlockOf(n, j)]
      /\ \A k \in Blocks(n) : s.sum[k] = SumOf(s.a, BlockStart(n, k), BlockEnd(n, k))
  BY DEF SqrtHolds
<1> DEFINE u == BlockUp(s, b, d)
           r == Increased(n, c, BlockStart(n, b), BlockEnd(n, b), d)
<1>1. /\ u \in SqrtState(n) /\ u.a = s.a /\ u.sum = s.sum
      /\ \A k \in Blocks(n) : u.tag[k] = IF k = b THEN s.tag[k] + d ELSE s.tag[k]
  <2>1. n \in Nat \ {0} /\ s \in SqrtState(n)
    BY <1>0
  <2> QED
    BY <2>1, UpTagFields
<1>2. \A j \in 0..(n - 1) : /\ BlockOf(n, j) \in Blocks(n)
                            /\ BlockOf(n, j) = b <=> BlockStart(n, b) <= j /\ j <= BlockEnd(n, b)
  BY <1>0, BlockRule
<1>3. \A j \in 0..(n - 1) : r[j] = IF BlockOf(n, j) = b THEN c[j] + d ELSE c[j]
  BY <1>2 DEF Increased
<1>4. r \in [0..(n - 1) -> Int]
  BY <1>0 DEF Increased
<1>5. ASSUME NEW j \in 0..(n - 1) PROVE r[j] = u.a[j] + u.tag[BlockOf(n, j)]
  <2>1. s.a[j] \in Int /\ s.tag[BlockOf(n, j)] \in Int
    BY <1>0, <1>2 DEF SqrtState
  <2> HIDE DEF r, u
  <2> QED
    BY <1>0, <1>1, <1>2, <1>3, <2>1
<1> HIDE DEF u, r
<1> QED
  BY <1>0, <1>1, <1>4, <1>5 DEF SqrtHolds, u, r

(* range_add from the cell i on.                                             *)
SqrtAddFrom(n, hi, d, g, i, u) ==
    IF i > hi THEN u
    ELSE IF WholeBlock(n, i, hi)
    THEN g[BlockEnd(n, BlockOf(n, i)) + 1][BlockUp(u, BlockOf(n, i), d)]
    ELSE g[i + 1][CellUp(u, n, i, d)]

(* Both keep the shape.                                                      *)
LEMMA UpTypes ==
    ASSUME NEW n \in Nat \ {0}, NEW u \in SqrtState(n), NEW i \in 0..(n - 1), NEW d \in Int
    PROVE  CellUp(u, n, i, d) \in SqrtState(n) /\ BlockUp(u, BlockOf(n, i), d) \in SqrtState(n)
<1>1. BlockOf(n, i) \in Blocks(n)
  BY BlockRule
<1> QED
  BY <1>1, UpCellFields, UpTagFields

(* SqrtAdd is its own recursion.                                             *)
LEMMA SqrtAddUnfolds ==
    ASSUME NEW n \in Nat \ {0}, NEW s, NEW lo \in 0..(n - 1), NEW hi \in lo..(n - 1), NEW d \in Int
    PROVE  \E g : /\ SqrtAdd(s, n, lo, hi, d) = g[lo][s]
                  /\ \A i \in lo..(hi + 1), u \in SqrtState(n) : g[i][u] = SqrtAddFrom(n, hi, d, g, i, u)
<1> DEFINE D == lo..(hi + 1)
           S == SqrtState(n)
           X == [S -> S]
           mu == [i \in D |-> hi + 1 - i]
           h == [g \in [D -> X] |-> [i \in D |-> [u \in S |-> SqrtAddFrom(n, hi, d, g, i, u)]]]
           F(add) == [i \in D |-> [u \in S |->
                        LET b == BlockOf(n, i) IN
                        IF i > hi THEN u
                        ELSE IF WholeBlock(n, i, hi) THEN add[BlockEnd(n, b) + 1][[u EXCEPT !.tag[b] = @ + d]]
                        ELSE add[i + 1][[u EXCEPT !.a[i] = @ + d, !.sum[b] = @ + d]]]]
           G == CHOOSE g : g = F(g)
<1>1. mu \in [D -> Nat]
  OBVIOUS
<1>a. ASSUME NEW i \in D, i <= hi
      PROVE  /\ i \in 0..(n - 1) /\ i + 1 \in D /\ mu[i + 1] < mu[i]
             /\ WholeBlock(n, i, hi) =>
                   /\ BlockEnd(n, BlockOf(n, i)) + 1 \in D
                   /\ mu[BlockEnd(n, BlockOf(n, i)) + 1] < mu[i]
  <2>1. i \in lo..hi
    BY <1>a
  <2>2. /\ i + 1 \in D /\ i + 1 > i /\ i \in 0..(n - 1)
        /\ WholeBlock(n, i, hi) =>
              BlockEnd(n, BlockOf(n, i)) + 1 \in D /\ BlockEnd(n, BlockOf(n, i)) + 1 > i
    BY <2>1, Steps
  <2>3. \A x, y \in D : x > y => mu[x] < mu[y]
    OBVIOUS
  <2> HIDE DEF mu, D
  <2> QED
    BY <2>2, <2>3
<1>b. \A i \in D : i > hi \/ i <= hi
  OBVIOUS
<1>2. h \in [[D -> X] -> [D -> X]]
  <2> SUFFICES ASSUME NEW g \in [D -> X], NEW i \in D, NEW u \in S PROVE SqrtAddFrom(n, hi, d, g, i, u) \in S
    OBVIOUS
  <2> HIDE DEF D, mu, h, F
  <2>1. CASE i > hi
    BY <2>1 DEF SqrtAddFrom
  <2>2. CASE ~(i > hi)
    <3>1. i <= hi
      BY <1>b, <2>2
    <3>2. CellUp(u, n, i, d) \in S /\ BlockUp(u, BlockOf(n, i), d) \in S
      BY <1>a, <3>1, UpTypes
    <3> HIDE DEF S
    <3>3. \A j \in D : g[j] \in [S -> S]
      OBVIOUS
    <3>4. CASE WholeBlock(n, i, hi)
      <4>1. SqrtAddFrom(n, hi, d, g, i, u) = g[BlockEnd(n, BlockOf(n, i)) + 1][BlockUp(u, BlockOf(n, i), d)]
        BY <2>2, <3>4 DEF SqrtAddFrom
      <4> QED
        BY <1>a, <3>1, <3>2, <3>3, <3>4, <4>1
    <3>5. CASE ~WholeBlock(n, i, hi)
      <4>1. SqrtAddFrom(n, hi, d, g, i, u) = g[i + 1][CellUp(u, n, i, d)]
        BY <2>2, <3>5 DEF SqrtAddFrom
      <4> QED
        BY <1>a, <3>1, <3>2, <3>3, <4>1
    <3> QED
      BY <3>4, <3>5
  <2> QED
    BY <2>1, <2>2
<1>3. ASSUME NEW f \in [D -> X], NEW g \in [D -> X], NEW i \in D,
             \A e \in D : mu[e] < mu[i] => f[e] = g[e]
      PROVE  h[f][i] = h[g][i]
  <2> SUFFICES ASSUME NEW u \in S PROVE SqrtAddFrom(n, hi, d, f, i, u) = SqrtAddFrom(n, hi, d, g, i, u)
    OBVIOUS
  <2> HIDE DEF h, mu, D, S, X, F
  <2>1. CASE i > hi
    BY <2>1 DEF SqrtAddFrom
  <2>2. CASE ~(i > hi)
    <3>1. i <= hi
      BY <1>b, <2>2
    <3>2. f[i + 1] = g[i + 1]
      BY <1>a, <1>3, <3>1
    <3>3. WholeBlock(n, i, hi) => f[BlockEnd(n, BlockOf(n, i)) + 1] = g[BlockEnd(n, BlockOf(n, i)) + 1]
      BY <1>a, <1>3, <3>1
    <3> QED
      BY <2>2, <3>2, <3>3 DEF SqrtAddFrom
  <2> QED
    BY <2>1, <2>2
<1>4. Recursive(D, X, mu, h)
  <2>1. X # {}
    BY [u \in S |-> u] \in X
  <2> HIDE DEF mu, h, D, X
  <2> QED
    BY <1>1, <1>2, <1>3, <2>1 DEF Recursive
<1> HIDE DEF mu, h, D, X
<1>5. PICK g \in [D -> X] : g = h[g]
  BY <1>4, Recursion
<1>6. g = F(g)
  BY <1>5 DEF SqrtAddFrom, h, CellUp, BlockUp
<1>7. SqrtAdd(s, n, lo, hi, d) = G[lo][s]
  BY DEF SqrtAdd, D
<1> HIDE DEF F
<1>8. G = F(G)
  BY <1>6
<1> HIDE DEF G
<1>9. \A i \in D : G[i] = [u \in S |-> SqrtAddFrom(n, hi, d, G, i, u)]
  BY <1>8 DEF F, SqrtAddFrom, CellUp, BlockUp
<1>10. \A i \in D, u \in S : G[i][u] = SqrtAddFrom(n, hi, d, G, i, u)
  BY <1>9
<1> QED
  BY <1>7, <1>10 DEF D

(* A range added to, in the structure and in the array.                      *)
LEMMA SqrtAddHolds ==
    ASSUME NEW n, NEW s, NEW c, SqrtHolds(s, n, c),
           NEW lo \in 0..(n - 1), NEW hi \in lo..(n - 1), NEW d \in Int
    PROVE  SqrtHolds(SqrtAdd(s, n, lo, hi, d), n, Increased(n, c, lo, hi, d))
<1>0. n \in Nat \ {0} /\ s \in SqrtState(n) /\ c \in [0..(n - 1) -> Int]
  BY DEF SqrtHolds
<1>1. PICK g : /\ SqrtAdd(s, n, lo, hi, d) = g[lo][s]
               /\ \A i \in lo..(hi + 1), u \in SqrtState(n) : g[i][u] = SqrtAddFrom(n, hi, d, g, i, u)
  BY <1>0, SqrtAddUnfolds
<1> DEFINE D == lo..(hi + 1)
           S == SqrtState(n)
           C == [0..(n - 1) -> Int]
           mu == [i \in D |-> hi + 1 - i]
           T == {i \in D : \A u \in S, b \in C :
                    SqrtHolds(u, n, b) => SqrtHolds(g[i][u], n, Increased(n, b, i, hi, d))}
<1>2. mu \in [D -> Nat] /\ \A x, y \in D : x > y => mu[x] < mu[y]
  OBVIOUS
<1>b. \A i \in D : i = hi + 1 \/ (i \in lo..hi /\ ~(i > hi))
  OBVIOUS
<1>c. \A b \in C, x, y \in Int : Increased(n, b, x, y, d) \in C
  BY <1>0 DEF Increased
<1>3. ASSUME NEW i \in D, \A j \in D : mu[j] < mu[i] => j \in T PROVE i \in T
  <2> SUFFICES ASSUME NEW u \in S, NEW b \in C, SqrtHolds(u, n, b)
               PROVE  SqrtHolds(g[i][u], n, Increased(n, b, i, hi, d))
    OBVIOUS
  <2>0. g[i][u] = SqrtAddFrom(n, hi, d, g, i, u)
    BY <1>1
  <2>1. CASE i = hi + 1
    <3>1. g[i][u] = u
      BY <2>0, <2>1 DEF SqrtAddFrom
    <3>2. Increased(n, b, i, hi, d) = b
      <4>1. \A j \in 0..(n - 1) : Increased(n, b, i, hi, d)[j] = b[j]
        BY <1>0, <2>1 DEF Increased
      <4>2. DOMAIN Increased(n, b, i, hi, d) = 0..(n - 1)
        BY DEF Increased
      <4> QED
        BY <4>1, <4>2 DEF Increased
    <3> QED
      BY <3>1, <3>2
  <2>2. CASE i # hi + 1
    <3>1. i \in lo..hi /\ ~(i > hi)
      BY <1>b, <2>2
    <3>2. /\ i + 1 \in D /\ i + 1 > i /\ BlockOf(n, i) \in Blocks(n) /\ i \in 0..(n - 1)
          /\ WholeBlock(n, i, hi) =>
                 /\ BlockStart(n, BlockOf(n, i)) = i
                 /\ BlockEnd(n, BlockOf(n, i)) \in i..hi
                 /\ BlockEnd(n, BlockOf(n, i)) + 1 \in D
                 /\ BlockEnd(n, BlockOf(n, i)) + 1 > i
      BY <1>0, <3>1, Steps
    <3>3. \A j \in D : j > i => j \in T
      <4> HIDE DEF mu, D, T
      <4> QED
        BY <1>2, <1>3
    <3>4. ASSUME NEW e \in i..hi, e + 1 \in D PROVE Increased(n, Increased(n, b, i, e, d), e + 1, hi, d) = Increased(n, b, i, hi, d)
      <4>1. i \in Int /\ hi \in Int
        BY <3>1
      <4> QED
        BY <1>0, <4>1, RaisedOn
    <3>5. CASE WholeBlock(n, i, hi)
      <4>1. PICK k \in Blocks(n) : k = BlockOf(n, i)
        BY <3>2
      <4>2. PICK e \in i..hi : e = BlockEnd(n, k) /\ e + 1 \in D /\ e + 1 > i
        BY <3>2, <3>5, <4>1
      <4>3. SqrtHolds(BlockUp(u, k, d), n, Increased(n, b, i, e, d))
        BY <3>2, <3>5, <4>1, <4>2, BlockUpHolds
      <4>4. BlockUp(u, k, d) \in S /\ Increased(n, b, i, e, d) \in C
        BY <4>3 DEF SqrtHolds
      <4>5. SqrtHolds(g[e + 1][BlockUp(u, k, d)], n, Increased(n, Increased(n, b, i, e, d), e + 1, hi, d))
        <5>1. e + 1 \in T
          BY <3>3, <4>2
        <5> HIDE DEF S, C, D, mu
        <5> QED
          BY <4>3, <4>4, <5>1
      <4>6. g[i][u] = g[e + 1][BlockUp(u, k, d)]
        BY <2>0, <3>1, <3>5, <4>1, <4>2 DEF SqrtAddFrom
      <4> HIDE DEF D
      <4> QED
        BY <3>4, <4>2, <4>5, <4>6
    <3>6. CASE ~WholeBlock(n, i, hi)
      <4>1. SqrtHolds(CellUp(u, n, i, d), n, Increased(n, b, i, i, d))
        BY <3>2, CellUpHolds
      <4>2. CellUp(u, n, i, d) \in S /\ Increased(n, b, i, i, d) \in C
        BY <4>1 DEF SqrtHolds
      <4>3. SqrtHolds(g[i + 1][CellUp(u, n, i, d)], n, Increased(n, Increased(n, b, i, i, d), i + 1, hi, d))
        <5>1. i + 1 \in T
          BY <3>2, <3>3
        <5> HIDE DEF S, C, D, mu
        <5> QED
          BY <4>1, <4>2, <5>1
      <4>4. g[i][u] = g[i + 1][CellUp(u, n, i, d)]
        BY <2>0, <3>1, <3>6 DEF SqrtAddFrom
      <4>5. i \in i..hi
        BY <3>1
      <4> HIDE DEF D
      <4> QED
        BY <3>2, <3>4, <4>3, <4>4, <4>5
    <3> QED
      BY <3>5, <3>6
  <2> QED
    BY <2>1, <2>2
<1>4. \A i \in D : i \in T
  <2> HIDE DEF mu, D, T
  <2> QED
    BY <1>2, <1>3, ByMeasure
<1>5. lo \in D
  OBVIOUS
<1> QED
  BY <1>0, <1>1, <1>4, <1>5

(* update sets one cell by raising it by what it lacks.                      *)
LEMMA SqrtSetHolds ==
    ASSUME NEW n, NEW s, NEW c, SqrtHolds(s, n, c), NEW i \in 0..(n - 1), NEW v \in Int
    PROVE  SqrtHolds(SqrtSet(s, n, i, v), n, [j \in 0..(n - 1) |-> IF j = i THEN v ELSE c[j]])
<1>0. /\ n \in Nat \ {0} /\ s \in SqrtState(n) /\ c \in [0..(n - 1) -> Int]
      /\ c[i] = s.a[i] + s.tag[BlockOf(n, i)]
  BY DEF SqrtHolds
<1>1. PICK d \in Int : d = v - c[i]
  BY <1>0, v - c[i] \in Int
<1>2. SqrtSet(s, n, i, v) = CellUp(s, n, i, d)
  BY <1>0, <1>1 DEF SqrtSet, CellUp
<1>3. Increased(n, c, i, i, d) = [j \in 0..(n - 1) |-> IF j = i THEN v ELSE c[j]]
  BY <1>0, <1>1 DEF Increased
<1> QED
  BY <1>1, <1>2, <1>3, CellUpHolds

(* As built, the structure holds its array.                                  *)
LEMMA SqrtBuiltHolds ==
    ASSUME NEW n \in Nat \ {0}, NEW c \in [0..(n - 1) -> Int]
    PROVE  SqrtHolds(SqrtBuilt(c), n, c)
<1> DEFINE s == SqrtBuilt(c)
<1>1. Size(c) = n
  BY SizeOfRange, n - 1 \in Int, 0 \in Int, 0 <= (n - 1) + 1, (n - 1) - 0 + 1 = n, DOMAIN c = 0..(n - 1)
<1>2. /\ s.a = c /\ s.tag = [b \in Blocks(n) |-> 0]
      /\ s.sum = [b \in Blocks(n) |-> SumOf(c, BlockStart(n, b), BlockEnd(n, b))]
      /\ s = [a |-> s.a, tag |-> s.tag, sum |-> s.sum]
  BY <1>1 DEF SqrtBuilt, BlockStart
<1>3. ASSUME NEW b \in Blocks(n) PROVE SumOf(c, BlockStart(n, b), BlockEnd(n, b)) \in Int
  <2>1. BlockStart(n, b) \in 0..(n - 1) /\ BlockEnd(n, b) \in BlockStart(n, b)..(n - 1)
    BY BlockRule
  <2>2. PICK lo \in Int, hi \in Int : /\ lo = BlockStart(n, b) /\ hi = BlockEnd(n, b)
                                      /\ lo <= hi + 1 /\ \A i \in lo..hi : c[i] \in Int
    BY <2>1
  <2> QED
    BY <2>2, SumInt
<1>4. \A i \in 0..(n - 1) : BlockOf(n, i) \in Blocks(n) /\ c[i] = c[i] + 0
  BY BlockRule
<1> HIDE DEF s
<1>5. s \in SqrtState(n)
  BY <1>2, <1>3 DEF SqrtState
<1> QED
  BY <1>2, <1>4, <1>5 DEF SqrtHolds, s

-----------------------------------------------------------------------------
(* Trees over halves of the cells.                                           *)

SpanOf(n, v) == v[1] \in 0..(n - 1) /\ v[2] \in 0..(n - 1) /\ v[1] <= v[2] /\ v = <<v[1], v[2]>>

(* A node and its halves.                                                    *)
LEMMA SpanRule ==
    ASSUME NEW n \in Nat \ {0}, NEW v \in Spans(n)
    PROVE  /\ v[1] \in 0..(n - 1) /\ v[2] \in 0..(n - 1) /\ v[1] <= v[2] /\ v = <<v[1], v[2]>>
           /\ v[1] # v[2] =>
                 /\ Mid(v) \in v[1]..(v[2] - 1)
                 /\ LeftHalf(v) \in Spans(n) /\ LeftHalf(v)[1] = v[1] /\ LeftHalf(v)[2] = Mid(v)
                 /\ RightHalf(v) \in Spans(n) /\ RightHalf(v)[1] = Mid(v) + 1 /\ RightHalf(v)[2] = v[2]
<1>1. v[1] \in 0..(n - 1) /\ v[2] \in 0..(n - 1) /\ v[1] <= v[2] /\ v = <<v[1], v[2]>>
  BY DEF Spans
<1>2. ASSUME v[1] # v[2]
      PROVE  /\ Mid(v) \in v[1]..(v[2] - 1)
             /\ LeftHalf(v) \in Spans(n) /\ LeftHalf(v)[1] = v[1] /\ LeftHalf(v)[2] = Mid(v)
             /\ RightHalf(v) \in Spans(n) /\ RightHalf(v)[1] = Mid(v) + 1 /\ RightHalf(v)[2] = v[2]
  <2>1. PICK l \in 0..(n - 1), r \in 0..(n - 1) : l = v[1] /\ r = v[2] /\ l < r
    BY <1>1, <1>2
  <2>2. PICK m \in Int : m = (l + r) \div 2 /\ l <= m /\ m < r
    BY <2>1, (l + r) \div 2 \in Int
  <2>3. Mid(v) = m
    BY <2>1, <2>2 DEF Mid
  <2>4. LeftHalf(v) = <<l, m>> /\ RightHalf(v) = <<m + 1, r>>
    BY <2>1, <2>3 DEF LeftHalf, RightHalf
  <2>5. m \in 0..(n - 1) /\ m + 1 \in 0..(n - 1) /\ l <= m /\ m + 1 <= r
    BY <2>1, <2>2
  <2>6. <<l, m>> \in Spans(n) /\ <<m + 1, r>> \in Spans(n)
    BY <2>5 DEF Spans
  <2> QED
    BY <2>1, <2>2, <2>3, <2>4, <2>6
<1> QED
  BY <1>1, <1>2

RootOf(n) == <<0, n - 1>>

(* The root covers all cells.                                                *)
LEMMA RootIsSpan ==
    ASSUME NEW n \in Nat \ {0}
    PROVE  RootOf(n) \in Spans(n) /\ RootOf(n)[1] = 0 /\ RootOf(n)[2] = n - 1
BY DEF RootOf, Spans

SpanSize(n) == [v \in Spans(n) |-> v[2] - v[1]]

(* The halves of a node are narrower than it.                                *)
LEMMA Narrower ==
    ASSUME NEW n \in Nat \ {0}
    PROVE  /\ SpanSize(n) \in [Spans(n) -> Nat]
           /\ \A v \in Spans(n) : v[1] # v[2] => /\ SpanSize(n)[LeftHalf(v)] < SpanSize(n)[v]
                                                 /\ SpanSize(n)[RightHalf(v)] < SpanSize(n)[v]
<1>1. \A v \in Spans(n) : v[2] - v[1] \in Nat
  BY SpanRule
<1>2. ASSUME NEW v \in Spans(n), v[1] # v[2]
      PROVE  SpanSize(n)[LeftHalf(v)] < SpanSize(n)[v] /\ SpanSize(n)[RightHalf(v)] < SpanSize(n)[v]
  BY <1>2, SpanRule DEF SpanSize
<1> QED
  BY <1>1, <1>2 DEF SpanSize

(* Induction down the halves.                                                *)
LEMMA BySpans ==
    ASSUME NEW n \in Nat \ {0}, NEW T,
           \A v \in Spans(n) : (v[1] # v[2] => LeftHalf(v) \in T /\ RightHalf(v) \in T) => v \in T
    PROVE  \A v \in Spans(n) : v \in T
<1> DEFINE D == Spans(n)
           mu == SpanSize(n)
<1>1. mu \in [D -> Nat]
  BY Narrower
<1>2. ASSUME NEW v \in D, \A w \in D : mu[w] < mu[v] => w \in T PROVE v \in T
  <2>1. ASSUME v[1] # v[2] PROVE LeftHalf(v) \in T /\ RightHalf(v) \in T
    BY <1>2, <2>1, Narrower, SpanRule
  <2> QED
    BY <2>1
<1>3. \A v \in D : v \in T
  <2> HIDE DEF D, mu
  <2> QED
    BY <1>1, <1>2, ByMeasure
<1> QED
  BY <1>3

-----------------------------------------------------------------------------
PathFrom(i, g, v) == IF v[1] = v[2] THEN {v} ELSE {v} \cup g[Toward(v, i)]

(* The half on the way to a cell is a node.                                  *)
LEMMA TowardIsSpan ==
    ASSUME NEW n \in Nat \ {0}, NEW v \in Spans(n), v[1] # v[2], NEW i
    PROVE  Toward(v, i) \in Spans(n) /\ SpanSize(n)[Toward(v, i)] < SpanSize(n)[v]
BY SpanRule, Narrower DEF Toward

(* RouteTo is its own recursion.                                             *)
LEMMA PathUnfolds ==
    ASSUME NEW n \in Nat \ {0}, NEW i
    PROVE  \E g : RouteTo(n, i) = g[RootOf(n)] /\ \A v \in Spans(n) : g[v] = PathFrom(i, g, v)
<1> DEFINE D == Spans(n)
           X == SUBSET Spans(n)
           mu == SpanSize(n)
           h == [g \in [D -> X] |-> [v \in D |-> PathFrom(i, g, v)]]
           F(path) == [v \in D |-> IF v[1] = v[2] THEN {v} ELSE {v} \cup path[Toward(v, i)]]
           G == CHOOSE g : g = F(g)
<1>1. mu \in [D -> Nat]
  BY Narrower
<1>2. h \in [[D -> X] -> [D -> X]]
  <2> SUFFICES ASSUME NEW g \in [D -> X], NEW v \in D PROVE PathFrom(i, g, v) \in X
    OBVIOUS
  <2> QED
    BY TowardIsSpan DEF PathFrom
<1>3. ASSUME NEW f \in [D -> X], NEW g \in [D -> X], NEW v \in D, \A e \in D : mu[e] < mu[v] => f[e] = g[e]
      PROVE  h[f][v] = h[g][v]
  BY <1>3, TowardIsSpan DEF PathFrom
<1>4. Recursive(D, X, mu, h)
  <2>1. X # {}
    OBVIOUS
  <2> HIDE DEF mu, h, D, X
  <2> QED
    BY <1>1, <1>2, <1>3, <2>1 DEF Recursive
<1> HIDE DEF mu, h, D, X
<1>5. PICK g \in [D -> X] : g = h[g]
  BY <1>4, Recursion
<1>6. g = F(g)
  BY <1>5 DEF PathFrom, h
<1>7. RouteTo(n, i) = G[RootOf(n)]
  BY DEF RouteTo, D, RootOf
<1> HIDE DEF F
<1>8. G = F(G)
  BY <1>6
<1> HIDE DEF G
<1>9. \A v \in D : G[v] = PathFrom(i, G, v)
  BY <1>8 DEF F, PathFrom
<1> QED
  BY <1>7, <1>9 DEF D

Has(v, i) == v[1] <= i /\ i <= v[2]

(* The half on the way to a cell has that cell.                              *)
LEMMA TowardHas ==
    ASSUME NEW n \in Nat \ {0}, NEW v \in Spans(n), v[1] # v[2], NEW i \in Int, Has(v, i)
    PROVE  /\ Has(Toward(v, i), i)
           /\ v[1] <= Toward(v, i)[1] /\ Toward(v, i)[2] <= v[2]
           /\ \A j \in Int : Has(Toward(v, i), j) => Toward(v, j) = Toward(v, i)
<1>1. /\ v[1] \in Int /\ v[2] \in Int /\ Mid(v) \in v[1]..(v[2] - 1)
      /\ LeftHalf(v)[1] = v[1] /\ LeftHalf(v)[2] = Mid(v)
      /\ RightHalf(v)[1] = Mid(v) + 1 /\ RightHalf(v)[2] = v[2]
  BY SpanRule
<1>2. CASE i <= Mid(v)
  BY <1>1, <1>2 DEF Toward, Has
<1>3. CASE ~(i <= Mid(v))
  <2>1. Toward(v, i) = RightHalf(v)
    BY <1>3 DEF Toward
  <2>2. \A j \in Int : Has(RightHalf(v), j) => Toward(v, j) = RightHalf(v)
    BY <1>1 DEF Toward, Has
  <2> QED
    BY <1>1, <1>3, <2>1, <2>2 DEF Has
<1> QED
  BY <1>2, <1>3

(* What the nodes on the way to a cell are.                                  *)
LEMMA OnTheWay ==
    ASSUME NEW n \in Nat \ {0}, NEW i \in 0..(n - 1), NEW u \in RouteTo(n, i)
    PROVE  u \in Spans(n) /\ Has(u, i) /\ (u[1] # u[2] => Toward(u, i) \in RouteTo(n, i))
<1>1. PICK g : RouteTo(n, i) = g[RootOf(n)] /\ \A v \in Spans(n) : g[v] = PathFrom(i, g, v)
  BY PathUnfolds
<1>2. \A v \in Spans(n) : v \in g[v]
  BY <1>1 DEF PathFrom
<1> DEFINE T == {v \in Spans(n) : Has(v, i) =>
                    \A w \in g[v] : /\ w \in Spans(n) /\ Has(w, i)
                                    /\ w[1] # w[2] => Toward(w, i) \in g[v]}
<1>3. ASSUME NEW v \in Spans(n), v[1] # v[2] => LeftHalf(v) \in T /\ RightHalf(v) \in T PROVE v \in T
  <2> SUFFICES ASSUME Has(v, i), NEW w \in g[v]
               PROVE  w \in Spans(n) /\ Has(w, i) /\ (w[1] # w[2] => Toward(w, i) \in g[v])
    OBVIOUS
  <2>1. CASE v[1] = v[2]
    BY <1>1, <2>1 DEF PathFrom
  <2>2. CASE v[1] # v[2]
    <3>1. g[v] = {v} \cup g[Toward(v, i)]
      BY <1>1, <2>2 DEF PathFrom
    <3>2. Toward(v, i) \in T /\ Has(Toward(v, i), i) /\ Toward(v, i) \in Spans(n)
      BY <1>3, <2>2, TowardHas, TowardIsSpan DEF Toward
    <3>3. CASE w = v
      BY <1>2, <3>1, <3>2, <3>3
    <3>4. CASE w \in g[Toward(v, i)]
      BY <3>1, <3>2, <3>4
    <3> QED
      BY <3>1, <3>3, <3>4
  <2> QED
    BY <2>1, <2>2
<1>4. \A v \in Spans(n) : v \in T
  <2> HIDE DEF T
  <2> QED
    BY <1>3, BySpans
<1>5. RootOf(n) \in Spans(n) /\ Has(RootOf(n), i)
  BY RootIsSpan DEF Has
<1>6. RootOf(n) \in T
  BY <1>4, <1>5
<1> QED
  BY <1>1, <1>5, <1>6

(* The root is, and so is the next of each of them.                          *)
LEMMA PathRule ==
    ASSUME NEW n \in Nat \ {0}, NEW i \in 0..(n - 1)
    PROVE  /\ RootOf(n) \in RouteTo(n, i)
           /\ \A v \in RouteTo(n, i) : /\ v \in Spans(n) /\ Has(v, i)
                                      /\ v[1] # v[2] => Toward(v, i) \in RouteTo(n, i)
<1>1. PICK g : RouteTo(n, i) = g[RootOf(n)] /\ \A v \in Spans(n) : g[v] = PathFrom(i, g, v)
  BY PathUnfolds
<1>2. RootOf(n) \in Spans(n)
  BY RootIsSpan
<1>3. RootOf(n) \in g[RootOf(n)]
  BY <1>1, <1>2 DEF PathFrom
<1> QED
  BY <1>1, <1>3, OnTheWay

(* A node is on the way to each of its cells.                                *)
OnTree(n, v) == \A j \in 0..(n - 1) : Has(v, j) => v \in RouteTo(n, j)

(* A node on the way to one of its cells is on the way to all of them.       *)
LEMMA PathsShare ==
    ASSUME NEW n \in Nat \ {0}, NEW i \in 0..(n - 1), NEW v \in RouteTo(n, i)
    PROVE  OnTree(n, v)
<1> SUFFICES ASSUME NEW j \in 0..(n - 1), Has(v, j) PROVE v \in RouteTo(n, j)
  BY DEF OnTree
<1>1. PICK g : RouteTo(n, i) = g[RootOf(n)] /\ \A u \in Spans(n) : g[u] = PathFrom(i, g, u)
  BY PathUnfolds
<1>2. PICK f : RouteTo(n, j) = f[RootOf(n)] /\ \A u \in Spans(n) : f[u] = PathFrom(j, f, u)
  BY PathUnfolds
<1> DEFINE T == {u \in Spans(n) : Has(u, i) => \A w \in g[u] :
                    w \in Spans(n) /\ u[1] <= w[1] /\ w[2] <= u[2] /\ (Has(w, j) => w \in f[u])}
<1>3. ASSUME NEW u \in Spans(n), u[1] # u[2] => LeftHalf(u) \in T /\ RightHalf(u) \in T PROVE u \in T
  <2> SUFFICES ASSUME Has(u, i), NEW w \in g[u]
               PROVE  w \in Spans(n) /\ u[1] <= w[1] /\ w[2] <= u[2] /\ (Has(w, j) => w \in f[u])
    OBVIOUS
  <2>0. u[1] \in Int /\ u[2] \in Int /\ u \in f[u]
    <3>1. u[1] \in Int /\ u[2] \in Int
      BY SpanRule
    <3>2. u \in f[u]
      BY <1>2 DEF PathFrom
    <3> QED
      BY <3>1, <3>2
  <2>1. CASE w = u
    BY <2>0, <2>1
  <2>2. CASE w # u
    <3>1. u[1] # u[2] /\ w \in g[Toward(u, i)]
      BY <1>1, <2>2 DEF PathFrom
    <3> DEFINE x == Toward(u, i)
    <3>2. /\ x \in T /\ x \in Spans(n) /\ Has(x, i) /\ u[1] <= x[1] /\ x[2] <= u[2]
          /\ \A k \in Int : Has(x, k) => Toward(u, k) = x
      BY <1>3, <3>1, TowardHas, TowardIsSpan DEF Toward
    <3> HIDE DEF x
    <3>3. w \in Spans(n) /\ x[1] <= w[1] /\ w[2] <= x[2] /\ (Has(w, j) => w \in f[x])
      BY <3>1, <3>2 DEF x
    <3>4. w[1] \in Int /\ w[2] \in Int /\ x[1] \in Int /\ x[2] \in Int
      BY <3>2, <3>3, SpanRule
    <3>5. ASSUME Has(w, j) PROVE w \in f[u]
      <4>1. Has(x, j)
        BY <3>3, <3>4, <3>5 DEF Has
      <4>2. Toward(u, j) = x
        BY <3>2, <4>1
      <4> QED
        BY <1>2, <3>1, <3>3, <3>5, <4>2 DEF PathFrom
    <3> QED
      BY <2>0, <3>2, <3>3, <3>4, <3>5
  <2> QED
    BY <2>1, <2>2
<1>4. \A u \in Spans(n) : u \in T
  <2> HIDE DEF T
  <2> QED
    BY <1>3, BySpans
<1>5. RootOf(n) \in Spans(n) /\ Has(RootOf(n), i)
  BY RootIsSpan DEF Has
<1> QED
  BY <1>1, <1>2, <1>4, <1>5

-----------------------------------------------------------------------------
(* Sparse tree: the nodes there are, every cell that is not zero among them. *)

Agree(b, c, lo, hi) == lo <= hi + 1 /\ \A i \in lo..hi : c[i] \in Int /\ b[i] = c[i]

(* Agreement on a range, as one fact.                                        *)
LEMMA SumAgrees ==
    ASSUME NEW lo \in Int, NEW hi \in Int, NEW b, NEW c, Agree(b, c, lo, hi)
    PROVE  SumOf(b, lo, hi) = SumOf(c, lo, hi) /\ SumOf(c, lo, hi) \in Int
<1>1. lo <= hi + 1 /\ (\A i \in lo..hi : c[i] \in Int) /\ \A i \in lo..hi : b[i] = c[i]
  BY DEF Agree
<1> QED
  BY <1>1, SumSame, SumInt

(* The nodes there are hold what their cells sum to, and no node is missing  *)
(* on the way to a cell that holds something.                                *)
SparseHolds(t, n, c) ==
    /\ n \in Nat \ {0} /\ c \in [0..(n - 1) -> Int] /\ t \in [DOMAIN t -> Int]
    /\ \A v \in DOMAIN t : v \in Spans(n) /\ OnTree(n, v) /\ t[v] = SumOf(c, v[1], v[2])
    /\ \A i \in 0..(n - 1) : c[i] # 0 => RouteTo(n, i) \subseteq DOMAIN t

(* The sum of a node's cells, from its halves.                               *)
LEMMA SpanSum ==
    ASSUME NEW n \in Nat \ {0}, NEW c \in [0..(n - 1) -> Int], NEW v \in Spans(n)
    PROVE  /\ SumOf(c, v[1], v[2]) \in Int
           /\ (\A i \in 0..(n - 1) : Has(v, i) => c[i] = 0) => SumOf(c, v[1], v[2]) = 0
           /\ v[1] = v[2] => SumOf(c, v[1], v[2]) = c[v[1]]
           /\ v[1] # v[2] => SumOf(c, v[1], v[2]) = SumOf(c, LeftHalf(v)[1], LeftHalf(v)[2])
                                                    + SumOf(c, RightHalf(v)[1], RightHalf(v)[2])
<1>1. PICK l \in Int, r \in Int : l = v[1] /\ r = v[2] /\ 0 <= l /\ l <= r /\ r <= n - 1
  BY SpanRule
<1>2. (\A i \in l..r : c[i] \in Int) /\ l <= r + 1
  BY <1>1
<1>3. SumOf(c, l, r) \in Int
  BY <1>2, SumInt
<1>4. ASSUME \A i \in 0..(n - 1) : Has(v, i) => c[i] = 0 PROVE SumOf(c, l, r) = 0
  <2>1. \A i \in l..r : c[i] = 0
    BY <1>1, <1>4 DEF Has
  <2>2. SumOf(c, l, r) = 0 * (r + 1 - l)
    BY <1>2, <2>1, SumConstant
  <2> QED
    BY <2>2
<1>5. ASSUME l = r PROVE SumOf(c, l, r) = c[l]
  <2>1. c[l] \in Int
    BY <1>1, <1>2
  <2>2. SumOf(c, l, l) = c[l]
    BY <2>1, SumOne
  <2> QED
    BY <1>5, <2>2
<1>6. ASSUME l # r
      PROVE  SumOf(c, l, r) = SumOf(c, LeftHalf(v)[1], LeftHalf(v)[2]) + SumOf(c, RightHalf(v)[1], RightHalf(v)[2])
  <2>1. /\ Mid(v) \in l..(r - 1)
        /\ LeftHalf(v)[1] = l /\ LeftHalf(v)[2] = Mid(v) /\ RightHalf(v)[1] = Mid(v) + 1 /\ RightHalf(v)[2] = r
    BY <1>1, <1>6, SpanRule
  <2>2. Mid(v) \in Int /\ l <= Mid(v) + 1 /\ Mid(v) <= r
    BY <2>1
  <2>3. SumOf(c, l, r) = SumOf(c, l, Mid(v)) + SumOf(c, Mid(v) + 1, r)
    BY <1>2, <2>2, SumSplits
  <2> QED
    BY <2>1, <2>3
<1> QED
  BY <1>1, <1>3, <1>4, <1>5, <1>6

(* Where a node is missing its cells are zero.                               *)
LEMMA NothingThere ==
    ASSUME NEW n, NEW t, NEW c, SparseHolds(t, n, c), NEW v \in Spans(n), OnTree(n, v), v \notin DOMAIN t
    PROVE  (\A i \in 0..(n - 1) : Has(v, i) => c[i] = 0) /\ SumOf(c, v[1], v[2]) = 0
<1>1. \A i \in 0..(n - 1) : Has(v, i) => c[i] = 0
  BY DEF SparseHolds, OnTree
<1>2. n \in Nat \ {0} /\ c \in [0..(n - 1) -> Int]
  BY DEF SparseHolds
<1> QED
  BY <1>1, <1>2, SpanSum

(* Adding to a cell makes the nodes on its way, and keeps the sums.          *)
LEMMA SparseAddHolds ==
    ASSUME NEW n, NEW t, NEW c, SparseHolds(t, n, c), NEW i \in 0..(n - 1), NEW d \in Int
    PROVE  SparseHolds(SparseAdd(t, n, i, d), n, [j \in 0..(n - 1) |-> IF j = i THEN c[j] + d ELSE c[j]])
<1> DEFINE b == [j \in 0..(n - 1) |-> IF j = i THEN c[j] + d ELSE c[j]]
           u == SparseAdd(t, n, i, d)
<1>0. n \in Nat \ {0} /\ c \in [0..(n - 1) -> Int] /\ t \in [DOMAIN t -> Int]
  BY DEF SparseHolds
<1>1. b \in [0..(n - 1) -> Int]
  BY <1>0
<1>2. /\ DOMAIN u = DOMAIN t \cup RouteTo(n, i)
      /\ \A v \in DOMAIN u : u[v] = (IF v \in DOMAIN t THEN t[v] ELSE 0) + (IF v \in RouteTo(n, i) THEN d ELSE 0)
  BY DEF SparseAdd
<1>3. u \in [DOMAIN u -> Int]
  <2>1. \A v \in DOMAIN u : u[v] \in Int
    <3> HIDE DEF u
    <3> QED
      BY <1>0, <1>2
  <2>2. u = [v \in DOMAIN u |-> u[v]]
    BY DEF SparseAdd
  <2> HIDE DEF u
  <2> QED
    BY <2>1, <2>2
<1>4. \A j \in 0..(n - 1) : b[j] # 0 => RouteTo(n, j) \subseteq DOMAIN u
  <2> SUFFICES ASSUME NEW j \in 0..(n - 1), b[j] # 0 PROVE RouteTo(n, j) \subseteq DOMAIN u
    OBVIOUS
  <2>1. j = i \/ c[j] # 0
    OBVIOUS
  <2> QED
    BY <1>2, <2>1 DEF SparseHolds
<1>5. ASSUME NEW v \in DOMAIN u PROVE v \in Spans(n) /\ OnTree(n, v) /\ u[v] = SumOf(b, v[1], v[2])
  <2>1. v \in Spans(n) /\ OnTree(n, v)
    <3>1. CASE v \in DOMAIN t
      BY <3>1 DEF SparseHolds
    <3>2. CASE v \in RouteTo(n, i)
      <4>1. v \in Spans(n)
        BY <1>0, <3>2, OnTheWay
      <4>2. OnTree(n, v)
        BY <1>0, <3>2, PathsShare
      <4> QED
        BY <4>1, <4>2
    <3> QED
      BY <1>2, <3>1, <3>2
  <2>2. SumOf(c, v[1], v[2]) = IF v \in DOMAIN t THEN t[v] ELSE 0
    <3>1. CASE v \in DOMAIN t
      BY <3>1 DEF SparseHolds
    <3>2. CASE v \notin DOMAIN t
      <4>1. SumOf(c, v[1], v[2]) = 0
        BY <2>1, <3>2, NothingThere
      <4> QED
        BY <3>2, <4>1
    <3> QED
      BY <3>1, <3>2
  <2>3. v \in RouteTo(n, i) <=> Has(v, i)
    <3>1. v \in RouteTo(n, i) => Has(v, i)
      BY <1>0, OnTheWay
    <3> QED
      BY <1>0, <2>1, <3>1 DEF OnTree
  <2>4. SumOf(b, v[1], v[2]) = SumOf(c, v[1], v[2]) + IF v[1] <= i /\ i <= v[2] THEN d ELSE 0
    <3>1. PICK l \in Int, r \in Int : l = v[1] /\ r = v[2] /\ 0 <= l /\ l <= r /\ r <= n - 1
      BY <1>0, <2>1, SpanRule
    <3>2. DiffersAt(b, c, l, r, i, d)
      BY <1>0, <3>1 DEF DiffersAt
    <3> HIDE DEF b
    <3>3. SumOf(b, l, r) = SumOf(c, l, r) + IF l <= i /\ i <= r THEN d ELSE 0
      BY <1>0, <3>2, SumPoint
    <3> QED
      BY <3>1, <3>3
  <2>5. u[v] = (IF v \in DOMAIN t THEN t[v] ELSE 0) + (IF v \in RouteTo(n, i) THEN d ELSE 0)
    BY <1>2
  <2> HIDE DEF b, u
  <2> QED
    BY <2>1, <2>2, <2>3, <2>4, <2>5 DEF Has
<1> HIDE DEF b, u
<1>6. SparseHolds(u, n, b)
  BY <1>0, <1>1, <1>3, <1>4, <1>5 DEF SparseHolds
<1> QED
  BY <1>6 DEF b, u

(* No nodes hold cells that are zero.                                        *)
LEMMA NothingHolds ==
    ASSUME NEW n \in Nat \ {0}, NEW c \in [0..(n - 1) -> Int], \A i \in 0..(n - 1) : c[i] = 0
    PROVE  SparseHolds([v \in {} |-> 0], n, c)
BY DEF SparseHolds

-----------------------------------------------------------------------------
PointFrom(t, i, g, v) ==
    IF v \notin DOMAIN t THEN 0 ELSE IF v[1] = v[2] THEN t[v] ELSE g[Toward(v, i)]

(* SparsePoint is its own recursion.                                         *)
LEMMA PointUnfolds ==
    ASSUME NEW n \in Nat \ {0}, NEW i, NEW t, t \in [DOMAIN t -> Int]
    PROVE  \E g : SparsePoint(t, n, i) = g[RootOf(n)] /\ \A v \in Spans(n) : g[v] = PointFrom(t, i, g, v)
<1> DEFINE D == Spans(n)
           mu == SpanSize(n)
           h == [g \in [D -> Int] |-> [v \in D |-> PointFrom(t, i, g, v)]]
           F(at) == [v \in D |-> IF v \notin DOMAIN t THEN 0 ELSE IF v[1] = v[2] THEN t[v] ELSE at[Toward(v, i)]]
           G == CHOOSE g : g = F(g)
<1>1. mu \in [D -> Nat]
  BY Narrower
<1>2. h \in [[D -> Int] -> [D -> Int]]
  <2> SUFFICES ASSUME NEW g \in [D -> Int], NEW v \in D PROVE PointFrom(t, i, g, v) \in Int
    OBVIOUS
  <2> QED
    BY TowardIsSpan DEF PointFrom
<1>3. ASSUME NEW f \in [D -> Int], NEW g \in [D -> Int], NEW v \in D, \A e \in D : mu[e] < mu[v] => f[e] = g[e]
      PROVE  h[f][v] = h[g][v]
  BY <1>3, TowardIsSpan DEF PointFrom
<1>4. Recursive(D, Int, mu, h)
  <2> HIDE DEF mu, h, D
  <2>1. Int # {}
    BY 0 \in Int
  <2> QED
    BY <1>1, <1>2, <1>3, <2>1 DEF Recursive
<1> HIDE DEF mu, h, D
<1>5. PICK g \in [D -> Int] : g = h[g]
  BY <1>4, Recursion
<1>6. g = F(g)
  BY <1>5 DEF PointFrom, h
<1>7. SparsePoint(t, n, i) = G[RootOf(n)]
  BY DEF SparsePoint, D, RootOf
<1> HIDE DEF F
<1>8. G = F(G)
  BY <1>6
<1> HIDE DEF G
<1>9. \A v \in D : G[v] = PointFrom(t, i, G, v)
  BY <1>8 DEF F, PointFrom
<1> QED
  BY <1>7, <1>9 DEF D

(* It finds the cell.                                                        *)
LEMMA PointIsCell ==
    ASSUME NEW n, NEW t, NEW c, SparseHolds(t, n, c), NEW i \in 0..(n - 1)
    PROVE  SparsePoint(t, n, i) = c[i]
<1>0. n \in Nat \ {0} /\ c \in [0..(n - 1) -> Int] /\ t \in [DOMAIN t -> Int]
  BY DEF SparseHolds
<1>1. PICK g : SparsePoint(t, n, i) = g[RootOf(n)] /\ \A v \in Spans(n) : g[v] = PointFrom(t, i, g, v)
  BY <1>0, PointUnfolds
<1> DEFINE T == {v \in Spans(n) : v \in RouteTo(n, i) => g[v] = c[i]}
<1>2. ASSUME NEW v \in Spans(n), v[1] # v[2] => LeftHalf(v) \in T /\ RightHalf(v) \in T PROVE v \in T
  <2> SUFFICES ASSUME v \in RouteTo(n, i) PROVE g[v] = c[i]
    OBVIOUS
  <2>1. OnTree(n, v) /\ Has(v, i) /\ (v[1] # v[2] => Toward(v, i) \in RouteTo(n, i)) /\ v[1] \in Int /\ v[2] \in Int
    <3>1. OnTree(n, v)
      BY <1>0, PathsShare
    <3>2. Has(v, i) /\ (v[1] # v[2] => Toward(v, i) \in RouteTo(n, i))
      BY <1>0, OnTheWay
    <3>3. v[1] \in Int /\ v[2] \in Int
      BY <1>0, SpanRule
    <3> QED
      BY <3>1, <3>2, <3>3
  <2>2. CASE v \notin DOMAIN t
    <3>1. c[i] = 0
      BY <2>1, <2>2, NothingThere
    <3> QED
      BY <1>1, <2>2, <3>1 DEF PointFrom
  <2>3. CASE v \in DOMAIN t /\ v[1] = v[2]
    <3>1. t[v] = SumOf(c, v[1], v[2]) /\ SumOf(c, v[1], v[2]) = c[v[1]]
      BY <1>0, <2>3, SpanSum DEF SparseHolds
    <3>2. v[1] = i
      BY <2>1, <2>3 DEF Has
    <3> QED
      BY <1>1, <2>3, <3>1, <3>2 DEF PointFrom
  <2>4. CASE v \in DOMAIN t /\ v[1] # v[2]
    <3>1. g[v] = g[Toward(v, i)]
      BY <1>1, <2>4 DEF PointFrom
    <3>2. Toward(v, i) \in T
      BY <1>2, <2>4 DEF Toward
    <3> QED
      BY <2>1, <2>4, <3>1, <3>2
  <2> QED
    BY <2>2, <2>3, <2>4
<1>3. \A v \in Spans(n) : v \in T
  <2> HIDE DEF T
  <2> QED
    BY <1>0, <1>2, BySpans
<1> QED
  BY <1>0, <1>1, <1>3, PathRule, RootIsSpan, SMTT(20)

-----------------------------------------------------------------------------
SumsFrom(t, lo, hi, g, v) ==
    IF v \notin DOMAIN t \/ Apart(v, lo, hi) THEN 0
    ELSE IF Within(v, lo, hi) THEN t[v]
    ELSE g[LeftHalf(v)] + g[RightHalf(v)]

(* A node that is partly in a range has halves.                              *)
LEMMA LeafApart ==
    ASSUME NEW n \in Nat \ {0}, NEW v \in Spans(n), NEW lo \in Int, NEW hi \in Int,
           ~Apart(v, lo, hi), ~Within(v, lo, hi)
    PROVE  v[1] # v[2]
BY SpanRule DEF Apart, Within

(* SparseSum is its own recursion.                                           *)
LEMMA SparseSumUnfolds ==
    ASSUME NEW n \in Nat \ {0}, NEW lo \in Int, NEW hi \in Int, NEW t, t \in [DOMAIN t -> Int]
    PROVE  \E g : SparseSum(t, n, lo, hi) = g[RootOf(n)] /\ \A v \in Spans(n) : g[v] = SumsFrom(t, lo, hi, g, v)
<1> DEFINE D == Spans(n)
           mu == SpanSize(n)
           h == [g \in [D -> Int] |-> [v \in D |-> SumsFrom(t, lo, hi, g, v)]]
           F(sum) == [v \in D |-> IF v \notin DOMAIN t \/ Apart(v, lo, hi) THEN 0
                                  ELSE IF Within(v, lo, hi) THEN t[v]
                                  ELSE sum[LeftHalf(v)] + sum[RightHalf(v)]]
           G == CHOOSE g : g = F(g)
<1>1. mu \in [D -> Nat]
  BY Narrower
<1>a. ASSUME NEW v \in D, ~Apart(v, lo, hi), ~Within(v, lo, hi)
      PROVE  /\ LeftHalf(v) \in D /\ RightHalf(v) \in D
             /\ mu[LeftHalf(v)] < mu[v] /\ mu[RightHalf(v)] < mu[v]
  BY <1>a, LeafApart, SpanRule, Narrower
<1>2. h \in [[D -> Int] -> [D -> Int]]
  <2> SUFFICES ASSUME NEW g \in [D -> Int], NEW v \in D PROVE SumsFrom(t, lo, hi, g, v) \in Int
    OBVIOUS
  <2> HIDE DEF D, mu
  <2> QED
    BY <1>a DEF SumsFrom
<1>3. ASSUME NEW f \in [D -> Int], NEW g \in [D -> Int], NEW v \in D, \A e \in D : mu[e] < mu[v] => f[e] = g[e]
      PROVE  h[f][v] = h[g][v]
  <2>1. h[f][v] = SumsFrom(t, lo, hi, f, v) /\ h[g][v] = SumsFrom(t, lo, hi, g, v)
    OBVIOUS
  <2> HIDE DEF D, mu, h
  <2> QED
    BY <1>3, <1>a, <2>1 DEF SumsFrom
<1>4. Recursive(D, Int, mu, h)
  <2> HIDE DEF mu, h, D
  <2>1. Int # {}
    BY 0 \in Int
  <2> QED
    BY <1>1, <1>2, <1>3, <2>1 DEF Recursive
<1> HIDE DEF mu, h, D
<1>5. PICK g \in [D -> Int] : g = h[g]
  BY <1>4, Recursion
<1>6. g = F(g)
  BY <1>5 DEF SumsFrom, h
<1>7. SparseSum(t, n, lo, hi) = G[RootOf(n)]
  BY DEF SparseSum, D, RootOf
<1> HIDE DEF F
<1>8. G = F(G)
  BY <1>6
<1> HIDE DEF G
<1>9. \A v \in D : G[v] = SumsFrom(t, lo, hi, G, v)
  BY <1>8 DEF F, SumsFrom
<1> QED
  BY <1>7, <1>9 DEF D

(* It answers as the plain array would.                                      *)
LEMMA SparseAnswers ==
    ASSUME NEW n, NEW t, NEW c, SparseHolds(t, n, c), NEW lo \in 0..(n - 1), NEW hi \in lo..(n - 1)
    PROVE  SparseSum(t, n, lo, hi) = SumOf(c, lo, hi)
<1>0. n \in Nat \ {0} /\ c \in [0..(n - 1) -> Int] /\ t \in [DOMAIN t -> Int] /\ lo \in Int /\ hi \in Int
  BY DEF SparseHolds
<1>1. PICK g : SparseSum(t, n, lo, hi) = g[RootOf(n)] /\ \A v \in Spans(n) : g[v] = SumsFrom(t, lo, hi, g, v)
  BY <1>0, SparseSumUnfolds, SMTT(20)
<1> DEFINE m == [i \in 0..(n - 1) |-> IF lo <= i /\ i <= hi THEN c[i] ELSE 0]
           T == {v \in Spans(n) : OnTree(n, v) => g[v] = SumOf(m, v[1], v[2])}
<1>m. m \in [0..(n - 1) -> Int] /\ \A i \in 0..(n - 1) : m[i] = IF lo <= i /\ i <= hi THEN c[i] ELSE 0
  BY <1>0
<1> HIDE DEF m
<1>2. ASSUME NEW v \in Spans(n), v[1] # v[2] => LeftHalf(v) \in T /\ RightHalf(v) \in T PROVE v \in T
  <2> SUFFICES ASSUME OnTree(n, v) PROVE g[v] = SumOf(m, v[1], v[2])
    OBVIOUS
  <2>0. v[1] \in 0..(n - 1) /\ v[2] \in 0..(n - 1) /\ v[1] <= v[2]
    BY <1>0, SpanRule
  <2>1. CASE v \notin DOMAIN t
    <3>1. \A i \in 0..(n - 1) : Has(v, i) => m[i] = 0
      BY <1>m, <2>1, NothingThere
    <3>2. SumOf(m, v[1], v[2]) = 0
      BY <1>0, <1>m, <3>1, SpanSum
    <3> QED
      BY <1>1, <2>1, <3>2 DEF SumsFrom
  <2>2. CASE Apart(v, lo, hi)
    <3>1. \A i \in 0..(n - 1) : Has(v, i) => m[i] = 0
      BY <1>0, <1>m, <2>0, <2>2, SMTT(20) DEF Has, Apart
    <3>2. SumOf(m, v[1], v[2]) = 0
      BY <1>0, <1>m, <3>1, SpanSum
    <3> QED
      BY <1>1, <2>2, <3>2 DEF SumsFrom
  <2>3. CASE v \in DOMAIN t /\ ~Apart(v, lo, hi) /\ Within(v, lo, hi)
    <3>1. g[v] = SumOf(c, v[1], v[2])
      BY <1>1, <2>3 DEF SumsFrom, SparseHolds
    <3>2. PICK l \in Int, r \in Int : l = v[1] /\ r = v[2] /\ l <= r + 1 /\ lo <= l /\ r <= hi /\ 0 <= l /\ r <= n - 1
      BY <1>0, <2>0, <2>3 DEF Within
    <3>3. Agree(m, c, l, r)
      <4> SUFFICES ASSUME NEW i \in l..r PROVE c[i] \in Int /\ m[i] = c[i]
        BY <3>2 DEF Agree
      <4>1. i \in 0..(n - 1) /\ lo <= i /\ i <= hi
        BY <1>0, <3>2
      <4> QED
        BY <1>0, <1>m, <4>1
    <3>4. SumOf(m, l, r) = SumOf(c, l, r)
      BY <3>3, SumAgrees
    <3> QED
      BY <3>1, <3>2, <3>4
  <2>4. CASE v \in DOMAIN t /\ ~Apart(v, lo, hi) /\ ~Within(v, lo, hi)
    <3>1. v[1] # v[2]
      BY <1>0, <2>4, LeafApart
    <3>2. g[v] = g[LeftHalf(v)] + g[RightHalf(v)]
      BY <1>1, <2>4 DEF SumsFrom
    <3>3. OnTree(n, LeftHalf(v)) /\ OnTree(n, RightHalf(v))
      <4>1. /\ Mid(v) \in v[1]..(v[2] - 1)
            /\ LeftHalf(v)[1] = v[1] /\ LeftHalf(v)[2] = Mid(v)
            /\ RightHalf(v)[1] = Mid(v) + 1 /\ RightHalf(v)[2] = v[2]
        BY <1>0, <3>1, SpanRule
      <4>2. ASSUME NEW i \in 0..(n - 1), Has(LeftHalf(v), i) PROVE LeftHalf(v) \in RouteTo(n, i)
        <5>1. Has(v, i) /\ Toward(v, i) = LeftHalf(v)
          BY <1>0, <2>0, <4>1, <4>2, SMTT(20) DEF Has, Toward
        <5> QED
          BY <1>0, <3>1, <5>1, OnTheWay, SMTT(20) DEF OnTree
      <4>3. ASSUME NEW i \in 0..(n - 1), Has(RightHalf(v), i) PROVE RightHalf(v) \in RouteTo(n, i)
        <5>1. Has(v, i) /\ Toward(v, i) = RightHalf(v)
          BY <1>0, <2>0, <4>1, <4>3, SMTT(20) DEF Has, Toward
        <5> QED
          BY <1>0, <3>1, <5>1, OnTheWay, SMTT(20) DEF OnTree
      <4> QED
        BY <4>2, <4>3 DEF OnTree
    <3>4. /\ g[LeftHalf(v)] = SumOf(m, LeftHalf(v)[1], LeftHalf(v)[2])
          /\ g[RightHalf(v)] = SumOf(m, RightHalf(v)[1], RightHalf(v)[2])
      BY <1>2, <3>1, <3>3
    <3> QED
      BY <1>0, <1>m, <3>1, <3>2, <3>4, SpanSum
  <2> QED
    BY <2>1, <2>2, <2>3, <2>4
<1>3. \A v \in Spans(n) : v \in T
  <2> HIDE DEF T
  <2> QED
    BY <1>0, <1>2, BySpans
<1>4. OnTree(n, RootOf(n)) /\ RootOf(n) \in Spans(n) /\ RootOf(n)[1] = 0 /\ RootOf(n)[2] = n - 1
  BY <1>0, PathRule, RootIsSpan, SMTT(20) DEF OnTree
<1>5. SparseSum(t, n, lo, hi) = SumOf(m, 0, n - 1)
  BY <1>1, <1>3, <1>4
<1>6. SumOf(m, 0, n - 1) = SumOf(c, lo, hi)
  <2>1. PICK a \in Int, z \in Int : a = lo - 1 /\ z = n - 1
    BY <1>0
  <2>2. /\ a + 1 = lo /\ 0 <= a + 1 /\ a <= z /\ lo <= hi + 1 /\ hi <= z /\ lo <= z + 1 /\ hi + 1 \in Int /\ hi + 1 <= z + 1
        /\ (\A i \in 0..z : m[i] \in Int) /\ \A i \in lo..z : m[i] \in Int
    BY <1>0, <1>m, <2>1
  <2>3. SumOf(m, 0, z) = SumOf(m, 0, a) + SumOf(m, a + 1, z)
    BY <2>2, 0 \in Int, SumSplits
  <2>4. SumOf(m, lo, z) = SumOf(m, lo, hi) + SumOf(m, hi + 1, z)
    BY <1>0, <2>2, SumSplits
  <2>5. SumOf(m, 0, a) = 0 * (a + 1 - 0)
    <3>1. \A i \in 0..a : m[i] = 0
      BY <1>0, <1>m, <2>1
    <3> QED
      BY <2>2, <3>1, 0 \in Int, SumConstant
  <2>6. SumOf(m, hi + 1, z) = 0 * (z + 1 - (hi + 1))
    <3>1. \A i \in (hi + 1)..z : m[i] = 0
      BY <1>0, <1>m, <2>1
    <3> QED
      BY <2>2, <3>1, 0 \in Int, SumConstant
  <2>7. SumOf(m, lo, hi) = SumOf(c, lo, hi) /\ SumOf(c, lo, hi) \in Int
    <3>1. Agree(m, c, lo, hi)
      BY <1>0, <1>m DEF Agree
    <3> QED
      BY <1>0, <3>1, SumAgrees
  <2> QED
    BY <2>1, <2>2, <2>3, <2>4, <2>5, <2>6, <2>7
<1> QED
  BY <1>5, <1>6

-----------------------------------------------------------------------------
(* Lazy tree: each node against the array it would answer for.               *)

(* The nodes under a node.                                                   *)
Below(n) ==
    LET below[v \in Spans(n)] ==
            IF v[1] = v[2] THEN {v} ELSE {v} \cup below[LeftHalf(v)] \cup below[RightHalf(v)]
    IN  below

BelowFrom(g, v) == IF v[1] = v[2] THEN {v} ELSE {v} \cup g[LeftHalf(v)] \cup g[RightHalf(v)]

(* Below is its own recursion.                                               *)
LEMMA BelowUnfolds ==
    ASSUME NEW n \in Nat \ {0}
    PROVE  \A v \in Spans(n) : Below(n)[v] = BelowFrom(Below(n), v)
<1> DEFINE D == Spans(n)
           X == SUBSET Spans(n)
           mu == SpanSize(n)
           h == [g \in [D -> X] |-> [v \in D |-> BelowFrom(g, v)]]
           F(below) == [v \in D |-> IF v[1] = v[2] THEN {v}
                                    ELSE {v} \cup below[LeftHalf(v)] \cup below[RightHalf(v)]]
           G == CHOOSE g : g = F(g)
<1>1. mu \in [D -> Nat]
  BY Narrower
<1>2. h \in [[D -> X] -> [D -> X]]
  <2> SUFFICES ASSUME NEW g \in [D -> X], NEW v \in D PROVE BelowFrom(g, v) \in X
    OBVIOUS
  <2> QED
    BY SpanRule DEF BelowFrom
<1>3. ASSUME NEW f \in [D -> X], NEW g \in [D -> X], NEW v \in D, \A e \in D : mu[e] < mu[v] => f[e] = g[e]
      PROVE  h[f][v] = h[g][v]
  BY <1>3, SpanRule, Narrower DEF BelowFrom
<1>4. Recursive(D, X, mu, h)
  <2>1. X # {}
    OBVIOUS
  <2> HIDE DEF mu, h, D, X
  <2> QED
    BY <1>1, <1>2, <1>3, <2>1 DEF Recursive
<1> HIDE DEF mu, h, D, X
<1>5. PICK g \in [D -> X] : g = h[g]
  BY <1>4, Recursion
<1>6. g = F(g)
  BY <1>5 DEF BelowFrom, h
<1>7. Below(n) = G
  BY DEF Below, D
<1> HIDE DEF F
<1>8. G = F(G)
  BY <1>6
<1> HIDE DEF G
<1>9. \A v \in D : G[v] = BelowFrom(G, v)
  BY <1>8 DEF F, BelowFrom
<1> QED
  BY <1>7, <1>9 DEF D

Inside(w, v) == v[1] <= w[1] /\ w[2] <= v[2]

(* The halves of a node are inside it and apart from each other.             *)
LEMMA HalvesInside ==
    ASSUME NEW n \in Nat \ {0}, NEW v \in Spans(n), v[1] # v[2]
    PROVE  /\ Inside(LeftHalf(v), v) /\ Inside(RightHalf(v), v)
           /\ \A w \in Spans(n) : Inside(w, LeftHalf(v)) => Inside(w, v) /\ ~Inside(w, RightHalf(v)) /\ w # v
           /\ \A w \in Spans(n) : Inside(w, RightHalf(v)) => Inside(w, v) /\ ~Inside(w, LeftHalf(v)) /\ w # v
           /\ LeftHalf(v) # RightHalf(v) /\ LeftHalf(v) # v /\ RightHalf(v) # v
<1>1. /\ v[1] \in Int /\ v[2] \in Int /\ Mid(v) \in v[1]..(v[2] - 1)
      /\ LeftHalf(v)[1] = v[1] /\ LeftHalf(v)[2] = Mid(v)
      /\ RightHalf(v)[1] = Mid(v) + 1 /\ RightHalf(v)[2] = v[2]
  BY SpanRule
<1>2. \A w \in Spans(n) : w[1] \in Int /\ w[2] \in Int /\ w[1] <= w[2]
  BY SpanRule
<1> QED
  BY <1>1, <1>2 DEF Inside

(* The nodes under a node are inside it.                                     *)
LEMMA BelowRule ==
    ASSUME NEW n \in Nat \ {0}, NEW v \in Spans(n)
    PROVE  /\ v \in Below(n)[v]
           /\ \A w \in Below(n)[v] : w \in Spans(n) /\ Inside(w, v)
           /\ v[1] = v[2] => Below(n)[v] = {v}
           /\ v[1] # v[2] => Below(n)[v] = {v} \cup Below(n)[LeftHalf(v)] \cup Below(n)[RightHalf(v)]
<1> DEFINE T == {u \in Spans(n) : \A w \in Below(n)[u] : w \in Spans(n) /\ Inside(w, u)}
<1>1. \A u \in Spans(n) : /\ u[1] = u[2] => Below(n)[u] = {u}
                          /\ u[1] # u[2] => Below(n)[u] = {u} \cup Below(n)[LeftHalf(u)] \cup Below(n)[RightHalf(u)]
  BY BelowUnfolds DEF BelowFrom
<1>2. ASSUME NEW u \in Spans(n), u[1] # u[2] => LeftHalf(u) \in T /\ RightHalf(u) \in T PROVE u \in T
  <2>1. Inside(u, u)
    BY SpanRule DEF Inside
  <2>2. CASE u[1] = u[2]
    BY <1>1, <2>1, <2>2
  <2>3. CASE u[1] # u[2]
    BY <1>1, <1>2, <2>1, <2>3, HalvesInside
  <2> QED
    BY <2>2, <2>3
<1>3. \A u \in Spans(n) : u \in T
  <2> HIDE DEF T
  <2> QED
    BY <1>2, BySpans
<1> QED
  BY <1>1, <1>3

-----------------------------------------------------------------------------
(* The sum, the least and the most of some cells.                            *)
IsLeast(x, f, lo, hi) == (\A i \in lo..hi : x <= f[i]) /\ \E i \in lo..hi : x = f[i]
IsMost(x, f, lo, hi) == (\A i \in lo..hi : x >= f[i]) /\ \E i \in lo..hi : x = f[i]
Sums(x, f, lo, hi) == x.sum = SumOf(f, lo, hi) /\ IsLeast(x.min, f, lo, hi) /\ IsMost(x.max, f, lo, hi)

IntCells(f, lo, hi) == lo <= hi /\ \A i \in lo..hi : f[i] \in Int

(* Sum, least and most depend on the cells in range alone.                   *)
LEMMA SumsAgree ==
    ASSUME NEW lo \in Int, NEW hi \in Int, NEW x, NEW b, NEW c, Agree(b, c, lo, hi), Sums(x, c, lo, hi)
    PROVE  Sums(x, b, lo, hi)
<1>1. SumOf(b, lo, hi) = SumOf(c, lo, hi)
  BY SumAgrees
<1>2. \A i \in lo..hi : b[i] = c[i]
  BY DEF Agree
<1> QED
  BY <1>1, <1>2 DEF Sums, IsLeast, IsMost

(* They are the cell, of one cell,                                           *)
LEMMA SumsOne ==
    ASSUME NEW i \in Int, NEW f, f[i] \in Int, NEW x, x.sum = f[i], x.min = f[i], x.max = f[i]
    PROVE  Sums(x, f, i, i)
<1>1. SumOf(f, i, i) = f[i]
  BY SumOne
<1>2. i..i = {i}
  OBVIOUS
<1> QED
  BY <1>1, <1>2 DEF Sums, IsLeast, IsMost

Joins(x, a, b) == x.sum = a.sum + b.sum /\ x.min = Smaller(a.min, b.min) /\ x.max = Greater(a.max, b.max)

(* join over two ranges side by side,                                        *)
LEMMA SumsJoin ==
    ASSUME NEW lo \in Int, NEW hi \in Int, NEW m \in lo..(hi - 1), NEW f, IntCells(f, lo, hi),
           NEW x, NEW a, NEW b, Joins(x, a, b), Sums(a, f, lo, m), Sums(b, f, m + 1, hi)
    PROVE  Sums(x, f, lo, hi)
<1>1. SumOf(f, lo, hi) = SumOf(f, lo, m) + SumOf(f, m + 1, hi)
  BY SumSplits, m \in Int, lo <= m + 1, m <= hi DEF IntCells
<1>2. \A i \in lo..hi : f[i] \in Int /\ (i \in lo..m \/ i \in (m + 1)..hi)
  BY DEF IntCells
<1>3. (\A i \in lo..m : i \in lo..hi) /\ \A i \in (m + 1)..hi : i \in lo..hi
  OBVIOUS
<1>4. IsLeast(Smaller(a.min, b.min), f, lo, hi)
  BY <1>2, <1>3 DEF Sums, IsLeast, Smaller
<1>5. IsMost(Greater(a.max, b.max), f, lo, hi)
  BY <1>2, <1>3 DEF Sums, IsMost, Greater
<1> QED
  BY <1>1, <1>4, <1>5 DEF Sums, Joins

Shifted(g, f, lo, hi, d) == lo <= hi + 1 /\ \A i \in lo..hi : f[i] \in Int /\ g[i] = f[i] + d

(* and move with what is added to each cell:                                 *)
LEMMA SumShifted ==
    ASSUME NEW lo \in Int, NEW hi \in Int, NEW f, NEW g, NEW d \in Int, Shifted(g, f, lo, hi, d)
    PROVE  SumOf(g, lo, hi) = SumOf(f, lo, hi) + d * (hi + 1 - lo)
<1>1. lo <= hi + 1 /\ (\A i \in lo..hi : f[i] \in Int) /\ \A i \in lo..hi : g[i] = f[i] + d
  BY DEF Shifted
<1> QED
  BY <1>1, SumShifts

(* all three of them.                                                        *)
LEMMA SumsShift ==
    ASSUME NEW lo \in Int, NEW hi \in Int, NEW f, IntCells(f, lo, hi), NEW d \in Int, NEW g,
           \A i \in lo..hi : g[i] = f[i] + d, NEW x, Sums(x, f, lo, hi),
           NEW y, y.sum = x.sum + d * (hi - lo + 1), y.min = x.min + d, y.max = x.max + d
    PROVE  Sums(y, g, lo, hi)
<1>1. SumOf(g, lo, hi) = SumOf(f, lo, hi) + d * (hi + 1 - lo)
  <2>1. Shifted(g, f, lo, hi, d)
    BY DEF IntCells, Shifted
  <2> QED
    BY <2>1, SumShifted
<1>2. hi + 1 - lo = hi - lo + 1
  OBVIOUS
<1>3. \A i \in lo..hi : f[i] \in Int
  BY DEF IntCells
<1>4. IsLeast(y.min, g, lo, hi)
  BY <1>3 DEF Sums, IsLeast
<1>5. IsMost(y.max, g, lo, hi)
  BY <1>3 DEF Sums, IsMost
<1> QED
  BY <1>1, <1>2, <1>4, <1>5 DEF Sums

(* Of equal cells.                                                           *)
LEMMA SumsConstant ==
    ASSUME NEW lo \in Int, NEW hi \in Int, lo <= hi, NEW v \in Int, NEW f, \A i \in lo..hi : f[i] = v,
           NEW y, y.sum = v * (hi - lo + 1), y.min = v, y.max = v
    PROVE  Sums(y, f, lo, hi)
<1>1. SumOf(f, lo, hi) = v * (hi + 1 - lo)
  BY SumConstant, lo <= hi + 1
<1>2. hi + 1 - lo = hi - lo + 1 /\ lo \in lo..hi
  OBVIOUS
<1> QED
  BY <1>1, <1>2 DEF Sums, IsLeast, IsMost

-----------------------------------------------------------------------------
(* What a node's cells hold, given what is under it: the arrays are what     *)
(* each node would answer for, were nothing above it left to tell.           *)
Arrays(n) == [0..(n - 1) -> Int]
Families(n) == [Spans(n) -> Arrays(n)]
ToldCell(x, y) == (IF x.assigned THEN x.assign ELSE y) + x.add

LazyAt(t, g, w) ==
    /\ Sums(t[w], g[w], w[1], w[2])
    /\ w[1] # w[2] => \A i \in w[1]..w[2] : g[w][i] = ToldCell(t[w], g[Toward(w, i)][i])

Fits(n, t, g, v) ==
    /\ n \in Nat \ {0} /\ t \in LazyTrees(n) /\ g \in Families(n) /\ v \in Spans(n)
    /\ \A w \in Below(n)[v] : LazyAt(t, g, w)

SameInside(n, t, g, u, f, v) == \A w \in Spans(n) : Inside(w, v) => u[w] = t[w] /\ f[w] = g[w]
SameOutside(n, t, g, u, f, v) == \A w \in Spans(n) : ~Inside(w, v) => u[w] = t[w] /\ f[w] = g[w]

(* Whether a node fits depends on what is inside it alone.                   *)
LEMMA FitsLocally ==
    ASSUME NEW n, NEW t, NEW g, NEW v, Fits(n, t, g, v), NEW u \in LazyTrees(n), NEW f \in Families(n),
           SameInside(n, t, g, u, f, v)
    PROVE  Fits(n, u, f, v)
<1>0. n \in Nat \ {0} /\ v \in Spans(n)
  BY DEF Fits
<1>1. ASSUME NEW w \in Below(n)[v] PROVE LazyAt(u, f, w)
  <2>1. w \in Spans(n) /\ Inside(w, v) /\ LazyAt(t, g, w)
    BY <1>0, BelowRule DEF Fits
  <2>2. u[w] = t[w] /\ f[w] = g[w]
    BY <2>1 DEF SameInside
  <2>3. ASSUME w[1] # w[2], NEW i PROVE f[Toward(w, i)] = g[Toward(w, i)]
    <3>1. LeftHalf(w) \in Spans(n) /\ RightHalf(w) \in Spans(n) /\ Inside(LeftHalf(w), w) /\ Inside(RightHalf(w), w)
      BY <1>0, <2>1, <2>3, SpanRule, HalvesInside
    <3>2. \A x \in Spans(n) : Inside(x, w) => Inside(x, v)
      <4>1. \A x \in Spans(n) : x[1] \in Int /\ x[2] \in Int
        BY <1>0, SpanRule
      <4> QED
        BY <1>0, <2>1, <4>1 DEF Inside
    <3> QED
      BY <3>1, <3>2 DEF SameInside, Toward
  <2> QED
    BY <2>1, <2>2, <2>3 DEF LazyAt
<1> QED
  BY <1>1 DEF Fits

(* The fields of a node.                                                     *)
LEMMA NodeTypes ==
    ASSUME NEW n, NEW t \in LazyTrees(n), NEW w \in Spans(n)
    PROVE  /\ t[w] \in LazyNode /\ t[w].sum \in Int /\ t[w].min \in Int /\ t[w].max \in Int
           /\ t[w].add \in Int /\ t[w].assigned \in BOOLEAN /\ t[w].assign \in Int
BY DEF LazyTrees, LazyNode

(* The array of a node.                                                      *)
LEMMA FamilyTypes ==
    ASSUME NEW n \in Nat \ {0}, NEW g \in Families(n), NEW w \in Spans(n)
    PROVE  /\ g[w] \in Arrays(n) /\ \A i \in w[1]..w[2] : i \in 0..(n - 1) /\ g[w][i] \in Int
           /\ \A v \in Spans(n), i \in w[1]..w[2] : g[v][i] \in Int
           /\ IntCells(g[w], w[1], w[2])
<1>1. w[1] \in 0..(n - 1) /\ w[2] \in 0..(n - 1) /\ w[1] <= w[2]
  BY SpanRule
<1>2. \A v \in Spans(n) : g[v] \in [0..(n - 1) -> Int]
  BY DEF Families, Arrays
<1>3. \A i \in w[1]..w[2] : i \in 0..(n - 1)
  BY <1>1
<1> QED
  BY <1>1, <1>2, <1>3 DEF IntCells, Arrays

(* A node put above two halves that fit.                                     *)
Put(n, r, f, v, x, b) ==
    /\ n \in Nat \ {0} /\ v \in Spans(n) /\ r \in LazyTrees(n) /\ f \in Families(n)
    /\ v[1] # v[2] => /\ Fits(n, r, f, LeftHalf(v)) /\ Fits(n, r, f, RightHalf(v))
                      /\ \A i \in v[1]..v[2] : b[i] = ToldCell(x, f[Toward(v, i)][i])
    /\ x \in LazyNode /\ b \in Arrays(n) /\ Sums(x, b, v[1], v[2])

(* A node that sums its array and tells its halves of it fits above them.    *)
LEMMA PutFits ==
    ASSUME NEW n, NEW r, NEW f, NEW v, NEW x, NEW b, Put(n, r, f, v, x, b)
    PROVE  /\ Fits(n, [r EXCEPT ![v] = x], [f EXCEPT ![v] = b], v)
           /\ SameOutside(n, r, f, [r EXCEPT ![v] = x], [f EXCEPT ![v] = b], v)
<1> DEFINE z == [r EXCEPT ![v] = x]
           g == [f EXCEPT ![v] = b]
<1>0. n \in Nat \ {0} /\ v \in Spans(n) /\ r \in LazyTrees(n) /\ f \in Families(n)
  BY DEF Put
<1>1. z \in LazyTrees(n) /\ g \in Families(n)
  BY <1>0 DEF Put, LazyTrees, Families
<1>2. z[v] = x /\ g[v] = b /\ \A w \in Spans(n) : w # v => z[w] = r[w] /\ g[w] = f[w]
  BY <1>0 DEF LazyTrees, Families
<1> HIDE DEF z, g
<1>3. LazyAt(z, g, v)
  <2>1. Sums(z[v], g[v], v[1], v[2])
    BY <1>2 DEF Put
  <2>2. ASSUME v[1] # v[2], NEW i \in v[1]..v[2] PROVE g[v][i] = ToldCell(z[v], g[Toward(v, i)][i])
    <3>1. g[Toward(v, i)] = f[Toward(v, i)]
      BY <1>0, <1>2, <2>2, HalvesInside, SpanRule DEF Toward
    <3> QED
      BY <1>2, <2>2, <3>1 DEF Put
  <2> QED
    BY <2>1, <2>2 DEF LazyAt
<1>4. ASSUME v[1] # v[2] PROVE Fits(n, z, g, LeftHalf(v)) /\ Fits(n, z, g, RightHalf(v))
  <2>1. SameInside(n, r, f, z, g, LeftHalf(v)) /\ SameInside(n, r, f, z, g, RightHalf(v))
    BY <1>0, <1>2, <1>4, HalvesInside DEF SameInside
  <2>2. Fits(n, r, f, LeftHalf(v)) /\ Fits(n, r, f, RightHalf(v))
    BY <1>4 DEF Put
  <2> QED
    BY <1>1, <2>1, <2>2, FitsLocally
<1>5. \A w \in Below(n)[v] : LazyAt(z, g, w)
  <2>1. CASE v[1] = v[2]
    BY <1>0, <1>3, <2>1, BelowRule
  <2>2. CASE v[1] # v[2]
    BY <1>0, <1>3, <1>4, <2>2, BelowRule DEF Fits
  <2> QED
    BY <2>1, <2>2
<1>6. \A w \in Spans(n) : ~Inside(w, v) => w # v
  BY <1>0, SpanRule DEF Inside
<1> QED
  BY <1>0, <1>1, <1>2, <1>5, <1>6 DEF Fits, SameOutside, z, g

(* A node that fits has halves that fit.                                     *)
LEMMA FitsParts ==
    ASSUME NEW n, NEW t, NEW g, NEW v, Fits(n, t, g, v)
    PROVE  /\ n \in Nat \ {0} /\ t \in LazyTrees(n) /\ g \in Families(n) /\ v \in Spans(n)
           /\ LazyAt(t, g, v)
           /\ v[1] # v[2] => Fits(n, t, g, LeftHalf(v)) /\ Fits(n, t, g, RightHalf(v))
<1>1. n \in Nat \ {0} /\ t \in LazyTrees(n) /\ g \in Families(n) /\ v \in Spans(n)
  BY DEF Fits
<1>2. LazyAt(t, g, v)
  BY <1>1, BelowRule DEF Fits
<1>3. ASSUME v[1] # v[2] PROVE Fits(n, t, g, LeftHalf(v)) /\ Fits(n, t, g, RightHalf(v))
  <2>1. LeftHalf(v) \in Spans(n) /\ RightHalf(v) \in Spans(n)
    BY <1>1, <1>3, SpanRule
  <2>2. Below(n)[LeftHalf(v)] \subseteq Below(n)[v] /\ Below(n)[RightHalf(v)] \subseteq Below(n)[v]
    BY <1>1, <1>3, BelowRule
  <2> QED
    BY <1>1, <2>1, <2>2 DEF Fits
<1> QED
  BY <1>1, <1>2, <1>3

-----------------------------------------------------------------------------
(* What a node is told, its cells are told.                                  *)
LEMMA AddedNode ==
    ASSUME NEW x \in LazyNode, NEW d \in Int, NEW len \in Int
    PROVE  /\ ApplyAdd(x, d, len) \in LazyNode
           /\ ApplyAdd(x, d, len).sum = x.sum + d * len
           /\ ApplyAdd(x, d, len).min = x.min + d /\ ApplyAdd(x, d, len).max = x.max + d
           /\ \A y \in Int : ToldCell(ApplyAdd(x, d, len), y) = ToldCell(x, y) + d
<1>1. /\ x.sum \in Int /\ x.min \in Int /\ x.max \in Int
      /\ x.add \in Int /\ x.assigned \in BOOLEAN /\ x.assign \in Int
  BY DEF LazyNode
<1>2. x.sum + d * len \in Int /\ x.min + d \in Int /\ x.max + d \in Int
  BY <1>1
<1>3. ApplyAdd(x, d, len) \in LazyNode
  BY <1>1, <1>2 DEF LazyNode, ApplyAdd
<1>4. ASSUME NEW y \in Int PROVE ToldCell(ApplyAdd(x, d, len), y) = ToldCell(x, y) + d
  BY <1>1 DEF ToldCell, ApplyAdd
<1> QED
  BY <1>3, <1>4 DEF ApplyAdd

(* A node assigned a value answers it for every cell.                        *)
LEMMA AssignedNode ==
    ASSUME NEW v \in Int, NEW len \in Int
    PROVE  /\ ApplyAssign(v, len) \in LazyNode
           /\ ApplyAssign(v, len).sum = v * len /\ ApplyAssign(v, len).min = v /\ ApplyAssign(v, len).max = v
           /\ \A y \in Int : ToldCell(ApplyAssign(v, len), y) = v
<1>1. v * len \in Int
  OBVIOUS
<1> QED
  BY <1>1 DEF ApplyAssign, LazyNode, ToldCell

(* A child told by its parent answers for what the parent did.               *)
LEMMA ToldNode ==
    ASSUME NEW p \in LazyNode, NEW x \in LazyNode, NEW lo \in Int, NEW hi \in Int,
           NEW f, IntCells(f, lo, hi), Sums(x, f, lo, hi),
           NEW b, \A i \in lo..hi : b[i] = ToldCell(p, f[i])
    PROVE  /\ Told(p, x, hi - lo + 1) \in LazyNode
           /\ Sums(Told(p, x, hi - lo + 1), b, lo, hi)
           /\ \A y \in Int : ToldCell(Told(p, x, hi - lo + 1), y) = ToldCell(p, ToldCell(x, y))
<1> DEFINE taken == IF p.assigned THEN ApplyAssign(p.assign, hi - lo + 1) ELSE x
           c == [i \in lo..hi |-> IF p.assigned THEN p.assign ELSE f[i]]
<1>0. p.add \in Int /\ p.assigned \in BOOLEAN /\ p.assign \in Int /\ hi - lo + 1 \in Int /\ lo <= hi
      /\ \A i \in lo..hi : f[i] \in Int
  BY DEF LazyNode, IntCells
<1>1. \A i \in lo..hi : c[i] \in Int /\ b[i] = c[i] + p.add
  BY <1>0 DEF ToldCell
<1>2. /\ taken \in LazyNode /\ Sums(taken, c, lo, hi)
      /\ \A y \in Int : ToldCell(taken, y) = IF p.assigned THEN p.assign ELSE ToldCell(x, y)
  <2>1. CASE p.assigned
    <3>1. \A i \in lo..hi : c[i] = p.assign
      BY <2>1
    <3> HIDE DEF c
    <3>2. /\ taken \in LazyNode
          /\ taken.sum = p.assign * (hi - lo + 1) /\ taken.min = p.assign /\ taken.max = p.assign
          /\ \A y \in Int : ToldCell(taken, y) = p.assign
      <4>1. taken = ApplyAssign(p.assign, hi - lo + 1)
        BY <2>1
      <4>2. PICK len \in Int : len = hi - lo + 1
        BY <1>0
      <4> HIDE DEF taken
      <4>3. /\ ApplyAssign(p.assign, len) \in LazyNode
            /\ ApplyAssign(p.assign, len).sum = p.assign * len
            /\ ApplyAssign(p.assign, len).min = p.assign /\ ApplyAssign(p.assign, len).max = p.assign
            /\ \A y \in Int : ToldCell(ApplyAssign(p.assign, len), y) = p.assign
        BY <1>0, AssignedNode
      <4> QED
        BY <4>1, <4>2, <4>3
    <3> HIDE DEF taken
    <3>3. Sums(taken, c, lo, hi)
      BY <1>0, <3>1, <3>2, SumsConstant
    <3> QED
      BY <2>1, <3>2, <3>3
  <2>2. CASE ~p.assigned
    <3>1. taken = x
      BY <2>2
    <3>2. Agree(c, f, lo, hi)
      BY <1>0, <2>2 DEF Agree
    <3> HIDE DEF c, taken
    <3>3. Sums(x, c, lo, hi)
      BY <3>2, SumsAgree
    <3> QED
      BY <2>2, <3>1, <3>3
  <2> QED
    BY <2>1, <2>2
<1>3. Told(p, x, hi - lo + 1) = IF p.add = 0 THEN taken ELSE ApplyAdd(taken, p.add, hi - lo + 1)
  BY DEF Told
<1>4. IntCells(c, lo, hi)
  BY <1>0, <1>1 DEF IntCells
<1>x. \A y \in Int : ToldCell(x, y) \in Int
  BY DEF ToldCell, LazyNode
<1> HIDE DEF taken, c
<1>5. CASE p.add = 0
  <2>1. Agree(b, c, lo, hi)
    BY <1>0, <1>1, <1>5 DEF Agree
  <2>2. Sums(taken, b, lo, hi)
    BY <1>2, <2>1, SumsAgree
  <2>3. \A y \in Int : ToldCell(taken, y) = ToldCell(p, ToldCell(x, y))
    BY <1>0, <1>2, <1>5, <1>x DEF ToldCell
  <2> QED
    BY <1>2, <1>3, <1>5, <2>2, <2>3
<1>6. CASE p.add # 0
  <2> DEFINE y == ApplyAdd(taken, p.add, hi - lo + 1)
  <2>1. /\ y \in LazyNode /\ y.sum = taken.sum + p.add * (hi - lo + 1)
        /\ y.min = taken.min + p.add /\ y.max = taken.max + p.add
        /\ \A k \in Int : ToldCell(y, k) = ToldCell(taken, k) + p.add
    BY <1>0, <1>2, AddedNode
  <2>2. Told(p, x, hi - lo + 1) = y
    BY <1>3, <1>6
  <2> HIDE DEF y
  <2>3. \A i \in lo..hi : b[i] = c[i] + p.add
    BY <1>1
  <2>4. Sums(y, b, lo, hi)
    BY <1>0, <1>2, <1>4, <2>1, <2>3, SumsShift
  <2>5. \A k \in Int : ToldCell(y, k) = ToldCell(p, ToldCell(x, k))
    <3> TAKE k \in Int
    <3>1. ToldCell(y, k) = (IF p.assigned THEN p.assign ELSE ToldCell(x, k)) + p.add
      BY <1>2, <2>1
    <3>2. ToldCell(p, ToldCell(x, k)) = (IF p.assigned THEN p.assign ELSE ToldCell(x, k)) + p.add
      BY DEF ToldCell
    <3> QED
      BY <3>1, <3>2
  <2> QED
    BY <2>1, <2>2, <2>4, <2>5
<1> QED
  BY <1>0, <1>5, <1>6

(* Push: the halves are told what they had yet to be told, so their cells    *)
(* hold what the node's do.                                                  *)
Neutral(x) == x.add = 0 /\ x.assigned = FALSE
Handed(n, g, v) == [w \in Spans(n) |-> IF w = LeftHalf(v) \/ w = RightHalf(v) THEN g[v] ELSE g[w]]

(* What Push changes.                                                        *)
LEMMA PushedNodes ==
    ASSUME NEW n \in Nat \ {0}, NEW t \in LazyTrees(n), NEW v \in Spans(n), v[1] # v[2]
    PROVE  /\ DOMAIN Push(t, v) = Spans(n) /\ Push(t, v) = [w \in Spans(n) |-> Push(t, v)[w]]
           /\ Push(t, v)[v] \in LazyNode /\ Neutral(Push(t, v)[v])
           /\ Push(t, v)[v].sum = t[v].sum /\ Push(t, v)[v].min = t[v].min /\ Push(t, v)[v].max = t[v].max
           /\ Push(t, v)[LeftHalf(v)] = Told(t[v], t[LeftHalf(v)], Width(LeftHalf(v)))
           /\ Push(t, v)[RightHalf(v)] = Told(t[v], t[RightHalf(v)], Width(RightHalf(v)))
           /\ \A w \in Spans(n) : w # v /\ w # LeftHalf(v) /\ w # RightHalf(v) => Push(t, v)[w] = t[w]
<1>1. DOMAIN t = Spans(n) /\ t[v] \in LazyNode
  BY DEF LazyTrees
<1>2. LeftHalf(v) \in Spans(n) /\ RightHalf(v) \in Spans(n) /\ LeftHalf(v) # v /\ RightHalf(v) # v
  BY SpanRule, HalvesInside
<1>3. /\ DOMAIN Push(t, v) = Spans(n) /\ Push(t, v) = [w \in Spans(n) |-> Push(t, v)[w]]
      /\ Push(t, v)[v] = [t[v] EXCEPT !.add = 0, !.assigned = FALSE, !.assign = 0]
      /\ Push(t, v)[LeftHalf(v)] = Told(t[v], t[LeftHalf(v)], Width(LeftHalf(v)))
      /\ Push(t, v)[RightHalf(v)] = Told(t[v], t[RightHalf(v)], Width(RightHalf(v)))
      /\ \A w \in Spans(n) : w # v /\ w # LeftHalf(v) /\ w # RightHalf(v) => Push(t, v)[w] = t[w]
  BY <1>1, <1>2 DEF Push
<1>4. PICK x : x = t[v]
  OBVIOUS
<1>5. PICK z : z = [x EXCEPT !.add = 0, !.assigned = FALSE, !.assign = 0]
  OBVIOUS
<1>6. z \in LazyNode /\ z.add = 0 /\ z.assigned = FALSE /\ z.sum = x.sum /\ z.min = x.min /\ z.max = x.max
  <2>1. PICK y : y = [x EXCEPT !.add = 0]
    OBVIOUS
  <2>2. y \in LazyNode /\ y.add = 0 /\ y.sum = x.sum /\ y.min = x.min /\ y.max = x.max
    BY <1>1, <1>4, <2>1 DEF LazyNode
  <2>3. PICK k : k = [y EXCEPT !.assigned = FALSE]
    OBVIOUS
  <2>4. k \in LazyNode /\ k.add = y.add /\ k.assigned = FALSE /\ k.sum = y.sum /\ k.min = y.min /\ k.max = y.max
    BY <2>2, <2>3 DEF LazyNode
  <2>5. z = [k EXCEPT !.assign = 0]
    BY <1>5, <2>1, <2>3
  <2>6. /\ z \in LazyNode /\ z.add = k.add /\ z.assigned = k.assigned
        /\ z.sum = k.sum /\ z.min = k.min /\ z.max = k.max
    BY <2>4, <2>5 DEF LazyNode
  <2> QED
    BY <2>2, <2>4, <2>6
<1> QED
  BY <1>3, <1>4, <1>5, <1>6 DEF Neutral

Pushed(n, t, g, v, p, f) ==
    /\ p \in LazyTrees(n) /\ f \in Families(n) /\ f[v] = g[v]
    /\ Fits(n, p, f, LeftHalf(v)) /\ Fits(n, p, f, RightHalf(v))
    /\ f[LeftHalf(v)] = g[v] /\ f[RightHalf(v)] = g[v]
    /\ Neutral(p[v]) /\ Sums(p[v], g[v], v[1], v[2])
    /\ SameOutside(n, t, g, p, f, v)

(* After Push a half answers for its parent's array.                         *)
LEMMA HalfTold ==
    ASSUME NEW n, NEW t, NEW g, NEW v, Fits(n, t, g, v), v[1] # v[2],
           NEW h \in {LeftHalf(v), RightHalf(v)}, NEW y, y = Told(t[v], t[h], Width(h))
    PROVE  /\ y \in LazyNode /\ Sums(y, g[v], h[1], h[2])
           /\ h[1] # h[2] => \A i \in h[1]..h[2] : g[v][i] = ToldCell(y, g[Toward(h, i)][i])
<1>0. /\ n \in Nat \ {0} /\ t \in LazyTrees(n) /\ g \in Families(n) /\ v \in Spans(n)
      /\ LazyAt(t, g, v) /\ Fits(n, t, g, h)
  BY FitsParts
<1>1. h \in Spans(n) /\ LazyAt(t, g, h)
  BY <1>0, FitsParts, SpanRule
<1>2. PICK lo \in Int, hi \in Int : lo = h[1] /\ hi = h[2] /\ lo <= hi /\ v[1] <= lo /\ hi <= v[2]
  BY <1>0, <1>1, SpanRule, HalvesInside DEF Inside
<1>3. v[1] \in Int /\ v[2] \in Int /\ Mid(v) \in Int /\ LeftHalf(v)[2] = Mid(v) /\ RightHalf(v)[1] = Mid(v) + 1
  BY <1>0, SpanRule
<1>4. \A i \in lo..hi : Toward(v, i) = h
  BY <1>2, <1>3 DEF Toward
<1>5. \A i \in lo..hi : g[v][i] = ToldCell(t[v], g[h][i])
  <2> SUFFICES ASSUME NEW i \in lo..hi PROVE g[v][i] = ToldCell(t[v], g[h][i])
    OBVIOUS
  <2>1. i \in v[1]..v[2]
    BY <1>2, <1>3
  <2> QED
    BY <1>0, <1>4, <2>1 DEF LazyAt
<1>6. t[v] \in LazyNode /\ t[h] \in LazyNode /\ IntCells(g[h], lo, hi) /\ Sums(t[h], g[h], lo, hi)
  BY <1>0, <1>1, <1>2, NodeTypes, FamilyTypes DEF LazyAt
<1>7. Width(h) = hi - lo + 1
  BY <1>2 DEF Width
<1> DEFINE b == g[v]
           f == g[h]
           p == t[v]
           x == t[h]
<1>8. \A i \in lo..hi : b[i] = ToldCell(p, f[i])
  BY <1>5
<1>9. p \in LazyNode /\ x \in LazyNode /\ IntCells(f, lo, hi) /\ Sums(x, f, lo, hi)
  BY <1>6
<1>10. y = Told(p, x, hi - lo + 1)
  BY <1>7
<1> HIDE DEF b, f, p, x
<1>11. /\ y \in LazyNode /\ Sums(y, b, lo, hi) /\ \A k \in Int : ToldCell(y, k) = ToldCell(p, ToldCell(x, k))
  BY <1>8, <1>9, <1>10, ToldNode
<1>12. ASSUME h[1] # h[2], NEW i \in lo..hi PROVE b[i] = ToldCell(y, g[Toward(h, i)][i])
  <2>1. f[i] = ToldCell(x, g[Toward(h, i)][i])
    BY <1>1, <1>2, <1>12 DEF LazyAt, f, x
  <2>2. g[Toward(h, i)][i] \in Int
    <3>1. Toward(h, i) \in Spans(n)
      BY <1>0, <1>1, <1>12, TowardIsSpan
    <3> QED
      BY <1>0, <1>1, <1>2, <3>1, FamilyTypes
  <2> QED
    BY <1>8, <1>11, <2>1, <2>2
<1> QED
  BY <1>2, <1>11, <1>12 DEF b

(* Push leaves the halves fitting the parent's array, and the parent neutral. *)
LEMMA PushFits ==
    ASSUME NEW n, NEW t, NEW g, NEW v, Fits(n, t, g, v), v[1] # v[2]
    PROVE  Pushed(n, t, g, v, Push(t, v), Handed(n, g, v))
<1> DEFINE p == Push(t, v)
           f == Handed(n, g, v)
           l == LeftHalf(v)
           r == RightHalf(v)
<1>0. /\ n \in Nat \ {0} /\ t \in LazyTrees(n) /\ g \in Families(n) /\ v \in Spans(n)
      /\ LazyAt(t, g, v) /\ Fits(n, t, g, l) /\ Fits(n, t, g, r)
  BY FitsParts
<1>1. /\ l \in Spans(n) /\ r \in Spans(n) /\ l # v /\ r # v /\ l # r
      /\ Inside(l, v) /\ Inside(r, v)
      /\ (\A w \in Spans(n) : Inside(w, l) => Inside(w, v) /\ ~Inside(w, r) /\ w # v)
      /\ (\A w \in Spans(n) : Inside(w, r) => Inside(w, v) /\ ~Inside(w, l) /\ w # v)
  BY <1>0, SpanRule, HalvesInside
<1>2. \A h \in {l, r} : /\ p[h] \in LazyNode /\ Sums(p[h], g[v], h[1], h[2])
                        /\ h[1] # h[2] => \A i \in h[1]..h[2] : g[v][i] = ToldCell(p[h], g[Toward(h, i)][i])
  BY <1>0, PushedNodes, HalfTold
<1>3. /\ p[v] \in LazyNode /\ Neutral(p[v])
      /\ p[v].sum = t[v].sum /\ p[v].min = t[v].min /\ p[v].max = t[v].max
      /\ \A w \in Spans(n) : w # v /\ w # l /\ w # r => p[w] = t[w]
      /\ p = [w \in Spans(n) |-> p[w]]
  BY <1>0, PushedNodes
<1>4. p \in LazyTrees(n)
  <2>1. \A w \in Spans(n) : p[w] \in LazyNode
    <3> HIDE DEF p
    <3> QED
      BY <1>0, <1>2, <1>3 DEF LazyTrees
  <2> HIDE DEF p
  <2> QED
    BY <1>3, <2>1 DEF LazyTrees
<1>5. f \in Families(n) /\ f[l] = g[v] /\ f[r] = g[v] /\ \A w \in Spans(n) : w # l /\ w # r => f[w] = g[w]
  BY <1>0, <1>1 DEF Handed, Families
<1> HIDE DEF p, f
<1>6. Sums(p[v], g[v], v[1], v[2])
  BY <1>0, <1>3 DEF LazyAt, Sums
<1>7. \A w \in Spans(n) : Inside(w, l) /\ w # l => p[w] = t[w] /\ f[w] = g[w]
  BY <1>0, <1>1, <1>3, <1>5, SpanRule DEF Inside
<1>8. \A w \in Spans(n) : Inside(w, r) /\ w # r => p[w] = t[w] /\ f[w] = g[w]
  BY <1>0, <1>1, <1>3, <1>5, SpanRule DEF Inside
<1>9. ASSUME NEW h \in {l, r} PROVE Fits(n, p, f, h)
  <2>1. h \in Spans(n) /\ \A w \in Spans(n) : Inside(w, h) /\ w # h => p[w] = t[w] /\ f[w] = g[w]
    BY <1>1, <1>7, <1>8
  <2>2. LazyAt(p, f, h)
    <3>1. Sums(p[h], f[h], h[1], h[2])
      BY <1>2, <1>5
    <3>2. ASSUME h[1] # h[2], NEW i \in h[1]..h[2] PROVE f[h][i] = ToldCell(p[h], f[Toward(h, i)][i])
      <4>1. f[Toward(h, i)] = g[Toward(h, i)]
        BY <1>0, <2>1, <3>2, SpanRule, HalvesInside DEF Toward
      <4> QED
        BY <1>2, <1>5, <3>2, <4>1
    <3> QED
      BY <3>1, <3>2 DEF LazyAt
  <2>3. ASSUME h[1] # h[2] PROVE Fits(n, p, f, LeftHalf(h)) /\ Fits(n, p, f, RightHalf(h))
    <3>1. Fits(n, t, g, LeftHalf(h)) /\ Fits(n, t, g, RightHalf(h))
      BY <1>0, <2>3, FitsParts
    <3>2. SameInside(n, t, g, p, f, LeftHalf(h)) /\ SameInside(n, t, g, p, f, RightHalf(h))
      BY <1>0, <2>1, <2>3, HalvesInside DEF SameInside
    <3> QED
      BY <1>4, <1>5, <3>1, <3>2, FitsLocally
  <2>4. \A w \in Below(n)[h] : LazyAt(p, f, w)
    <3>1. CASE h[1] = h[2]
      BY <1>0, <2>1, <2>2, <3>1, BelowRule
    <3>2. CASE h[1] # h[2]
      BY <1>0, <2>1, <2>2, <2>3, <3>2, BelowRule DEF Fits
    <3> QED
      BY <3>1, <3>2
  <2> QED
    BY <1>0, <1>4, <1>5, <2>1, <2>4 DEF Fits
<1>10. SameOutside(n, t, g, p, f, v)
  <2>1. \A w \in Spans(n) : ~Inside(w, v) => w # v /\ w # l /\ w # r
    BY <1>0, <1>1, SpanRule DEF Inside
  <2> HIDE DEF l, r
  <2> QED
    BY <1>3, <1>5, <2>1 DEF SameOutside
<1>11. f[v] = g[v]
  BY <1>0, <1>1, <1>5
<1> QED
  BY <1>3, <1>4, <1>5, <1>6, <1>9, <1>10, <1>11 DEF Pushed, p, f

-----------------------------------------------------------------------------
UpdateFrom(lo, hi, op, d, g, v, u) ==
    IF Apart(v, lo, hi) THEN u
    ELSE IF Within(v, lo, hi)
    THEN [u EXCEPT ![v] = IF op = "assign" THEN ApplyAssign(d, Width(v)) ELSE ApplyAdd(u[v], d, Width(v))]
    ELSE Pull(g[RightHalf(v)][g[LeftHalf(v)][Push(u, v)]], v)

(* Told gives a node,                                                        *)
LEMMA ToldType ==
    ASSUME NEW p \in LazyNode, NEW x \in LazyNode, NEW len \in Int
    PROVE  Told(p, x, len) \in LazyNode
<1>1. p.add \in Int /\ p.assign \in Int
  BY DEF LazyNode
<1> QED
  BY <1>1, AddedNode, AssignedNode DEF Told

(* Push a tree,                                                              *)
LEMMA PushType ==
    ASSUME NEW n \in Nat \ {0}, NEW u \in LazyTrees(n), NEW v \in Spans(n), v[1] # v[2]
    PROVE  Push(u, v) \in LazyTrees(n)
<1>1. /\ Push(u, v) = [w \in Spans(n) |-> Push(u, v)[w]] /\ Push(u, v)[v] \in LazyNode
      /\ Push(u, v)[LeftHalf(v)] = Told(u[v], u[LeftHalf(v)], Width(LeftHalf(v)))
      /\ Push(u, v)[RightHalf(v)] = Told(u[v], u[RightHalf(v)], Width(RightHalf(v)))
      /\ \A w \in Spans(n) : w # v /\ w # LeftHalf(v) /\ w # RightHalf(v) => Push(u, v)[w] = u[w]
  BY PushedNodes
<1>2. LeftHalf(v) \in Spans(n) /\ RightHalf(v) \in Spans(n)
  BY SpanRule
<1>3. \A w \in Spans(n) : u[w] \in LazyNode /\ Width(w) \in Int
  BY SpanRule DEF LazyTrees, Width
<1>4. \A w \in Spans(n) : Push(u, v)[w] \in LazyNode
  <2>1. ASSUME NEW w \in Spans(n), w = LeftHalf(v) \/ w = RightHalf(v) PROVE Push(u, v)[w] \in LazyNode
    <3>1. u[v] \in LazyNode /\ u[w] \in LazyNode /\ Width(w) \in Int
      BY <1>3
    <3>2. Told(u[v], u[w], Width(w)) \in LazyNode
      BY <3>1, ToldType
    <3> QED
      BY <1>1, <2>1, <3>2
  <2> QED
    BY <1>1, <1>3, <2>1
<1> QED
  BY <1>1, <1>4 DEF LazyTrees

(* Pulled a node that joins its halves,                                      *)
LEMMA PulledNode ==
    ASSUME NEW x \in LazyNode, NEW a \in LazyNode, NEW b \in LazyNode
    PROVE  /\ Pulled(x, a, b) \in LazyNode /\ Joins(Pulled(x, a, b), a, b)
           /\ Pulled(x, a, b).add = x.add /\ Pulled(x, a, b).assigned = x.assigned
           /\ Pulled(x, a, b).assign = x.assign
<1>1. a.sum + b.sum \in Int /\ Smaller(a.min, b.min) \in Int /\ Greater(a.max, b.max) \in Int
  BY DEF LazyNode, Smaller, Greater
<1>2. PICK s \in Int, m \in Int, k \in Int : s = a.sum + b.sum /\ m = Smaller(a.min, b.min) /\ k = Greater(a.max, b.max)
  BY <1>1
<1>3. Pulled(x, a, b) = [x EXCEPT !.sum = s, !.min = m, !.max = k]
  BY <1>2 DEF Pulled
<1>4. PICK z : z = [x EXCEPT !.sum = s, !.min = m, !.max = k]
  OBVIOUS
<1>5. z \in LazyNode /\ z.sum = s /\ z.min = m /\ z.max = k
      /\ z.add = x.add /\ z.assigned = x.assigned /\ z.assign = x.assign
  BY <1>4 DEF LazyNode
<1> QED
  BY <1>2, <1>3, <1>4, <1>5 DEF Joins

(* and Pull a tree.                                                          *)
LEMMA PullType ==
    ASSUME NEW n \in Nat \ {0}, NEW u \in LazyTrees(n), NEW v \in Spans(n), v[1] # v[2]
    PROVE  Pull(u, v) \in LazyTrees(n)
<1>1. u[v] \in LazyNode /\ u[LeftHalf(v)] \in LazyNode /\ u[RightHalf(v)] \in LazyNode
  BY SpanRule DEF LazyTrees
<1>2. Pulled(u[v], u[LeftHalf(v)], u[RightHalf(v)]) \in LazyNode
  BY <1>1, PulledNode
<1> QED
  BY <1>2 DEF Pull, LazyTrees

(* UpdateLazy is its own recursion.                                          *)
LEMMA UpdateUnfolds ==
    ASSUME NEW n \in Nat \ {0}, NEW t, NEW lo \in Int, NEW hi \in Int, NEW op, NEW d \in Int
    PROVE  \E g : /\ UpdateLazy(t, n, lo, hi, op, d) = g[RootOf(n)][t]
                  /\ \A v \in Spans(n), u \in LazyTrees(n) : g[v][u] = UpdateFrom(lo, hi, op, d, g, v, u)
<1> DEFINE D == Spans(n)
           S == LazyTrees(n)
           X == [S -> S]
           mu == SpanSize(n)
           h == [g \in [D -> X] |-> [v \in D |-> [u \in S |-> UpdateFrom(lo, hi, op, d, g, v, u)]]]
           F(update) == [v \in D |-> [u \in S |->
                           IF Apart(v, lo, hi) THEN u
                           ELSE IF Within(v, lo, hi)
                           THEN [u EXCEPT ![v] = IF op = "assign" THEN ApplyAssign(d, Width(v))
                                                 ELSE ApplyAdd(u[v], d, Width(v))]
                           ELSE Pull(update[RightHalf(v)][update[LeftHalf(v)][Push(u, v)]], v)]]
           G == CHOOSE g : g = F(g)
<1>1. mu \in [D -> Nat]
  BY Narrower
<1>a. ASSUME NEW v \in D, ~Apart(v, lo, hi), ~Within(v, lo, hi)
      PROVE  /\ v[1] # v[2] /\ LeftHalf(v) \in D /\ RightHalf(v) \in D
             /\ mu[LeftHalf(v)] < mu[v] /\ mu[RightHalf(v)] < mu[v]
  BY <1>a, LeafApart, SpanRule, Narrower
<1>2. h \in [[D -> X] -> [D -> X]]
  <2> SUFFICES ASSUME NEW g \in [D -> X], NEW v \in D, NEW u \in S PROVE UpdateFrom(lo, hi, op, d, g, v, u) \in S
    OBVIOUS
  <2> HIDE DEF mu, h, F
  <2>1. CASE Apart(v, lo, hi)
    BY <2>1 DEF UpdateFrom
  <2>2. CASE ~Apart(v, lo, hi) /\ Within(v, lo, hi)
    <3>1. Width(v) \in Int /\ u[v] \in LazyNode
      BY SpanRule DEF Width, LazyTrees
    <3>2. (IF op = "assign" THEN ApplyAssign(d, Width(v)) ELSE ApplyAdd(u[v], d, Width(v))) \in LazyNode
      BY <3>1, AddedNode, AssignedNode
    <3>3. PICK x \in LazyNode : x = IF op = "assign" THEN ApplyAssign(d, Width(v)) ELSE ApplyAdd(u[v], d, Width(v))
      BY <3>2
    <3>4. [u EXCEPT ![v] = x] \in S
      BY DEF LazyTrees
    <3>5. UpdateFrom(lo, hi, op, d, g, v, u) = [u EXCEPT ![v] = x]
      BY <2>2, <3>3 DEF UpdateFrom
    <3> QED
      BY <3>4, <3>5
  <2>3. CASE ~Apart(v, lo, hi) /\ ~Within(v, lo, hi)
    <3>1. Push(u, v) \in S
      BY <1>a, <2>3, PushType
    <3> HIDE DEF S
    <3>2. g[LeftHalf(v)] \in [S -> S] /\ g[RightHalf(v)] \in [S -> S]
      BY <1>a, <2>3
    <3>3. g[RightHalf(v)][g[LeftHalf(v)][Push(u, v)]] \in S
      BY <3>1, <3>2
    <3> USE DEF S
    <3>4. Pull(g[RightHalf(v)][g[LeftHalf(v)][Push(u, v)]], v) \in S
      BY <1>a, <2>3, <3>3, PullType
    <3> QED
      BY <2>3, <3>4 DEF UpdateFrom
  <2> QED
    BY <2>1, <2>2, <2>3
<1>3. ASSUME NEW f \in [D -> X], NEW g \in [D -> X], NEW v \in D,
             \A e \in D : mu[e] < mu[v] => f[e] = g[e]
      PROVE  h[f][v] = h[g][v]
  <2> SUFFICES ASSUME NEW u \in S PROVE UpdateFrom(lo, hi, op, d, f, v, u) = UpdateFrom(lo, hi, op, d, g, v, u)
    OBVIOUS
  <2> HIDE DEF h, mu, D, S, X, F
  <2>1. CASE Apart(v, lo, hi)
    BY <2>1 DEF UpdateFrom
  <2>2. CASE ~Apart(v, lo, hi) /\ Within(v, lo, hi)
    BY <2>2 DEF UpdateFrom
  <2>3. CASE ~Apart(v, lo, hi) /\ ~Within(v, lo, hi)
    <3>1. f[LeftHalf(v)] = g[LeftHalf(v)] /\ f[RightHalf(v)] = g[RightHalf(v)]
      BY <1>a, <1>3, <2>3
    <3> QED
      BY <2>3, <3>1 DEF UpdateFrom
  <2> QED
    BY <2>1, <2>2, <2>3
<1>4. Recursive(D, X, mu, h)
  <2>1. X # {}
    BY [u \in S |-> u] \in X
  <2> HIDE DEF mu, h, D, X
  <2> QED
    BY <1>1, <1>2, <1>3, <2>1 DEF Recursive
<1> HIDE DEF mu, h, D, X
<1>5. PICK g \in [D -> X] : g = h[g]
  BY <1>4, Recursion
<1>6. g = F(g)
  BY <1>5 DEF UpdateFrom, h
<1>7. UpdateLazy(t, n, lo, hi, op, d) = G[RootOf(n)][t]
  BY DEF UpdateLazy, D, RootOf
<1> HIDE DEF F
<1>8. G = F(G)
  BY <1>6
<1> HIDE DEF G
<1>9. \A v \in D : G[v] = [u \in S |-> UpdateFrom(lo, hi, op, d, G, v, u)]
  BY <1>8 DEF F, UpdateFrom
<1>10. \A v \in D, u \in S : G[v][u] = UpdateFrom(lo, hi, op, d, G, v, u)
  BY <1>9
<1> QED
  BY <1>7, <1>10 DEF D

Changed(n, lo, hi, op, d, c) ==
    [i \in 0..(n - 1) |-> IF lo <= i /\ i <= hi THEN (IF op = "assign" THEN d ELSE c[i] + d) ELSE c[i]]

Becomes(n, t, g, v, u, f, lo, hi, op, d) ==
    /\ Fits(n, u, f, v) /\ SameOutside(n, t, g, u, f, v)
    /\ \A i \in v[1]..v[2] : f[v][i] = Changed(n, lo, hi, op, d, g[v])[i]

(* The array after an update.                                                *)
LEMMA ChangedType ==
    ASSUME NEW n \in Nat \ {0}, NEW lo \in Int, NEW hi \in Int, NEW op, NEW d \in Int, NEW c \in Arrays(n)
    PROVE  /\ Changed(n, lo, hi, op, d, c) \in Arrays(n)
           /\ \A i \in 0..(n - 1) : Changed(n, lo, hi, op, d, c)[i] =
                 IF lo <= i /\ i <= hi THEN (IF op = "assign" THEN d ELSE c[i] + d) ELSE c[i]
BY DEF Changed, Arrays

(* A node whose cells all change.                                            *)
LEMMA ChangeWhole ==
    ASSUME NEW n, NEW t, NEW g, NEW v, Fits(n, t, g, v), NEW lo \in Int, NEW hi \in Int, Within(v, lo, hi),
           NEW op, NEW d \in Int, NEW x,
           x = IF op = "assign" THEN ApplyAssign(d, Width(v)) ELSE ApplyAdd(t[v], d, Width(v))
    PROVE  Becomes(n, t, g, v, [t EXCEPT ![v] = x], [g EXCEPT ![v] = Changed(n, lo, hi, op, d, g[v])], lo, hi, op, d)
<1> DEFINE b == Changed(n, lo, hi, op, d, g[v])
<1>0. /\ n \in Nat \ {0} /\ t \in LazyTrees(n) /\ g \in Families(n) /\ v \in Spans(n) /\ LazyAt(t, g, v)
      /\ v[1] # v[2] => Fits(n, t, g, LeftHalf(v)) /\ Fits(n, t, g, RightHalf(v))
  BY FitsParts
<1>1. PICK l \in Int, r \in Int : l = v[1] /\ r = v[2] /\ l <= r /\ lo <= l /\ r <= hi /\ 0 <= l /\ r <= n - 1
  BY <1>0, SpanRule DEF Within
<1>2. /\ g[v] \in Arrays(n) /\ IntCells(g[v], l, r) /\ t[v] \in LazyNode
      /\ \A w \in Spans(n), i \in l..r : g[w][i] \in Int
  BY <1>0, <1>1, FamilyTypes, NodeTypes
<1>3. b \in Arrays(n)
  BY <1>0, <1>2, ChangedType
<1>4. \A i \in l..r : b[i] = IF op = "assign" THEN d ELSE g[v][i] + d
  <2>1. \A i \in l..r : i \in 0..(n - 1) /\ lo <= i /\ i <= hi
    BY <1>0, <1>1
  <2>2. \A i \in 0..(n - 1) : b[i] = IF lo <= i /\ i <= hi THEN (IF op = "assign" THEN d ELSE g[v][i] + d) ELSE g[v][i]
    BY <1>0, <1>2, ChangedType
  <2> HIDE DEF b
  <2> QED
    BY <2>1, <2>2
<1>5. PICK len \in Int : len = r - l + 1 /\ Width(v) = len
  BY <1>1, r - l + 1 \in Int DEF Width
<1> HIDE DEF b
<1>6. /\ x \in LazyNode /\ Sums(x, b, l, r)
      /\ \A y \in Int : ToldCell(x, y) = IF op = "assign" THEN d ELSE ToldCell(t[v], y) + d
  <2> DEFINE f == g[v]
             k == t[v]
  <2>0. IntCells(f, l, r) /\ k \in LazyNode /\ Sums(k, f, l, r)
    BY <1>0, <1>1, <1>2 DEF LazyAt
  <2>1. CASE op = "assign"
    <3>1. \A i \in l..r : b[i] = d
      BY <1>4, <2>1
    <3>2. x = ApplyAssign(d, len)
      BY <1>5, <2>1
    <3>3. x \in LazyNode /\ x.sum = d * len /\ x.min = d /\ x.max = d /\ \A y \in Int : ToldCell(x, y) = d
      <4>1. /\ ApplyAssign(d, len) \in LazyNode /\ ApplyAssign(d, len).sum = d * len
            /\ ApplyAssign(d, len).min = d /\ ApplyAssign(d, len).max = d
            /\ \A y \in Int : ToldCell(ApplyAssign(d, len), y) = d
        BY AssignedNode
      <4> QED
        BY <3>2, <4>1
    <3>4. Sums(x, b, l, r)
      BY <1>1, <1>5, <3>1, <3>3, SumsConstant
    <3> QED
      BY <2>1, <3>3, <3>4
  <2>2. CASE op # "assign"
    <3>1. \A i \in l..r : b[i] = f[i] + d
      BY <1>4, <2>2
    <3>2. x = ApplyAdd(k, d, len)
      BY <1>5, <2>2
    <3> HIDE DEF f, k
    <3>3. /\ x \in LazyNode /\ x.sum = k.sum + d * len /\ x.min = k.min + d /\ x.max = k.max + d
          /\ \A y \in Int : ToldCell(x, y) = ToldCell(k, y) + d
      BY <2>0, <3>2, AddedNode
    <3>4. Sums(x, b, l, r)
      BY <1>5, <2>0, <3>1, <3>3, SumsShift, SMTT(20)
    <3> QED
      BY <2>2, <3>3, <3>4 DEF k
  <2> QED
    BY <2>1, <2>2
<1>7. ASSUME v[1] # v[2], NEW i \in l..r PROVE b[i] = ToldCell(x, g[Toward(v, i)][i])
  <2>1. g[v][i] = ToldCell(t[v], g[Toward(v, i)][i])
    BY <1>0, <1>1, <1>7 DEF LazyAt
  <2>2. g[Toward(v, i)][i] \in Int
    BY <1>0, <1>2, <1>7, TowardIsSpan
  <2> QED
    BY <1>4, <1>6, <2>1, <2>2
<1>8. Put(n, t, g, v, x, b)
  BY <1>0, <1>1, <1>3, <1>6, <1>7 DEF Put
<1>9. /\ Fits(n, [t EXCEPT ![v] = x], [g EXCEPT ![v] = b], v)
      /\ SameOutside(n, t, g, [t EXCEPT ![v] = x], [g EXCEPT ![v] = b], v)
  BY <1>8, PutFits
<1>10. [g EXCEPT ![v] = b][v] = b
  BY <1>0 DEF Families
<1> QED
  BY <1>9, <1>10 DEF Becomes, b

(* Two halves that fit, under a node with nothing to tell.                   *)
LEMMA OutsideHalves ==
    ASSUME NEW n \in Nat \ {0}, NEW v \in Spans(n), v[1] # v[2], NEW t, NEW g, NEW u, NEW f
    PROVE  /\ SameOutside(n, t, g, u, f, LeftHalf(v)) =>
                 /\ SameOutside(n, t, g, u, f, v) /\ SameInside(n, t, g, u, f, RightHalf(v))
                 /\ u[v] = t[v] /\ f[v] = g[v] /\ f[RightHalf(v)] = g[RightHalf(v)]
           /\ SameOutside(n, t, g, u, f, RightHalf(v)) =>
                 /\ SameOutside(n, t, g, u, f, v) /\ SameInside(n, t, g, u, f, LeftHalf(v))
                 /\ u[v] = t[v] /\ f[v] = g[v] /\ f[LeftHalf(v)] = g[LeftHalf(v)]
<1>1. /\ LeftHalf(v) \in Spans(n) /\ RightHalf(v) \in Spans(n)
      /\ (\A w \in Spans(n) : Inside(w, LeftHalf(v)) => Inside(w, v) /\ ~Inside(w, RightHalf(v)) /\ w # v)
      /\ (\A w \in Spans(n) : Inside(w, RightHalf(v)) => Inside(w, v) /\ ~Inside(w, LeftHalf(v)) /\ w # v)
  BY SpanRule, HalvesInside
<1>2. Inside(LeftHalf(v), LeftHalf(v)) /\ Inside(RightHalf(v), RightHalf(v)) /\ Inside(v, v)
  BY <1>1, SpanRule DEF Inside
<1> QED
  BY <1>1, <1>2 DEF SameOutside, SameInside

SameOn(n, a, b, v) == \A w \in Spans(n) : ~Inside(w, v) => a[w] = b[w]

(* What two steps inside a node leave alone.                                 *)
LEMMA OutsideTwice ==
    ASSUME NEW n, NEW v, NEW t, NEW g, NEW u, NEW f, NEW z, NEW k,
           SameOutside(n, t, g, u, f, v), SameOutside(n, u, f, z, k, v)
    PROVE  SameOutside(n, t, g, z, k, v)
BY DEF SameOutside

(* A node pulled from halves that fit, with nothing to tell, fits.           *)
LEMMA JoinFits ==
    ASSUME NEW n \in Nat \ {0}, NEW v \in Spans(n), v[1] # v[2], NEW r, NEW f,
           Fits(n, r, f, LeftHalf(v)), Fits(n, r, f, RightHalf(v)), Neutral(r[v]),
           NEW b \in Arrays(n), \A i \in v[1]..v[2] : b[i] = f[Toward(v, i)][i]
    PROVE  /\ Fits(n, Pull(r, v), [f EXCEPT ![v] = b], v)
           /\ SameOutside(n, r, f, Pull(r, v), [f EXCEPT ![v] = b], v)
           /\ [f EXCEPT ![v] = b][v] = b
<1> DEFINE x == Pulled(r[v], r[LeftHalf(v)], r[RightHalf(v)])
<1>0. /\ r \in LazyTrees(n) /\ f \in Families(n)
      /\ LazyAt(r, f, LeftHalf(v)) /\ LazyAt(r, f, RightHalf(v))
  BY FitsParts
<1>1. PICK lo \in Int, hi \in Int, m \in Int :
         /\ m \in lo..(hi - 1) /\ lo = v[1] /\ hi = v[2] /\ m = Mid(v) /\ 0 <= lo /\ hi <= n - 1
         /\ LeftHalf(v) \in Spans(n) /\ LeftHalf(v)[1] = lo /\ LeftHalf(v)[2] = m
         /\ RightHalf(v) \in Spans(n) /\ RightHalf(v)[1] = m + 1 /\ RightHalf(v)[2] = hi
  BY SpanRule
<1>2. x \in LazyNode /\ Joins(x, r[LeftHalf(v)], r[RightHalf(v)]) /\ x.add = 0 /\ x.assigned = FALSE
  <2>1. r[v] \in LazyNode /\ r[LeftHalf(v)] \in LazyNode /\ r[RightHalf(v)] \in LazyNode
    BY <1>0, <1>1, NodeTypes
  <2> QED
    BY <2>1, PulledNode DEF Neutral
<1>3. \A i \in lo..hi : b[i] \in Int
  <2>1. b \in [0..(n - 1) -> Int] /\ \A i \in lo..hi : i \in 0..(n - 1)
    BY <1>1, SMTT(20) DEF Arrays
  <2> QED
    BY <2>1
<1>4. Agree(b, f[LeftHalf(v)], lo, m)
  <2> SUFFICES ASSUME NEW i \in lo..m PROVE f[LeftHalf(v)][i] \in Int /\ b[i] = f[LeftHalf(v)][i]
    BY <1>1 DEF Agree
  <2>1. i \in lo..hi /\ Toward(v, i) = LeftHalf(v)
    BY <1>1 DEF Toward
  <2> QED
    BY <1>1, <1>3, <2>1
<1>5. Agree(b, f[RightHalf(v)], m + 1, hi)
  <2> SUFFICES ASSUME NEW i \in (m + 1)..hi PROVE f[RightHalf(v)][i] \in Int /\ b[i] = f[RightHalf(v)][i]
    BY <1>1 DEF Agree
  <2>1. i \in lo..hi /\ Toward(v, i) = RightHalf(v)
    BY <1>1 DEF Toward
  <2> QED
    BY <1>1, <1>3, <2>1
<1>6. Sums(r[LeftHalf(v)], b, lo, m) /\ Sums(r[RightHalf(v)], b, m + 1, hi)
  BY <1>0, <1>1, <1>4, <1>5, SumsAgree DEF LazyAt
<1> HIDE DEF x
<1>7. Sums(x, b, lo, hi)
  <2>1. IntCells(b, lo, hi)
    BY <1>1, <1>3 DEF IntCells
  <2>2. lo \in Int /\ hi \in Int /\ m \in lo..(hi - 1)
    BY <1>1
  <2> DEFINE a == r[LeftHalf(v)]
             c == r[RightHalf(v)]
  <2>3. Joins(x, a, c) /\ Sums(a, b, lo, m) /\ Sums(c, b, m + 1, hi)
    BY <1>2, <1>6
  <2> HIDE DEF a, c
  <2> QED
    BY <2>1, <2>2, <2>3, SumsJoin
<1>8. \A i \in lo..hi : b[i] = ToldCell(x, f[Toward(v, i)][i])
  BY <1>1, <1>2, <1>3 DEF ToldCell
<1>9. Put(n, r, f, v, x, b)
  BY <1>0, <1>1, <1>2, <1>7, <1>8 DEF Put
<1>10. Pull(r, v) = [r EXCEPT ![v] = x]
  BY DEF Pull, x
<1>11. [f EXCEPT ![v] = b][v] = b
  BY <1>0 DEF Families
<1>12. /\ Fits(n, [r EXCEPT ![v] = x], [f EXCEPT ![v] = b], v)
       /\ SameOutside(n, r, f, [r EXCEPT ![v] = x], [f EXCEPT ![v] = b], v)
  BY <1>9, PutFits
<1> QED
  BY <1>10, <1>11, <1>12, Zenon

(* An update leaves the root fitting the array as updated.                   *)
LEMMA UpdateFits ==
    ASSUME NEW n, NEW t, NEW g, Fits(n, t, g, RootOf(n)), NEW lo \in Int, NEW hi \in Int, NEW op, NEW d \in Int
    PROVE  \E f : Becomes(n, t, g, RootOf(n), UpdateLazy(t, n, lo, hi, op, d), f, lo, hi, op, d)
<1>0. n \in Nat \ {0}
  BY DEF Fits
<1>1. PICK h : /\ UpdateLazy(t, n, lo, hi, op, d) = h[RootOf(n)][t]
               /\ \A v \in Spans(n), u \in LazyTrees(n) : h[v][u] = UpdateFrom(lo, hi, op, d, h, v, u)
  BY <1>0, UpdateUnfolds
<1> DEFINE T == {v \in Spans(n) : \A u \in LazyTrees(n), k \in Families(n) :
                    Fits(n, u, k, v) => \E f \in Families(n) : Becomes(n, u, k, v, h[v][u], f, lo, hi, op, d)}
<1>2. ASSUME NEW v \in Spans(n), v[1] # v[2] => LeftHalf(v) \in T /\ RightHalf(v) \in T PROVE v \in T
  <2> SUFFICES ASSUME NEW u \in LazyTrees(n), NEW k \in Families(n), Fits(n, u, k, v)
               PROVE  \E f \in Families(n) : Becomes(n, u, k, v, h[v][u], f, lo, hi, op, d)
    OBVIOUS
  <2>0. h[v][u] = UpdateFrom(lo, hi, op, d, h, v, u)
    BY <1>1
  <2>a. k[v] \in Arrays(n) /\ v[1] \in Int /\ v[2] \in Int /\ \A i \in v[1]..v[2] : i \in 0..(n - 1)
    BY <1>0, FamilyTypes, SpanRule
  <2>b. \A i \in 0..(n - 1) : Changed(n, lo, hi, op, d, k[v])[i] =
            IF lo <= i /\ i <= hi THEN (IF op = "assign" THEN d ELSE k[v][i] + d) ELSE k[v][i]
    BY <1>0, <2>a, ChangedType
  <2>1. CASE Apart(v, lo, hi)
    <3>1. h[v][u] = u
      BY <2>0, <2>1 DEF UpdateFrom
    <3>2. \A i \in v[1]..v[2] : ~(lo <= i /\ i <= hi)
      BY <2>1, <2>a DEF Apart
    <3>3. \A i \in v[1]..v[2] : k[v][i] = Changed(n, lo, hi, op, d, k[v])[i]
      BY <2>a, <2>b, <3>2
    <3>4. Becomes(n, u, k, v, u, k, lo, hi, op, d)
      BY <3>3 DEF Becomes, SameOutside
    <3> QED
      BY <3>1, <3>4
  <2>2. CASE ~Apart(v, lo, hi) /\ Within(v, lo, hi)
    <3>1. PICK x : x = IF op = "assign" THEN ApplyAssign(d, Width(v)) ELSE ApplyAdd(u[v], d, Width(v))
      OBVIOUS
    <3>2. h[v][u] = [u EXCEPT ![v] = x]
      BY <2>0, <2>2, <3>1 DEF UpdateFrom
    <3>3. Becomes(n, u, k, v, [u EXCEPT ![v] = x], [k EXCEPT ![v] = Changed(n, lo, hi, op, d, k[v])], lo, hi, op, d)
      BY <2>2, <3>1, ChangeWhole
    <3>4. [k EXCEPT ![v] = Changed(n, lo, hi, op, d, k[v])] \in Families(n)
      BY <3>3 DEF Becomes, Fits
    <3> QED
      BY <3>2, <3>3, <3>4
  <2>3. CASE ~Apart(v, lo, hi) /\ ~Within(v, lo, hi)
    <3>1. v[1] # v[2]
      BY <1>0, <2>3, LeafApart
    <3> DEFINE L == LeftHalf(v)
               R == RightHalf(v)
               p == Push(u, v)
               q == h[L][p]
               r == h[R][q]
               b == Changed(n, lo, hi, op, d, k[v])
    <3>2. h[v][u] = Pull(r, v)
      BY <2>0, <2>3 DEF UpdateFrom
    <3>3. PICK f0 : Pushed(n, u, k, v, p, f0)
      BY <3>1, PushFits
    <3>4. /\ p \in LazyTrees(n) /\ f0 \in Families(n) /\ Fits(n, p, f0, L) /\ Fits(n, p, f0, R)
          /\ f0[v] = k[v] /\ f0[L] = k[v] /\ f0[R] = k[v] /\ Neutral(p[v]) /\ SameOutside(n, u, k, p, f0, v)
      BY <3>3 DEF Pushed
    <3>5. L \in T /\ R \in T /\ L \in Spans(n) /\ R \in Spans(n)
      BY <1>0, <1>2, <3>1, SpanRule
    <3> HIDE DEF p, L, R
    <3>6. PICK f1 \in Families(n) : Becomes(n, p, f0, L, q, f1, lo, hi, op, d)
      BY <3>4, <3>5
    <3>7. /\ Fits(n, q, f1, L) /\ q \in LazyTrees(n)
          /\ SameOutside(n, p, f0, q, f1, v) /\ SameInside(n, p, f0, q, f1, R)
          /\ q[v] = p[v] /\ f1[v] = f0[v] /\ f1[R] = f0[R]
          /\ \A i \in L[1]..L[2] : f1[L][i] = b[i]
      <4>1. Fits(n, q, f1, L) /\ SameOutside(n, p, f0, q, f1, L) /\ \A i \in L[1]..L[2] : f1[L][i] = b[i]
        BY <3>4, <3>6 DEF Becomes
      <4>2. q \in LazyTrees(n)
        BY <4>1 DEF Fits
      <4> HIDE DEF q, b
      <4> QED
        BY <1>0, <3>1, <4>1, <4>2, OutsideHalves DEF L, R
    <3>8. Fits(n, q, f1, R)
      BY <3>4, <3>7, FitsLocally
    <3> HIDE DEF q
    <3>9. PICK f2 \in Families(n) : Becomes(n, q, f1, R, r, f2, lo, hi, op, d)
      BY <3>5, <3>7, <3>8
    <3>10. /\ Fits(n, r, f2, R) /\ r \in LazyTrees(n)
           /\ SameOutside(n, q, f1, r, f2, v) /\ SameInside(n, q, f1, r, f2, L)
           /\ r[v] = q[v] /\ f2[v] = f1[v] /\ f2[L] = f1[L]
           /\ \A i \in R[1]..R[2] : f2[R][i] = b[i]
      <4>1. Fits(n, r, f2, R) /\ SameOutside(n, q, f1, r, f2, R) /\ \A i \in R[1]..R[2] : f2[R][i] = b[i]
        BY <3>4, <3>7, <3>9 DEF Becomes
      <4>2. r \in LazyTrees(n)
        BY <4>1 DEF Fits
      <4> HIDE DEF r, b
      <4> QED
        BY <1>0, <3>1, <4>1, <4>2, OutsideHalves DEF L, R
    <3>11. Fits(n, r, f2, L)
      BY <3>7, <3>10, FitsLocally
    <3> HIDE DEF r
    <3>12. b \in Arrays(n)
      BY <1>0, <2>a, ChangedType
    <3> HIDE DEF b
    <3>13. \A i \in v[1]..v[2] : b[i] = f2[Toward(v, i)][i]
      <4> SUFFICES ASSUME NEW i \in v[1]..v[2] PROVE b[i] = f2[Toward(v, i)][i]
        OBVIOUS
      <4>1. /\ L[1] = v[1] /\ L[2] = Mid(v) /\ R[1] = Mid(v) + 1 /\ R[2] = v[2] /\ Mid(v) \in Int
        BY <1>0, <2>a, <3>1, SpanRule DEF L, R
      <4>2. CASE i <= Mid(v)
        <5>1. Toward(v, i) = L /\ i \in L[1]..L[2]
          BY <2>a, <4>1, <4>2 DEF Toward, L
        <5> QED
          BY <3>7, <3>10, <5>1
      <4>3. CASE ~(i <= Mid(v))
        <5>1. Toward(v, i) = R /\ i \in R[1]..R[2]
          BY <2>a, <4>1, <4>3 DEF Toward, R
        <5> QED
          BY <3>10, <5>1
      <4> QED
        BY <4>2, <4>3
    <3>14. Neutral(r[v])
      BY <3>4, <3>7, <3>10
    <3>15. /\ Fits(n, Pull(r, v), [f2 EXCEPT ![v] = b], v)
           /\ SameOutside(n, r, f2, Pull(r, v), [f2 EXCEPT ![v] = b], v)
           /\ [f2 EXCEPT ![v] = b][v] = b
      BY <1>0, <3>1, <3>10, <3>11, <3>12, <3>13, <3>14, JoinFits DEF L, R
    <3>16. SameOutside(n, u, k, Pull(r, v), [f2 EXCEPT ![v] = b], v)
      <4>1. SameOutside(n, u, k, q, f1, v)
        BY <3>4, <3>7, OutsideTwice
      <4>2. SameOutside(n, u, k, r, f2, v)
        BY <3>10, <4>1, OutsideTwice
      <4> QED
        BY <3>15, <4>2, OutsideTwice
    <3>17. Becomes(n, u, k, v, Pull(r, v), [f2 EXCEPT ![v] = b], lo, hi, op, d)
      BY <3>15, <3>16 DEF Becomes, b
    <3>18. [f2 EXCEPT ![v] = b] \in Families(n)
      BY <3>15 DEF Fits
    <3> QED
      BY <3>2, <3>17, <3>18
  <2> QED
    BY <2>1, <2>2, <2>3
<1>3. \A v \in Spans(n) : v \in T
  <2> HIDE DEF T
  <2> QED
    BY <1>0, <1>2, BySpans
<1>4. RootOf(n) \in T /\ t \in LazyTrees(n) /\ g \in Families(n)
  <2> HIDE DEF T
  <2> QED
    BY <1>0, <1>3, RootIsSpan DEF Fits
<1> QED
  BY <1>1, <1>4

Answer(n) == [tree : LazyTrees(n), sum : Int, min : Int, max : Int]
Asked(n, lo, hi) == {w \in Spans(n) : ~Apart(w, lo, hi)}

BothAnswers(a, b) ==
    [tree |-> b.tree, sum |-> a.sum + b.sum, min |-> Smaller(a.min, b.min), max |-> Greater(a.max, b.max)]

AskLazyFrom(lo, hi, g, v, u) ==
    IF Within(v, lo, hi) THEN [tree |-> u, sum |-> u[v].sum, min |-> u[v].min, max |-> u[v].max]
    ELSE IF hi <= Mid(v) THEN g[LeftHalf(v)][Push(u, v)]
    ELSE IF lo > Mid(v) THEN g[RightHalf(v)][Push(u, v)]
    ELSE BothAnswers(g[LeftHalf(v)][Push(u, v)], g[RightHalf(v)][g[LeftHalf(v)][Push(u, v)].tree])

(* Two answers, joined.                                                      *)
LEMMA BothAnswersType ==
    ASSUME NEW n, NEW a \in Answer(n), NEW b \in Answer(n)
    PROVE  /\ BothAnswers(a, b) \in Answer(n) /\ Joins(BothAnswers(a, b), a, b)
           /\ BothAnswers(a, b).tree = b.tree
<1>1. a.sum + b.sum \in Int /\ Smaller(a.min, b.min) \in Int /\ Greater(a.max, b.max) \in Int
  BY DEF Answer, Smaller, Greater
<1>2. b.tree \in LazyTrees(n)
  BY DEF Answer
<1> QED
  BY <1>1, <1>2 DEF BothAnswers, Joins, Answer

(* Where a question goes on to.                                              *)
LEMMA AskedHalves ==
    ASSUME NEW n \in Nat \ {0}, NEW lo \in Int, NEW hi \in Int, lo <= hi,
           NEW v \in Asked(n, lo, hi), ~Within(v, lo, hi)
    PROVE  /\ v \in Spans(n) /\ v[1] # v[2] /\ LeftHalf(v) \in Spans(n) /\ RightHalf(v) \in Spans(n)
           /\ SpanSize(n)[LeftHalf(v)] < SpanSize(n)[v] /\ SpanSize(n)[RightHalf(v)] < SpanSize(n)[v]
           /\ hi <= Mid(v) => LeftHalf(v) \in Asked(n, lo, hi)
           /\ lo > Mid(v) => RightHalf(v) \in Asked(n, lo, hi)
           /\ ~(hi <= Mid(v)) /\ ~(lo > Mid(v)) =>
                 LeftHalf(v) \in Asked(n, lo, hi) /\ RightHalf(v) \in Asked(n, lo, hi)
<1>1. v \in Spans(n) /\ ~Apart(v, lo, hi)
  BY DEF Asked
<1>2. v[1] # v[2]
  BY <1>1, LeafApart
<1>3. /\ LeftHalf(v) \in Spans(n) /\ RightHalf(v) \in Spans(n)
      /\ SpanSize(n)[LeftHalf(v)] < SpanSize(n)[v] /\ SpanSize(n)[RightHalf(v)] < SpanSize(n)[v]
  BY <1>1, <1>2, SpanRule, Narrower
<1>4. /\ v[1] \in Int /\ v[2] \in Int /\ Mid(v) \in v[1]..(v[2] - 1)
      /\ LeftHalf(v)[1] = v[1] /\ LeftHalf(v)[2] = Mid(v)
      /\ RightHalf(v)[1] = Mid(v) + 1 /\ RightHalf(v)[2] = v[2]
  BY <1>1, <1>2, SpanRule
<1>5. ~(hi < v[1]) /\ ~(v[2] < lo)
  BY <1>1 DEF Apart
<1>6. ~(lo > Mid(v)) => ~Apart(LeftHalf(v), lo, hi)
  BY <1>4, <1>5 DEF Apart
<1>7. ~(hi <= Mid(v)) => ~Apart(RightHalf(v), lo, hi)
  BY <1>4, <1>5 DEF Apart
<1>8. (hi <= Mid(v) => ~(lo > Mid(v))) /\ (lo > Mid(v) => ~(hi <= Mid(v)))
  BY <1>4
<1> QED
  BY <1>1, <1>2, <1>3, <1>6, <1>7, <1>8 DEF Asked

(* AskLazy is its own recursion.                                             *)
LEMMA AskLazyUnfolds ==
    ASSUME NEW n \in Nat \ {0}, NEW t, NEW lo \in Int, NEW hi \in Int, lo <= hi
    PROVE  \E g : /\ AskLazy(t, n, lo, hi) = g[RootOf(n)][t]
                  /\ \A v \in Asked(n, lo, hi), u \in LazyTrees(n) : g[v][u] = AskLazyFrom(lo, hi, g, v, u)
<1> DEFINE D == Asked(n, lo, hi)
           S == LazyTrees(n)
           A == Answer(n)
           X == [S -> A]
           mu == [v \in D |-> SpanSize(n)[v]]
           h == [g \in [D -> X] |-> [v \in D |-> [u \in S |-> AskLazyFrom(lo, hi, g, v, u)]]]
           F(ask) == [v \in {w \in Spans(n) : ~Apart(w, lo, hi)} |-> [u \in LazyTrees(n) |->
               IF Within(v, lo, hi)
               THEN [tree |-> u, sum |-> u[v].sum, min |-> u[v].min, max |-> u[v].max]
               ELSE IF hi <= Mid(v) THEN ask[LeftHalf(v)][Push(u, v)]
               ELSE IF lo > Mid(v) THEN ask[RightHalf(v)][Push(u, v)]
               ELSE LET first == ask[LeftHalf(v)][Push(u, v)]
                        second == ask[RightHalf(v)][first.tree]
                    IN  [tree |-> second.tree, sum |-> first.sum + second.sum,
                         min |-> Smaller(first.min, second.min), max |-> Greater(first.max, second.max)]]]
           G == CHOOSE g : g = F(g)
<1>1. mu \in [D -> Nat]
  BY Narrower DEF Asked
<1>a. ASSUME NEW v \in D, ~Within(v, lo, hi)
      PROVE  /\ v \in Spans(n) /\ v[1] # v[2]
             /\ LeftHalf(v) \in D => mu[LeftHalf(v)] < mu[v]
             /\ RightHalf(v) \in D => mu[RightHalf(v)] < mu[v]
             /\ hi <= Mid(v) => LeftHalf(v) \in D
             /\ lo > Mid(v) => RightHalf(v) \in D
             /\ ~(hi <= Mid(v)) /\ ~(lo > Mid(v)) => LeftHalf(v) \in D /\ RightHalf(v) \in D
  BY <1>a, AskedHalves
<1>b. ASSUME NEW a \in A PROVE a.tree \in S
  BY DEF Answer
<1>2. h \in [[D -> X] -> [D -> X]]
  <2> SUFFICES ASSUME NEW g \in [D -> X], NEW v \in D, NEW u \in S PROVE AskLazyFrom(lo, hi, g, v, u) \in A
    OBVIOUS
  <2>1. CASE Within(v, lo, hi)
    <3>1. u[v].sum \in Int /\ u[v].min \in Int /\ u[v].max \in Int
      BY NodeTypes DEF Asked
    <3> QED
      BY <2>1, <3>1 DEF AskLazyFrom, Answer
  <2>2. CASE ~Within(v, lo, hi)
    <3>1. Push(u, v) \in S
      BY <1>a, <2>2, PushType
    <3> HIDE DEF S, A, D, mu, h, F
    <3>2. \A w \in D : g[w] \in [S -> A]
      OBVIOUS
    <3>3. CASE hi <= Mid(v)
      BY <1>a, <2>2, <3>1, <3>2, <3>3 DEF AskLazyFrom
    <3>4. CASE ~(hi <= Mid(v)) /\ lo > Mid(v)
      BY <1>a, <2>2, <3>1, <3>2, <3>4 DEF AskLazyFrom
    <3>5. CASE ~(hi <= Mid(v)) /\ ~(lo > Mid(v))
      <4>1. g[LeftHalf(v)] \in [S -> A] /\ g[RightHalf(v)] \in [S -> A]
        BY <1>a, <2>2, <3>2, <3>5
      <4>2. PICK a \in A : a = g[LeftHalf(v)][Push(u, v)]
        BY <3>1, <4>1
      <4>3. PICK b \in A : b = g[RightHalf(v)][a.tree]
        BY <1>b, <4>1
      <4>4. BothAnswers(a, b) \in A
        BY BothAnswersType DEF A
      <4>5. AskLazyFrom(lo, hi, g, v, u) = BothAnswers(a, b)
        BY <2>2, <3>5, <4>2, <4>3 DEF AskLazyFrom
      <4> QED
        BY <4>4, <4>5
    <3> QED
      BY <3>3, <3>4, <3>5
  <2> QED
    BY <2>1, <2>2
<1>3. ASSUME NEW f \in [D -> X], NEW g \in [D -> X], NEW v \in D,
             \A e \in D : mu[e] < mu[v] => f[e] = g[e]
      PROVE  h[f][v] = h[g][v]
  <2> SUFFICES ASSUME NEW u \in S PROVE AskLazyFrom(lo, hi, f, v, u) = AskLazyFrom(lo, hi, g, v, u)
    OBVIOUS
  <2> HIDE DEF h, mu, D, S, A, X, F
  <2>1. CASE Within(v, lo, hi)
    BY <2>1 DEF AskLazyFrom
  <2>2. CASE ~Within(v, lo, hi)
    <3>1. LeftHalf(v) \in D => f[LeftHalf(v)] = g[LeftHalf(v)]
      BY <1>a, <1>3, <2>2
    <3>2. RightHalf(v) \in D => f[RightHalf(v)] = g[RightHalf(v)]
      BY <1>a, <1>3, <2>2
    <3>3. CASE hi <= Mid(v)
      BY <1>a, <2>2, <3>1, <3>3 DEF AskLazyFrom
    <3>4. CASE ~(hi <= Mid(v)) /\ lo > Mid(v)
      BY <1>a, <2>2, <3>2, <3>4 DEF AskLazyFrom
    <3>5. CASE ~(hi <= Mid(v)) /\ ~(lo > Mid(v))
      BY <1>a, <2>2, <3>1, <3>2, <3>5 DEF AskLazyFrom
    <3> QED
      BY <3>3, <3>4, <3>5
  <2> QED
    BY <2>1, <2>2
<1>4. Recursive(D, X, mu, h)
  <2>1. X # {}
    <3>1. [u \in S |-> [tree |-> u, sum |-> 0, min |-> 0, max |-> 0]] \in X
      BY DEF Answer
    <3> QED
      BY <3>1
  <2> HIDE DEF mu, h, D, X
  <2> QED
    BY <1>1, <1>2, <1>3, <2>1 DEF Recursive
<1> HIDE DEF mu, h, D, X
<1>5. PICK g \in [D -> X] : g = h[g]
  BY <1>4, Recursion
<1>6. g = F(g)
  BY <1>5 DEF AskLazyFrom, BothAnswers, h, D, Asked
<1>7. AskLazy(t, n, lo, hi) = G[RootOf(n)][t]
  BY DEF AskLazy, RootOf
<1> HIDE DEF F
<1>8. G = F(G)
  BY <1>6
<1> HIDE DEF G
<1>9. \A v \in D : G[v] = [u \in S |-> AskLazyFrom(lo, hi, G, v, u)]
  BY <1>8 DEF F, AskLazyFrom, BothAnswers, D, Asked
<1>10. \A v \in D, u \in S : G[v][u] = AskLazyFrom(lo, hi, G, v, u)
  BY <1>9
<1> QED
  BY <1>7, <1>10 DEF D

-----------------------------------------------------------------------------
(* An answer about a node's cells from lo to hi, and the tree it leaves.     *)
Answers(n, t, g, v, a, f, lo, hi) ==
    /\ a \in Answer(n) /\ Fits(n, a.tree, f, v) /\ SameOutside(n, t, g, a.tree, f, v)
    /\ f[v] = g[v] /\ Sums(a, g[v], Greater(v[1], lo), Smaller(v[2], hi))

(* A node with nothing to tell, above halves that fit, fits as it is.        *)
LEMMA QuietFits ==
    ASSUME NEW n \in Nat \ {0}, NEW v \in Spans(n), v[1] # v[2], NEW r, NEW f,
           Fits(n, r, f, LeftHalf(v)), Fits(n, r, f, RightHalf(v)),
           Neutral(r[v]), Sums(r[v], f[v], v[1], v[2]),
           f[LeftHalf(v)] = f[v], f[RightHalf(v)] = f[v]
    PROVE  Fits(n, r, f, v)
<1> DEFINE x == r[v]
           b == f[v]
<1>0. r \in LazyTrees(n) /\ f \in Families(n)
  BY DEF Fits
<1>1. x \in LazyNode /\ b \in Arrays(n) /\ \A i \in v[1]..v[2] : b[i] \in Int
  BY <1>0, NodeTypes, FamilyTypes
<1>2. \A i \in v[1]..v[2] : b[i] = ToldCell(x, f[Toward(v, i)][i])
  BY <1>1 DEF ToldCell, Neutral, Toward
<1>3. [r EXCEPT ![v] = x] = r /\ [f EXCEPT ![v] = b] = f
  BY <1>0 DEF LazyTrees, Families
<1> HIDE DEF x, b
<1>4. Put(n, r, f, v, x, b)
  BY <1>0, <1>1, <1>2 DEF Put, x, b
<1>5. Fits(n, [r EXCEPT ![v] = x], [f EXCEPT ![v] = b], v)
  BY <1>4, PutFits
<1> QED
  BY <1>3, <1>5

(* A query answers for the array, and leaves a tree that fits it still.      *)
LEMMA AskFits ==
    ASSUME NEW n, NEW t, NEW g, Fits(n, t, g, RootOf(n)), NEW lo \in 0..(n - 1), NEW hi \in lo..(n - 1)
    PROVE  \E f : Answers(n, t, g, RootOf(n), AskLazy(t, n, lo, hi), f, lo, hi)
<1>0. n \in Nat \ {0} /\ lo \in Int /\ hi \in Int /\ lo <= hi
  BY DEF Fits
<1>1. PICK h : /\ AskLazy(t, n, lo, hi) = h[RootOf(n)][t]
               /\ \A v \in Asked(n, lo, hi), u \in LazyTrees(n) : h[v][u] = AskLazyFrom(lo, hi, h, v, u)
  BY <1>0, AskLazyUnfolds
<1> DEFINE T == {v \in Spans(n) : v \in Asked(n, lo, hi) =>
                   \A u \in LazyTrees(n), k \in Families(n) :
                      Fits(n, u, k, v) => \E f \in Families(n) : Answers(n, u, k, v, h[v][u], f, lo, hi)}
<1>2. ASSUME NEW v \in Spans(n), v[1] # v[2] => LeftHalf(v) \in T /\ RightHalf(v) \in T PROVE v \in T
  <2> SUFFICES ASSUME v \in Asked(n, lo, hi), NEW u \in LazyTrees(n), NEW k \in Families(n), Fits(n, u, k, v)
               PROVE  \E f \in Families(n) : Answers(n, u, k, v, h[v][u], f, lo, hi)
    OBVIOUS
  <2>0. h[v][u] = AskLazyFrom(lo, hi, h, v, u)
    BY <1>1
  <2>a. v[1] \in Int /\ v[2] \in Int /\ v[1] <= v[2]
    BY <1>0, SpanRule
  <2>1. CASE Within(v, lo, hi)
    <3> DEFINE a == [tree |-> u, sum |-> u[v].sum, min |-> u[v].min, max |-> u[v].max]
    <3>1. h[v][u] = a
      BY <2>0, <2>1 DEF AskLazyFrom
    <3>2. a \in Answer(n)
      BY NodeTypes DEF Answer
    <3>3. Greater(v[1], lo) = v[1] /\ Smaller(v[2], hi) = v[2]
      BY <1>0, <2>1, <2>a DEF Within, Greater, Smaller
    <3>4. Sums(a, k[v], v[1], v[2])
      <4>1. Sums(u[v], k[v], v[1], v[2])
        BY FitsParts DEF LazyAt
      <4> QED
        BY <4>1 DEF Sums
    <3>5. SameOutside(n, u, k, u, k, v) /\ a.tree = u
      BY DEF SameOutside
    <3> HIDE DEF a
    <3>6. Answers(n, u, k, v, a, k, lo, hi)
      BY <3>2, <3>3, <3>4, <3>5 DEF Answers
    <3> QED
      BY <3>1, <3>6
  <2>2. CASE ~Within(v, lo, hi)
    <3> DEFINE L == LeftHalf(v)
               R == RightHalf(v)
               p == Push(u, v)
               m == Mid(v)
    <3>1. /\ v[1] # v[2] /\ L \in T /\ R \in T /\ L \in Spans(n) /\ R \in Spans(n)
          /\ L[1] = v[1] /\ L[2] = m /\ R[1] = m + 1 /\ R[2] = v[2]
          /\ m \in Int /\ v[1] <= m /\ m < v[2]
      BY <1>0, <1>2, <2>2, <2>a, AskedHalves, SpanRule
    <3>2. /\ hi <= m => L \in Asked(n, lo, hi)
          /\ lo > m => R \in Asked(n, lo, hi)
          /\ ~(hi <= m) /\ ~(lo > m) => L \in Asked(n, lo, hi) /\ R \in Asked(n, lo, hi)
      BY <1>0, <2>2, AskedHalves
    <3>3. PICK f0 : Pushed(n, u, k, v, p, f0)
      BY <3>1, PushFits
    <3>4. /\ p \in LazyTrees(n) /\ f0 \in Families(n) /\ Fits(n, p, f0, L) /\ Fits(n, p, f0, R)
          /\ f0[v] = k[v] /\ f0[L] = k[v] /\ f0[R] = k[v]
          /\ Neutral(p[v]) /\ Sums(p[v], k[v], v[1], v[2]) /\ SameOutside(n, u, k, p, f0, v)
      BY <3>3 DEF Pushed
    <3>5. k[v] \in Arrays(n) /\ \A i \in v[1]..v[2] : k[v][i] \in Int
      BY <1>0, FamilyTypes
    <3> HIDE DEF p
    <3>6. CASE hi <= m
      <4>1. h[v][u] = h[L][p]
        BY <2>0, <2>2, <3>6 DEF AskLazyFrom, p
      <4> HIDE DEF L, R, m
      <4>2. PICK f1 \in Families(n) : Answers(n, p, f0, L, h[L][p], f1, lo, hi)
        BY <3>1, <3>2, <3>4, <3>6
      <4>3. PICK a : a = h[L][p]
        OBVIOUS
      <4>4. /\ a \in Answer(n) /\ Fits(n, a.tree, f1, L) /\ SameOutside(n, p, f0, a.tree, f1, L)
            /\ f1[L] = k[v] /\ Sums(a, k[v], Greater(L[1], lo), Smaller(L[2], hi))
        BY <3>4, <4>2, <4>3 DEF Answers
      <4>5. a.tree \in LazyTrees(n)
        BY <4>4 DEF Fits
      <4>6. /\ SameOutside(n, p, f0, a.tree, f1, v) /\ SameInside(n, p, f0, a.tree, f1, R)
            /\ a.tree[v] = p[v] /\ f1[v] = f0[v] /\ f1[R] = f0[R]
        BY <1>0, <3>1, <4>4, OutsideHalves DEF L, R
      <4>7. Fits(n, a.tree, f1, R)
        BY <3>4, <4>5, <4>6, FitsLocally
      <4>8. Fits(n, a.tree, f1, v)
        <5>1. Neutral(a.tree[v]) /\ Sums(a.tree[v], f1[v], v[1], v[2]) /\ f1[L] = f1[v] /\ f1[R] = f1[v]
          BY <3>4, <4>4, <4>6
        <5> QED
          BY <1>0, <3>1, <4>4, <4>7, <5>1, QuietFits DEF L, R
      <4>9. SameOutside(n, u, k, a.tree, f1, v)
        BY <3>4, <4>6, OutsideTwice
      <4>10. Greater(L[1], lo) = Greater(v[1], lo) /\ Smaller(L[2], hi) = Smaller(v[2], hi)
        BY <1>0, <2>a, <3>1, <3>6 DEF Greater, Smaller
      <4>11. f1[v] = k[v]
        BY <3>4, <4>6
      <4> QED
        BY <4>1, <4>3, <4>4, <4>8, <4>9, <4>10, <4>11 DEF Answers
    <3>7. CASE ~(hi <= m) /\ lo > m
      <4>1. h[v][u] = h[R][p]
        BY <2>0, <2>2, <3>7 DEF AskLazyFrom, p
      <4> HIDE DEF L, R, m
      <4>2. PICK f1 \in Families(n) : Answers(n, p, f0, R, h[R][p], f1, lo, hi)
        BY <3>1, <3>2, <3>4, <3>7
      <4>3. PICK a : a = h[R][p]
        OBVIOUS
      <4>4. /\ a \in Answer(n) /\ Fits(n, a.tree, f1, R) /\ SameOutside(n, p, f0, a.tree, f1, R)
            /\ f1[R] = k[v] /\ Sums(a, k[v], Greater(R[1], lo), Smaller(R[2], hi))
        BY <3>4, <4>2, <4>3 DEF Answers
      <4>5. a.tree \in LazyTrees(n)
        BY <4>4 DEF Fits
      <4>6. /\ SameOutside(n, p, f0, a.tree, f1, v) /\ SameInside(n, p, f0, a.tree, f1, L)
            /\ a.tree[v] = p[v] /\ f1[v] = f0[v] /\ f1[L] = f0[L]
        BY <1>0, <3>1, <4>4, OutsideHalves DEF L, R
      <4>7. Fits(n, a.tree, f1, L)
        BY <3>4, <4>5, <4>6, FitsLocally
      <4>8. Fits(n, a.tree, f1, v)
        <5>1. Neutral(a.tree[v]) /\ Sums(a.tree[v], f1[v], v[1], v[2]) /\ f1[L] = f1[v] /\ f1[R] = f1[v]
          BY <3>4, <4>4, <4>6
        <5> QED
          BY <1>0, <3>1, <4>4, <4>7, <5>1, QuietFits DEF L, R
      <4>9. SameOutside(n, u, k, a.tree, f1, v)
        BY <3>4, <4>6, OutsideTwice
      <4>10. Greater(R[1], lo) = Greater(v[1], lo) /\ Smaller(R[2], hi) = Smaller(v[2], hi)
        BY <1>0, <2>a, <3>1, <3>7 DEF Greater, Smaller
      <4>11. f1[v] = k[v]
        BY <3>4, <4>6
      <4> QED
        BY <4>1, <4>3, <4>4, <4>8, <4>9, <4>10, <4>11 DEF Answers
    <3>8. CASE ~(hi <= m) /\ ~(lo > m)
      <4> DEFINE a == h[L][p]
                 b == h[R][a.tree]
      <4>1. h[v][u] = BothAnswers(a, b)
        BY <2>0, <2>2, <3>8 DEF AskLazyFrom, p
      <4> HIDE DEF L, R, m
      <4>2. PICK f1 \in Families(n) : Answers(n, p, f0, L, a, f1, lo, hi)
        BY <3>1, <3>2, <3>4, <3>8
      <4> HIDE DEF a
      <4>3. /\ a \in Answer(n) /\ Fits(n, a.tree, f1, L) /\ SameOutside(n, p, f0, a.tree, f1, L)
            /\ f1[L] = k[v] /\ Sums(a, k[v], Greater(L[1], lo), Smaller(L[2], hi))
        BY <3>4, <4>2 DEF Answers
      <4>4. a.tree \in LazyTrees(n)
        BY <4>3 DEF Fits
      <4>5. /\ SameOutside(n, p, f0, a.tree, f1, v) /\ SameInside(n, p, f0, a.tree, f1, R)
            /\ a.tree[v] = p[v] /\ f1[v] = f0[v] /\ f1[R] = f0[R]
        BY <1>0, <3>1, <4>3, OutsideHalves DEF L, R
      <4>6. Fits(n, a.tree, f1, R)
        BY <3>4, <4>4, <4>5, FitsLocally
      <4>7. PICK f2 \in Families(n) : Answers(n, a.tree, f1, R, b, f2, lo, hi)
        BY <3>1, <3>2, <3>8, <4>4, <4>6
      <4> HIDE DEF b
      <4>8. /\ b \in Answer(n) /\ Fits(n, b.tree, f2, R) /\ SameOutside(n, a.tree, f1, b.tree, f2, R)
            /\ f2[R] = k[v] /\ Sums(b, k[v], Greater(R[1], lo), Smaller(R[2], hi))
        BY <3>4, <4>5, <4>7 DEF Answers
      <4>9. b.tree \in LazyTrees(n)
        BY <4>8 DEF Fits
      <4>10. /\ SameOutside(n, a.tree, f1, b.tree, f2, v) /\ SameInside(n, a.tree, f1, b.tree, f2, L)
             /\ b.tree[v] = a.tree[v] /\ f2[v] = f1[v] /\ f2[L] = f1[L]
        BY <1>0, <3>1, <4>8, OutsideHalves DEF L, R
      <4>11. Fits(n, b.tree, f2, L)
        BY <4>3, <4>9, <4>10, FitsLocally
      <4>12. Fits(n, b.tree, f2, v)
        <5>1. Neutral(b.tree[v]) /\ Sums(b.tree[v], f2[v], v[1], v[2]) /\ f2[L] = f2[v] /\ f2[R] = f2[v]
          BY <3>4, <4>3, <4>5, <4>8, <4>10
        <5> QED
          BY <1>0, <3>1, <4>8, <4>11, <5>1, QuietFits DEF L, R
      <4>13. SameOutside(n, u, k, b.tree, f2, v)
        <5>1. SameOutside(n, u, k, a.tree, f1, v)
          BY <3>4, <4>5, OutsideTwice
        <5> QED
          BY <4>10, <5>1, OutsideTwice
      <4>14. f2[v] = k[v]
        BY <3>4, <4>5, <4>10
      <4>15. BothAnswers(a, b) \in Answer(n) /\ Joins(BothAnswers(a, b), a, b) /\ BothAnswers(a, b).tree = b.tree
        BY <4>3, <4>8, BothAnswersType
      <4>16. PICK x \in Int, y \in Int : /\ x = Greater(v[1], lo) /\ y = Smaller(v[2], hi)
                                         /\ Greater(L[1], lo) = x /\ Smaller(L[2], hi) = m
                                         /\ Greater(R[1], lo) = m + 1 /\ Smaller(R[2], hi) = y
                                         /\ m \in x..(y - 1) /\ v[1] <= x /\ y <= v[2]
        BY <1>0, <2>a, <3>1, <3>8 DEF Greater, Smaller
      <4>17. IntCells(k[v], x, y)
        BY <2>a, <3>5, <4>16 DEF IntCells
      <4>18. Sums(BothAnswers(a, b), k[v], x, y)
        <5> DEFINE z == BothAnswers(a, b)
                   c == k[v]
        <5>1. Joins(z, a, b) /\ Sums(a, c, x, m) /\ Sums(b, c, m + 1, y) /\ IntCells(c, x, y)
          BY <4>3, <4>8, <4>15, <4>16, <4>17
        <5> HIDE DEF z, c
        <5>2. Sums(z, c, x, y)
          BY <4>16, <5>1, SumsJoin
        <5> QED
          BY <5>2 DEF z, c
      <4> QED
        BY <4>1, <4>12, <4>13, <4>14, <4>15, <4>16, <4>18 DEF Answers
    <3> QED
      BY <3>6, <3>7, <3>8
  <2> QED
    BY <2>1, <2>2
<1>3. \A v \in Spans(n) : v \in T
  <2> HIDE DEF T
  <2> QED
    BY <1>0, <1>2, BySpans
<1>4. RootOf(n) \in T /\ RootOf(n) \in Asked(n, lo, hi) /\ t \in LazyTrees(n) /\ g \in Families(n)
  <2>1. RootOf(n) \in Asked(n, lo, hi)
    BY <1>0, RootIsSpan DEF Asked, Apart
  <2> HIDE DEF T
  <2> QED
    BY <1>0, <1>3, <2>1, RootIsSpan DEF Fits
<1> QED
  BY <1>1, <1>4

Leaf(y) == [sum |-> y, min |-> y, max |-> y, add |-> 0, assigned |-> FALSE, assign |-> 0]
Empty == [add |-> 0, assigned |-> FALSE, assign |-> 0, sum |-> 0, min |-> 0, max |-> 0]
BuiltFrom(c, g, v) == IF v[1] = v[2] THEN Leaf(c[v[1]]) ELSE Pulled(Empty, g[LeftHalf(v)], g[RightHalf(v)])

(* The nodes a tree is built of.                                             *)
LEMMA LeafType ==
    /\ \A y \in Int : Leaf(y) \in LazyNode /\ Leaf(y).sum = y /\ Leaf(y).min = y /\ Leaf(y).max = y
    /\ Empty \in LazyNode /\ Neutral(Empty)
BY DEF Leaf, Empty, LazyNode, Neutral

(* BuildLazy is its own recursion.                                           *)
LEMMA BuildUnfolds ==
    ASSUME NEW n \in Nat \ {0}, NEW c \in Arrays(n)
    PROVE  \E g \in LazyTrees(n) : BuildLazy(c) = g /\ \A v \in Spans(n) : g[v] = BuiltFrom(c, g, v)
<1> DEFINE D == Spans(n)
           X == LazyNode
           mu == SpanSize(n)
           h == [g \in [D -> X] |-> [v \in D |-> BuiltFrom(c, g, v)]]
           F(node) == [v \in D |->
                         IF v[1] = v[2]
                         THEN [sum |-> c[v[1]], min |-> c[v[1]], max |-> c[v[1]],
                               add |-> 0, assigned |-> FALSE, assign |-> 0]
                         ELSE Pulled([add |-> 0, assigned |-> FALSE, assign |-> 0, sum |-> 0, min |-> 0, max |-> 0],
                                     node[LeftHalf(v)], node[RightHalf(v)])]
           G == CHOOSE g : g = F(g)
<1>0. Size(c) = n
  <2>1. DOMAIN c = 0..(n - 1)
    BY DEF Arrays
  <2>2. Size(c) = (n - 1) - 0 + 1
    BY <2>1, SizeOfRange, n - 1 \in Int, 0 <= (n - 1) + 1
  <2> QED
    BY <2>2
<1>1. mu \in [D -> Nat]
  BY Narrower
<1>2. h \in [[D -> X] -> [D -> X]]
  <2> SUFFICES ASSUME NEW g \in [D -> X], NEW v \in D PROVE BuiltFrom(c, g, v) \in X
    OBVIOUS
  <2>1. CASE v[1] = v[2]
    <3>1. c[v[1]] \in Int
      BY SpanRule DEF Arrays
    <3> QED
      BY <2>1, <3>1, LeafType DEF BuiltFrom
  <2>2. CASE v[1] # v[2]
    <3>1. g[LeftHalf(v)] \in X /\ g[RightHalf(v)] \in X
      BY <2>2, SpanRule
    <3> QED
      BY <2>2, <3>1, LeafType, PulledNode DEF BuiltFrom
  <2> QED
    BY <2>1, <2>2
<1>3. ASSUME NEW f \in [D -> X], NEW g \in [D -> X], NEW v \in D, \A e \in D : mu[e] < mu[v] => f[e] = g[e]
      PROVE  h[f][v] = h[g][v]
  <2>1. v[1] # v[2] => f[LeftHalf(v)] = g[LeftHalf(v)] /\ f[RightHalf(v)] = g[RightHalf(v)]
    BY <1>3, SpanRule, Narrower
  <2> QED
    BY <2>1 DEF BuiltFrom
<1>4. Recursive(D, X, mu, h)
  <2>1. X # {}
    BY LeafType
  <2> HIDE DEF mu, h, D, X
  <2> QED
    BY <1>1, <1>2, <1>3, <2>1 DEF Recursive
<1> HIDE DEF mu, h, D, X
<1>5. PICK g \in [D -> X] : g = h[g]
  BY <1>4, Recursion
<1>6. g = F(g)
  BY <1>5 DEF BuiltFrom, Leaf, Empty, h
<1>7. BuildLazy(c) = G
  BY <1>0 DEF BuildLazy, D
<1> HIDE DEF F
<1>8. G = F(G)
  BY <1>6
<1> HIDE DEF G
<1>9. \A v \in D : G[v] = BuiltFrom(c, G, v)
  BY <1>8 DEF F, BuiltFrom, Leaf, Empty
<1>10. G = [v \in D |-> BuiltFrom(c, G, v)]
  BY <1>8 DEF F, BuiltFrom, Leaf, Empty
<1>11. \A v \in D : G[v] \in X
  <2> DEFINE T == {v \in Spans(n) : G[v] \in X}
  <2>1. ASSUME NEW v \in Spans(n), v[1] # v[2] => LeftHalf(v) \in T /\ RightHalf(v) \in T PROVE v \in T
    <3>1. CASE v[1] = v[2]
      <4>1. c[v[1]] \in Int
        BY SpanRule DEF Arrays
      <4> QED
        BY <1>9, <3>1, <4>1, LeafType DEF BuiltFrom, D, X
    <3>2. CASE v[1] # v[2]
      BY <1>9, <2>1, <3>2, LeafType, PulledNode DEF BuiltFrom, D, X
    <3> QED
      BY <3>1, <3>2
  <2> HIDE DEF T
  <2>2. \A v \in Spans(n) : v \in T
    BY <2>1, BySpans
  <2> QED
    BY <2>2 DEF T, D
<1>12. G \in [D -> X]
  BY <1>10, <1>11
<1> QED
  BY <1>7, <1>9, <1>12 DEF D, X, LazyTrees

(* A tree just built answers for the array at every node.                    *)
LEMMA BuiltFits ==
    ASSUME NEW n \in Nat \ {0}, NEW c \in Arrays(n)
    PROVE  Fits(n, BuildLazy(c), [v \in Spans(n) |-> c], RootOf(n))
<1>1. PICK t \in LazyTrees(n) : BuildLazy(c) = t /\ \A v \in Spans(n) : t[v] = BuiltFrom(c, t, v)
  BY BuildUnfolds
<1> DEFINE g == [v \in Spans(n) |-> c]
<1>2. g \in Families(n) /\ \A v \in Spans(n) : g[v] = c
  BY DEF Families
<1>3. \A v \in Spans(n) : IntCells(c, v[1], v[2])
  BY SpanRule DEF IntCells, Arrays
<1> DEFINE T == {v \in Spans(n) : LazyAt(t, g, v)}
<1> HIDE DEF g
<1>4. ASSUME NEW v \in Spans(n), v[1] # v[2] => LeftHalf(v) \in T /\ RightHalf(v) \in T PROVE v \in T
  <2>1. CASE v[1] = v[2]
    <3>1. PICK i \in Int : i = v[1] /\ i = v[2] /\ c[i] \in Int
      BY <1>3, <2>1, SpanRule DEF IntCells
    <3>2. PICK x : x = t[v]
      OBVIOUS
    <3>3. x.sum = c[i] /\ x.min = c[i] /\ x.max = c[i]
      BY <1>1, <2>1, <3>1, <3>2, LeafType DEF BuiltFrom
    <3>4. Sums(x, c, i, i)
      BY <3>1, <3>3, SumsOne
    <3> QED
      BY <1>2, <2>1, <3>1, <3>2, <3>4 DEF LazyAt
  <2>2. CASE v[1] # v[2]
    <3> DEFINE l == LeftHalf(v)
               r == RightHalf(v)
    <3>1. /\ l \in T /\ r \in T /\ l \in Spans(n) /\ r \in Spans(n)
          /\ l[1] = v[1] /\ l[2] = Mid(v) /\ r[1] = Mid(v) + 1 /\ r[2] = v[2]
          /\ v[1] \in Int /\ v[2] \in Int /\ Mid(v) \in v[1]..(v[2] - 1)
      BY <1>4, <2>2, SpanRule
    <3>2. t[l] \in LazyNode /\ t[r] \in LazyNode
      BY <3>1 DEF LazyTrees
    <3>3. PICK x : x = t[v]
      OBVIOUS
    <3>4. PICK a, b : a = t[l] /\ b = t[r]
      OBVIOUS
    <3>5. x = Pulled(Empty, a, b)
      BY <1>1, <2>2, <3>3, <3>4 DEF BuiltFrom
    <3>6. /\ Joins(x, a, b) /\ x.add = Empty.add /\ x.assigned = Empty.assigned
      BY <3>2, <3>4, <3>5, LeafType, PulledNode
    <3>7. Sums(a, c, v[1], Mid(v)) /\ Sums(b, c, Mid(v) + 1, v[2])
      BY <1>2, <3>1, <3>4 DEF LazyAt
    <3> HIDE DEF l, r
    <3>8. PICK lo \in Int, hi \in Int, m \in Int : lo = v[1] /\ hi = v[2] /\ m = Mid(v) /\ m \in lo..(hi - 1)
      BY <3>1
    <3>9. Sums(a, c, lo, m) /\ Sums(b, c, m + 1, hi) /\ IntCells(c, lo, hi)
      BY <1>3, <3>7, <3>8
    <3>10. Sums(x, c, lo, hi)
      BY <3>6, <3>8, <3>9, SumsJoin
    <3>11. x.add = 0 /\ x.assigned = FALSE
      BY <3>6 DEF Empty
    <3>12. ASSUME NEW i \in lo..hi PROVE g[v][i] = ToldCell(t[v], g[Toward(v, i)][i])
      <4>1. Toward(v, i) \in Spans(n)
        BY <2>2, TowardIsSpan
      <4>2. c[i] \in Int
        BY <3>9 DEF IntCells
      <4> QED
        BY <1>2, <3>3, <3>11, <4>1, <4>2 DEF ToldCell
    <3> QED
      BY <1>2, <3>3, <3>8, <3>10, <3>12 DEF LazyAt
  <2> QED
    BY <2>1, <2>2
<1>5. \A v \in Spans(n) : LazyAt(t, g, v)
  <2> HIDE DEF T
  <2>1. \A v \in Spans(n) : v \in T
    BY <1>4, BySpans
  <2> QED
    BY <2>1 DEF T
<1>6. RootOf(n) \in Spans(n)
  BY RootIsSpan
<1>7. Fits(n, t, g, RootOf(n))
  BY <1>2, <1>5, <1>6, BelowRule DEF Fits
<1> QED
  BY <1>1, <1>7 DEF g

-----------------------------------------------------------------------------
(* The tree answers for the array.                                           *)
LazyHolds(t, n, c) ==
    n \in Nat \ {0} /\ c \in Arrays(n) /\ \E g : Fits(n, t, g, RootOf(n)) /\ g[RootOf(n)] = c

(* As built, the tree holds its array.                                       *)
LEMMA LazyBuiltHolds ==
    ASSUME NEW n \in Nat \ {0}, NEW c \in Arrays(n)
    PROVE  LazyHolds(BuildLazy(c), n, c)
<1>1. PICK g : g = [v \in Spans(n) |-> c]
  OBVIOUS
<1>2. Fits(n, BuildLazy(c), g, RootOf(n)) /\ g[RootOf(n)] = c
  BY <1>1, BuiltFits, RootIsSpan
<1> QED
  BY <1>2 DEF LazyHolds

(* An update does to the tree what it does to the array.                     *)
LEMMA LazyUpdateHolds ==
    ASSUME NEW n, NEW t, NEW c, LazyHolds(t, n, c), NEW lo \in Int, NEW hi \in Int, NEW op, NEW d \in Int
    PROVE  LazyHolds(UpdateLazy(t, n, lo, hi, op, d), n, Changed(n, lo, hi, op, d, c))
<1>1. PICK g : n \in Nat \ {0} /\ c \in Arrays(n) /\ Fits(n, t, g, RootOf(n)) /\ g[RootOf(n)] = c
  BY DEF LazyHolds
<1>2. PICK f : Becomes(n, t, g, RootOf(n), UpdateLazy(t, n, lo, hi, op, d), f, lo, hi, op, d)
  BY <1>1, UpdateFits
<1>3. PICK u : u = UpdateLazy(t, n, lo, hi, op, d)
  OBVIOUS
<1>4. /\ Fits(n, u, f, RootOf(n))
      /\ \A i \in 0..(n - 1) : f[RootOf(n)][i] = Changed(n, lo, hi, op, d, c)[i]
  BY <1>1, <1>2, <1>3, RootIsSpan DEF Becomes
<1>5. f[RootOf(n)] \in Arrays(n) /\ Changed(n, lo, hi, op, d, c) \in Arrays(n)
  BY <1>1, <1>4, RootIsSpan, FitsParts, FamilyTypes, ChangedType
<1>6. f[RootOf(n)] = Changed(n, lo, hi, op, d, c)
  <2>1. PICK a, b : a = f[RootOf(n)] /\ b = Changed(n, lo, hi, op, d, c)
    OBVIOUS
  <2>a. PICK P : P = 0..(n - 1)
    OBVIOUS
  <2>2. a \in [P -> Int] /\ b \in [P -> Int] /\ \A i \in P : a[i] = b[i]
    BY <1>4, <1>5, <2>1, <2>a DEF Arrays
  <2>3. a = b
    BY <2>2, SameFunctions
  <2> QED
    BY <2>1, <2>3
<1> QED
  BY <1>1, <1>3, <1>4, <1>5, <1>6 DEF LazyHolds

CellsOf(c, lo, hi) == {c[i] : i \in lo..hi}

AnswersFor(a, c, lo, hi) ==
    a.sum = SumOf(c, lo, hi) /\ a.min = Min(CellsOf(c, lo, hi)) /\ a.max = Max(CellsOf(c, lo, hi))

(* A query answers as the array would, and changes nothing it holds.         *)
LEMMA LazyAskHolds ==
    ASSUME NEW n, NEW t, NEW c, LazyHolds(t, n, c), NEW lo \in 0..(n - 1), NEW hi \in lo..(n - 1)
    PROVE  /\ LazyHolds(AskLazy(t, n, lo, hi).tree, n, c)
           /\ AnswersFor(AskLazy(t, n, lo, hi), c, lo, hi)
<1>1. PICK g : n \in Nat \ {0} /\ c \in Arrays(n) /\ Fits(n, t, g, RootOf(n)) /\ g[RootOf(n)] = c
  BY DEF LazyHolds
<1>2. PICK f : Answers(n, t, g, RootOf(n), AskLazy(t, n, lo, hi), f, lo, hi)
  BY <1>1, AskFits
<1>3. PICK a : a = AskLazy(t, n, lo, hi)
  OBVIOUS
<1>4. /\ Fits(n, a.tree, f, RootOf(n)) /\ f[RootOf(n)] = c
      /\ Sums(a, c, Greater(RootOf(n)[1], lo), Smaller(RootOf(n)[2], hi))
  BY <1>1, <1>2, <1>3 DEF Answers
<1>5. Greater(RootOf(n)[1], lo) = lo /\ Smaller(RootOf(n)[2], hi) = hi
  BY <1>1, RootIsSpan DEF Greater, Smaller
<1>6. Sums(a, c, lo, hi)
  BY <1>4, <1>5
<1>7. LazyHolds(a.tree, n, c)
  BY <1>1, <1>4 DEF LazyHolds
<1> DEFINE S == CellsOf(c, lo, hi)
<1>8. S \in SUBSET Int
  BY <1>1 DEF Arrays, CellsOf
<1>9. a.min \in S /\ (\A x \in S : a.min <= x) /\ a.max \in S /\ \A x \in S : x <= a.max
  <2>1. \A i \in lo..hi : c[i] \in Int
    BY <1>1 DEF Arrays
  <2> QED
    BY <1>6, <2>1 DEF Sums, IsLeast, IsMost, CellsOf
<1> HIDE DEF S
<1>10. a.min = Min(S) /\ a.max = Max(S)
  BY <1>8, <1>9, MinIs, MaxIs
<1> QED
  BY <1>3, <1>6, <1>7, <1>10 DEF Sums, S, AnswersFor

-----------------------------------------------------------------------------
(* The invariant: whichever structure it is, it holds the plain array.       *)

(* Each structure holds what the plain array does.                           *)
Holds(n) ==
    /\ cells \in [0..(n - 1) -> Int]
    /\ rangeKind = "fenwick" => FenwickHolds(structure, n, cells)
    /\ Segment => SegmentHolds(structure, n, cells)
    /\ rangeKind = "lazy" => LazyHolds(structure, n, cells)
    /\ rangeKind = "sparse" => SparseHolds(structure, n, cells)
    /\ rangeKind = "sqrt" => SqrtHolds(structure, n, cells)

RangeInv == rangeKind \in RangeKinds /\ rangeCalls \in Nat /\ \E n \in CellCounts : Holds(n)

(* How many cells there are.                                                 *)
LEMMA LengthIs ==
    ASSUME NEW n \in Nat \ {0}, NEW c, DOMAIN c = 0..(n - 1)
    PROVE  Size(c) = n
<1>1. Size(c) = (n - 1) - 0 + 1
  BY SizeOfRange, n - 1 \in Int, 0 <= (n - 1) + 1
<1> QED
  BY <1>1

(* The mode of a segment tree never changes.                                 *)
LEMMA SegmentKept ==
    ASSUME rangeKind' = rangeKind, NEW n \in CellCounts, SegmentHolds(structure', n, cells')
    PROVE  SegmentHolds(structure, n, cells)'
<1>1. /\ structure' \in [1..(2 * n - 1) -> Values] /\ cells' \in [0..(n - 1) -> Values]
      /\ \A x \in 1..(n - 1) : structure'[x] = Combine(structure'[2 * x], structure'[2 * x + 1])
      /\ \A i \in 0..(n - 1) : structure'[n + i] = cells'[i]
  BY DEF SegmentHolds, Inner
<1>2. Values' = Values /\ \A a, b : (rangeKind = rangeKind') => TRUE
  BY DEF Values
<1>3. \A x \in 1..(n - 1) : Inner(structure, n, x)'
  BY <1>1 DEF Inner, Combine
<1> QED
  BY <1>1, <1>2, <1>3 DEF SegmentHolds

(* Every structure starts holding its cells.                                 *)
LEMMA InitHolds == RangeInit => RangeInv
<1> SUFFICES ASSUME RangeInit PROVE RangeInv
  OBVIOUS
<1>0. PICK n \in CellCounts :
         /\ cells = [i \in 0..(n - 1) |-> IF rangeKind \in {"lazy", "sqrt"} THEN i ELSE 0]
         /\ structure =
                CASE rangeKind = "fenwick" -> [i \in 1..n |-> 0]
                  [] rangeKind \in {"sum", "min", "max"} -> [x \in 1..(2 * n - 1) |-> 0]
                  [] rangeKind = "lazy" -> BuildLazy(cells)
                  [] rangeKind = "sparse" -> [v \in {} |-> 0]
                  [] rangeKind = "sqrt" -> SqrtBuilt(cells)
  BY DEF RangeInit
<1>1. n \in Nat \ {0}
  BY RangeAssumption
<1>2. cells \in [0..(n - 1) -> Int] /\ (rangeKind \notin {"lazy", "sqrt"} => \A i \in 0..(n - 1) : cells[i] = 0)
  BY <1>0, <1>1
<1>3. rangeKind = "fenwick" => FenwickHolds(structure, n, cells)
  BY <1>0, <1>1, <1>2, ZeroHolds
<1>4. Segment => SegmentHolds(structure, n, cells)
  <2> HAVE Segment
  <2>1. rangeKind # "fenwick" /\ rangeKind \notin {"lazy", "sqrt"}
    BY DEF Segment
  <2>2. structure = [x \in 1..(2 * n - 1) |-> 0]
    BY <1>0, <2>1 DEF Segment
  <2>3. cells \in [0..(n - 1) -> Values] /\ \A i \in 0..(n - 1) : cells[i] = 0
    BY <1>2, <2>1, ValuesAreInt
  <2>4. SegmentHolds([x \in 1..(2 * n - 1) |-> 0], n, cells)
    BY <1>1, <2>3, ZeroTreeHolds
  <2> QED
    BY <2>2, <2>4
<1>5. rangeKind = "lazy" => LazyHolds(structure, n, cells)
  BY <1>0, <1>1, <1>2, LazyBuiltHolds DEF Arrays
<1>6. rangeKind = "sparse" => SparseHolds(structure, n, cells)
  BY <1>0, <1>1, <1>2, NothingHolds
<1>7. rangeKind = "sqrt" => SqrtHolds(structure, n, cells)
  BY <1>0, <1>1, <1>2, SqrtBuiltHolds
<1> QED
  BY <1>2, <1>3, <1>4, <1>5, <1>6, <1>7 DEF RangeInit, RangeInv, Holds

(* A step that leaves the array with as many cells as before, or with n.     *)
LEMMA StepHolds ==
    ASSUME RangeInv, RangeCall, NEW n \in CellCounts,
           cells' \in [0..(n - 1) -> Int],
           rangeKind = "fenwick" => FenwickHolds(structure', n, cells'),
           Segment => SegmentHolds(structure', n, cells'),
           rangeKind = "lazy" => LazyHolds(structure', n, cells'),
           rangeKind = "sparse" => SparseHolds(structure', n, cells'),
           rangeKind = "sqrt" => SqrtHolds(structure', n, cells')
    PROVE  RangeInv'
<1>1. rangeKind' = rangeKind /\ rangeCalls' \in Nat
  BY DEF RangeCall, RangeInv
<1>2. Segment' => SegmentHolds(structure, n, cells)'
  BY <1>1, SegmentKept DEF Segment
<1>3. rangeKind = "fenwick" => FenwickHolds(structure, n, cells)'
  BY DEF FenwickHolds
<1>4. rangeKind = "lazy" => LazyHolds(structure, n, cells)'
  BY DEF LazyHolds
<1>5. rangeKind = "sparse" => SparseHolds(structure, n, cells)'
  BY DEF SparseHolds
<1>6. rangeKind = "sqrt" => SqrtHolds(structure, n, cells)'
  BY DEF SqrtHolds
<1>7. Holds(n)'
  BY <1>1, <1>2, <1>3, <1>4, <1>5, <1>6 DEF Holds
<1> QED
  BY <1>1, <1>7 DEF RangeInv

(* What a range becomes: as many cells, each told once.                      *)
CellsTold(b, c, lo, hi, op, d) ==
    b = [i \in DOMAIN c |-> IF i \in lo..hi THEN (IF op = "assign" THEN d ELSE c[i] + d) ELSE c[i]]

(* The array of AddToRange and SetRange is the one the lemmas speak of.      *)
LEMMA CellsChanged ==
    ASSUME NEW n \in Nat \ {0}, NEW c \in [0..(n - 1) -> Int],
           NEW lo \in 0..(n - 1), NEW hi \in lo..(n - 1), NEW d \in Int, NEW op, NEW b,
           CellsTold(b, c, lo, hi, op, d)
    PROVE  /\ b \in [0..(n - 1) -> Int] /\ b = Changed(n, lo, hi, op, d, c)
           /\ op # "assign" => b = Increased(n, c, lo, hi, d)
<1>1. DOMAIN c = 0..(n - 1) /\ \A i \in 0..(n - 1) : i \in lo..hi <=> lo <= i /\ i <= hi
  OBVIOUS
<1>2. b = [i \in 0..(n - 1) |-> IF lo <= i /\ i <= hi THEN (IF op = "assign" THEN d ELSE c[i] + d) ELSE c[i]]
  BY <1>1 DEF CellsTold
<1>3. b \in [0..(n - 1) -> Int]
  BY <1>2
<1>4. op # "assign" => b = [i \in 0..(n - 1) |-> IF lo <= i /\ i <= hi THEN c[i] + d ELSE c[i]]
  BY <1>2
<1> QED
  BY <1>2, <1>3, <1>4 DEF Changed, Increased

(* SparseAddHolds, for that array.                                           *)
LEMMA SparseRaised ==
    ASSUME NEW n, NEW t, NEW c, SparseHolds(t, n, c), NEW i \in 0..(n - 1), NEW d \in Int
    PROVE  SparseHolds(SparseAdd(t, n, i, d), n, Increased(n, c, i, i, d))
<1>1. n \in Nat \ {0} /\ \A j \in 0..(n - 1) : (i <= j /\ j <= i) <=> j = i
  BY DEF SparseHolds
<1>2. Increased(n, c, i, i, d) = [j \in 0..(n - 1) |-> IF j = i THEN c[j] + d ELSE c[j]]
  BY <1>1 DEF Increased
<1> QED
  BY <1>2, SparseAddHolds

(* Each step keeps the invariant: Resize,                                    *)
LEMMA ResizeStep ==
    ASSUME RangeInv, NEW m \in CellCounts, Resize(m)
    PROVE  RangeInv'
<1>0. PICK n \in CellCounts : Holds(n)
  BY DEF RangeInv
<1>1. n \in Nat \ {0} /\ m \in Nat \ {0} /\ cells \in [0..(n - 1) -> Int] /\ DOMAIN cells = 0..(n - 1)
  BY <1>0, RangeAssumption DEF Holds
<1>2. /\ RangeCall /\ rangeKind \in {"fenwick", "sum", "min", "max"}
      /\ cells' = [i \in 0..(m - 1) |-> IF i \in 0..(n - 1) THEN cells[i] ELSE 0]
      /\ structure' = IF rangeKind = "fenwick" THEN FenwickResized(structure, m) ELSE SegResized(structure, m)
  BY <1>1 DEF Resize
<1>3. cells' \in [0..(m - 1) -> Int]
  BY <1>1, <1>2
<1>4. rangeKind = "fenwick" => FenwickHolds(structure', m, cells')
  <2> HAVE rangeKind = "fenwick"
  <2>1. FenwickHolds(structure, n, cells)
    BY <1>0 DEF Holds
  <2>2. FenwickHolds(FenwickResized(structure, m), m, [i \in 0..(m - 1) |-> IF i \in 0..(n - 1) THEN cells[i] ELSE 0])
    BY <1>1, <2>1, ResizeHolds
  <2> QED
    BY <1>2, <2>2
<1>5. Segment => SegmentHolds(structure', m, cells')
  <2> HAVE Segment
  <2>1. SegmentHolds(structure, n, cells)
    BY <1>0 DEF Holds
  <2>2. SegmentHolds(SegResized(structure, m), m, [i \in 0..(m - 1) |-> IF i \in 0..(n - 1) THEN cells[i] ELSE 0])
    BY <1>1, <2>1, SegResizeHolds
  <2>3. rangeKind # "fenwick"
    BY DEF Segment
  <2> QED
    BY <1>2, <2>2, <2>3
<1>6. rangeKind # "lazy" /\ rangeKind # "sparse" /\ rangeKind # "sqrt"
  BY <1>2
<1> QED
  BY <1>2, <1>3, <1>4, <1>5, <1>6, StepHolds

(* AddToRange,                                                               *)
LEMMA AddStep ==
    ASSUME RangeInv, NEW lo \in DOMAIN cells, NEW hi \in DOMAIN cells, NEW d \in Deltas, AddToRange(lo, hi, d)
    PROVE  RangeInv'
<1>0. PICK n \in CellCounts : Holds(n)
  BY DEF RangeInv
<1>1. n \in Nat \ {0} /\ cells \in [0..(n - 1) -> Int] /\ DOMAIN cells = 0..(n - 1) /\ Length = n
      /\ lo \in 0..(n - 1) /\ hi \in lo..(n - 1) /\ d \in Int
  BY <1>0, RangeAssumption, LengthIs DEF Holds, Length, AddToRange
<1>2. /\ RangeCall /\ (rangeKind \in {"fenwick", "sparse"} => lo = hi)
      /\ cells' = [i \in DOMAIN cells |-> IF i \in lo..hi THEN cells[i] + d ELSE cells[i]]
      /\ \/ rangeKind = "fenwick" /\ structure' = AddAt(structure, lo + 1, d)
         \/ rangeKind = "sparse" /\ structure' = SparseAdd(structure, n, lo, d)
         \/ rangeKind = "lazy" /\ structure' = UpdateLazy(structure, n, lo, hi, "add", d)
         \/ rangeKind = "sqrt" /\ structure' = SqrtAdd(structure, n, lo, hi, d)
  BY <1>1 DEF AddToRange
<1>3. /\ cells' \in [0..(n - 1) -> Int] /\ cells' = Changed(n, lo, hi, "add", d, cells)
      /\ cells' = Increased(n, cells, lo, hi, d)
  <2>1. CellsTold(cells', cells, lo, hi, "add", d)
    BY <1>2 DEF CellsTold
  <2> QED
    BY <1>1, <2>1, CellsChanged
<1>4. lo = hi => \A k \in 0..(n - 1) : cells'[k] = IF k = lo THEN cells[k] + d ELSE cells[k]
  BY <1>1, <1>2
<1>5. rangeKind = "fenwick" => FenwickHolds(structure', n, cells')
  <2> HAVE rangeKind = "fenwick"
  <2>1. FenwickHolds(structure, n, cells) /\ structure' = AddAt(structure, lo + 1, d)
    BY <1>0, <1>2 DEF Holds
  <2>2. PICK i \in 1..n : i = lo + 1
    BY <1>1
  <2>3. \A k \in 0..(n - 1) : cells'[k] = IF k = i - 1 THEN cells[k] + d ELSE cells[k]
    BY <1>1, <1>2, <1>4, <2>2
  <2>4. FenwickHolds(AddAt(structure, i, d), n, cells')
    BY <1>1, <1>3, <2>1, <2>3, AddHolds
  <2> QED
    BY <2>1, <2>2, <2>4
<1>6. rangeKind = "sparse" => SparseHolds(structure', n, cells')
  <2> HAVE rangeKind = "sparse"
  <2>1. SparseHolds(structure, n, cells) /\ structure' = SparseAdd(structure, n, lo, d) /\ lo = hi
    BY <1>0, <1>2 DEF Holds
  <2>2. SparseHolds(SparseAdd(structure, n, lo, d), n, Increased(n, cells, lo, lo, d))
    BY <1>1, <2>1, SparseRaised
  <2> QED
    BY <1>3, <2>1, <2>2
<1>7. rangeKind = "lazy" => LazyHolds(structure', n, cells')
  <2> HAVE rangeKind = "lazy"
  <2>1. LazyHolds(structure, n, cells) /\ structure' = UpdateLazy(structure, n, lo, hi, "add", d)
    BY <1>0, <1>2 DEF Holds
  <2> QED
    BY <1>1, <1>3, <2>1, LazyUpdateHolds
<1>8. rangeKind = "sqrt" => SqrtHolds(structure', n, cells')
  <2> HAVE rangeKind = "sqrt"
  <2>1. SqrtHolds(structure, n, cells) /\ structure' = SqrtAdd(structure, n, lo, hi, d)
    BY <1>0, <1>2 DEF Holds
  <2> QED
    BY <1>1, <1>3, <2>1, SqrtAddHolds
<1>9. ~Segment
  BY <1>2 DEF Segment
<1> QED
  BY <1>2, <1>3, <1>5, <1>6, <1>7, <1>8, <1>9, StepHolds

(* SetRange,                                                                 *)
LEMMA SetStep ==
    ASSUME RangeInv, NEW lo \in DOMAIN cells, NEW hi \in DOMAIN cells, NEW v \in CellValues, SetRange(lo, hi, v)
    PROVE  RangeInv'
<1>0. PICK n \in CellCounts : Holds(n)
  BY DEF RangeInv
<1>1. n \in Nat \ {0} /\ cells \in [0..(n - 1) -> Int] /\ DOMAIN cells = 0..(n - 1) /\ Length = n
      /\ lo \in 0..(n - 1) /\ hi \in lo..(n - 1) /\ v \in Int /\ v \in Values
  BY <1>0, RangeAssumption, LengthIs DEF Holds, Length, SetRange, Values
<1>2. /\ RangeCall /\ (rangeKind # "lazy" => lo = hi)
      /\ cells' = [i \in DOMAIN cells |-> IF i \in lo..hi THEN v ELSE cells[i]]
      /\ \/ rangeKind \in {"sum", "min", "max"}
            /\ structure' = Recombined([structure EXCEPT ![lo + n] = v], (lo + n) \div 2)
         \/ rangeKind = "sparse" /\ structure' = SparseAdd(structure, n, lo, v - SparsePoint(structure, n, lo))
         \/ rangeKind = "lazy" /\ structure' = UpdateLazy(structure, n, lo, hi, "assign", v)
         \/ rangeKind = "sqrt" /\ structure' = SqrtSet(structure, n, lo, v)
  BY <1>1 DEF SetRange
<1>3. cells' \in [0..(n - 1) -> Int] /\ cells' = Changed(n, lo, hi, "assign", v, cells)
  <2>1. CellsTold(cells', cells, lo, hi, "assign", v)
    BY <1>2 DEF CellsTold
  <2> QED
    BY <1>1, <2>1, CellsChanged
<1>4. lo = hi => cells' = [j \in 0..(n - 1) |-> IF j = lo THEN v ELSE cells[j]]
  <2>1. lo = hi => \A j \in 0..(n - 1) : j \in lo..hi <=> j = lo
    BY <1>1
  <2> QED
    BY <1>1, <1>2, <2>1
<1>5. Segment => SegmentHolds(structure', n, cells')
  <2> HAVE Segment
  <2>1. /\ SegmentHolds(structure, n, cells) /\ lo = hi
        /\ structure' = Recombined([structure EXCEPT ![lo + n] = v], (lo + n) \div 2)
    BY <1>0, <1>2 DEF Holds, Segment
  <2>2. cells' = [cells EXCEPT ![lo] = v]
    BY <1>1, <1>4, <2>1
  <2> QED
    BY <1>1, <2>1, <2>2, SetHolds
<1>6. rangeKind = "sparse" => SparseHolds(structure', n, cells')
  <2> HAVE rangeKind = "sparse"
  <2>1. /\ SparseHolds(structure, n, cells) /\ lo = hi
        /\ structure' = SparseAdd(structure, n, lo, v - SparsePoint(structure, n, lo))
    BY <1>0, <1>2 DEF Holds
  <2>2. SparsePoint(structure, n, lo) = cells[lo]
    BY <1>1, <2>1, PointIsCell
  <2>3. PICK d \in Int : d = v - cells[lo]
    BY <1>1
  <2>4. SparseHolds(SparseAdd(structure, n, lo, d), n, Increased(n, cells, lo, lo, d))
    BY <1>1, <2>1, SparseRaised
  <2>5. cells' = Increased(n, cells, lo, lo, d)
    <3>1. \A j \in 0..(n - 1) : /\ (lo <= j /\ j <= lo) <=> j = lo
                                /\ cells[j] \in Int /\ (j = lo => cells[j] + d = v)
      BY <1>1, <2>3
    <3> QED
      BY <1>4, <2>1, <3>1 DEF Increased
  <2> QED
    BY <2>1, <2>2, <2>3, <2>4, <2>5
<1>7. rangeKind = "lazy" => LazyHolds(structure', n, cells')
  <2> HAVE rangeKind = "lazy"
  <2>1. LazyHolds(structure, n, cells) /\ structure' = UpdateLazy(structure, n, lo, hi, "assign", v)
    BY <1>0, <1>2 DEF Holds
  <2> QED
    BY <1>1, <1>3, <2>1, LazyUpdateHolds
<1>8. rangeKind = "sqrt" => SqrtHolds(structure', n, cells')
  <2> HAVE rangeKind = "sqrt"
  <2>1. SqrtHolds(structure, n, cells) /\ structure' = SqrtSet(structure, n, lo, v) /\ lo = hi
    BY <1>0, <1>2 DEF Holds
  <2> QED
    BY <1>1, <1>4, <2>1, SqrtSetHolds
<1>9. rangeKind # "fenwick"
  BY <1>2
<1> QED
  BY <1>2, <1>3, <1>5, <1>6, <1>7, <1>8, <1>9, StepHolds

(* QueryRange, which changes a lazy tree,                                    *)
LEMMA QueryStep ==
    ASSUME RangeInv, NEW lo \in DOMAIN cells, NEW hi \in DOMAIN cells, QueryRange(lo, hi)
    PROVE  RangeInv'
<1>0. PICK n \in CellCounts : Holds(n)
  BY DEF RangeInv
<1>1. n \in Nat \ {0} /\ cells \in [0..(n - 1) -> Int] /\ DOMAIN cells = 0..(n - 1) /\ Length = n
      /\ lo \in 0..(n - 1) /\ hi \in lo..(n - 1)
  BY <1>0, RangeAssumption, LengthIs DEF Holds, Length, QueryRange
<1>2. rangeKind = "lazy" /\ RangeCall /\ structure' = AskLazy(structure, n, lo, hi).tree /\ cells' = cells
  BY <1>1 DEF QueryRange
<1>3. LazyHolds(structure, n, cells)
  BY <1>0, <1>2 DEF Holds
<1>4. LazyHolds(structure', n, cells')
  BY <1>1, <1>2, <1>3, LazyAskHolds
<1>5. cells' \in [0..(n - 1) -> Int] /\ ~Segment
  BY <1>1, <1>2 DEF Segment
<1> QED
  BY <1>2, <1>4, <1>5, StepHolds

(* and so every step.                                                        *)
LEMMA RangeStep == RangeInv /\ [RangeNext]_rangeVars => RangeInv'
<1> SUFFICES ASSUME RangeInv, [RangeNext]_rangeVars PROVE RangeInv'
  OBVIOUS
<1>1. ASSUME NEW m \in CellCounts, Resize(m) PROVE RangeInv'
  BY <1>1, ResizeStep
<1>2. ASSUME NEW lo \in DOMAIN cells, NEW hi \in DOMAIN cells, QueryRange(lo, hi) PROVE RangeInv'
  BY <1>2, QueryStep
<1>3. ASSUME NEW lo \in DOMAIN cells, NEW hi \in DOMAIN cells, NEW d \in Deltas, AddToRange(lo, hi, d)
      PROVE  RangeInv'
  BY <1>3, AddStep
<1>4. ASSUME NEW lo \in DOMAIN cells, NEW hi \in DOMAIN cells, NEW v \in CellValues, SetRange(lo, hi, v)
      PROVE  RangeInv'
  BY <1>4, SetStep
<1>5. CASE UNCHANGED rangeVars
  <2>1. rangeKind' = rangeKind /\ cells' = cells /\ structure' = structure /\ rangeCalls' = rangeCalls
    BY <1>5 DEF rangeVars
  <2>2. PICK n \in CellCounts : Holds(n)
    BY DEF RangeInv
  <2>3. Segment' => SegmentHolds(structure, n, cells)'
    BY <2>1, <2>2, SegmentKept DEF Segment, Holds
  <2>4. Holds(n)'
    BY <2>1, <2>2, <2>3 DEF Holds, FenwickHolds, LazyHolds, SparseHolds, SqrtHolds
  <2> QED
    BY <2>1, <2>4 DEF RangeInv
<1> QED
  BY <1>1, <1>2, <1>3, <1>4, <1>5 DEF RangeNext

(* A structure that holds the cells answers as they do.                      *)
LEMMA RangeInvAgrees == RangeInv => RangesAgree
<1> SUFFICES ASSUME RangeInv, NEW lo \in DOMAIN cells, NEW hi \in DOMAIN cells, lo <= hi
             PROVE  /\ rangeKind = "fenwick" => FenwickAgrees(lo, hi)
                    /\ rangeKind \in {"sum", "min", "max"} => SegmentAgrees(lo, hi)
                    /\ rangeKind = "lazy" => LazyAgrees(lo, hi)
                    /\ rangeKind = "sparse" => SparseAgrees(lo, hi)
                    /\ rangeKind = "sqrt" => SqrtAgrees(lo, hi)
  BY DEF RangesAgree
<1>0. PICK n \in CellCounts : Holds(n)
  BY DEF RangeInv
<1>1. n \in Nat \ {0} /\ cells \in [0..(n - 1) -> Int] /\ DOMAIN cells = 0..(n - 1) /\ Length = n
      /\ lo \in 0..(n - 1) /\ hi \in 0..(n - 1) /\ hi \in lo..(n - 1)
  BY <1>0, RangeAssumption, LengthIs DEF Holds, Length
<1>2. rangeKind = "fenwick" => FenwickAgrees(lo, hi)
  <2> HAVE rangeKind = "fenwick"
  <2>1. FenwickHolds(structure, n, cells)
    BY <1>0 DEF Holds
  <2>2. PrefixSum(structure, lo) = SumOf(cells, 0, lo - 1)
    BY <1>1, <2>1, PrefixIsSum
  <2>3. PICK k \in 0..n : k = hi + 1
    BY <1>1
  <2>4. PrefixSum(structure, k) = SumOf(cells, 0, k - 1)
    BY <1>1, <2>1, PrefixIsSum
  <2>5. k - 1 = hi
    BY <1>1, <2>3
  <2>6. PICK m \in Int : m = lo - 1
    BY <1>1
  <2>7. m + 1 = lo
    BY <1>1, <2>6
  <2>8. 0 <= m + 1 /\ m <= hi /\ \A i \in 0..hi : cells[i] \in Int
    BY <1>1, <2>6
  <2>9. SumOf(cells, 0, hi) = SumOf(cells, 0, m) + SumOf(cells, m + 1, hi)
    BY <1>1, <2>8, SumSplits
  <2>10. SumOf(cells, 0, m) \in Int /\ SumOf(cells, lo, hi) \in Int
    <3>1. \A i \in 0..m : cells[i] \in Int
      BY <1>1, <2>6
    <3>2. \A i \in lo..hi : cells[i] \in Int
      BY <1>1
    <3> QED
      BY <1>1, <2>6, <2>8, <3>1, <3>2, SumInt
  <2> QED
    BY <2>2, <2>3, <2>4, <2>5, <2>6, <2>7, <2>9, <2>10 DEF FenwickAgrees
<1>3. rangeKind \in {"sum", "min", "max"} => SegmentAgrees(lo, hi)
  <2> HAVE rangeKind \in {"sum", "min", "max"}
  <2>1. Segment /\ SegmentHolds(structure, n, cells)
    BY <1>0 DEF Holds, Segment
  <2> QED
    BY <1>1, <2>1, SegmentAnswers DEF SegmentAgrees
<1>4. rangeKind = "lazy" => LazyAgrees(lo, hi)
  <2> HAVE rangeKind = "lazy"
  <2>1. LazyHolds(structure, n, cells)
    BY <1>0 DEF Holds
  <2>2. Cells(lo, hi) = CellsOf(cells, lo, hi)
    BY DEF Cells, CellsOf
  <2>3. AnswersFor(AskLazy(structure, n, lo, hi), cells, lo, hi)
    BY <1>1, <2>1, LazyAskHolds
  <2> QED
    BY <1>1, <2>2, <2>3 DEF LazyAgrees, AnswersFor
<1>5. rangeKind = "sparse" => SparseAgrees(lo, hi)
  BY <1>0, <1>1, SparseAnswers DEF Holds, SparseAgrees
<1>6. rangeKind = "sqrt" => SqrtAgrees(lo, hi)
  BY <1>0, <1>1, SqrtAnswers DEF Holds, SqrtAgrees
<1> QED
  BY <1>2, <1>3, <1>4, <1>5, <1>6

(* Whatever was added, assigned and resized, in any order, and however much  *)
(* of it a lazy tree has yet to tell its leaves, every range of every one of *)
(* the five structures answers as the plain array: Fenwick prefix sums, the  *)
(* sum, min and max of a segment tree, the lazy tree's three at once, the    *)
(* sparse tree's and the square-root decomposition's sums.                   *)
THEOREM RangesAnswer == RangeSpec => []RangesAgree
<1>1. RangeInit => RangeInv
  BY InitHolds
<1>2. RangeInv /\ [RangeNext]_rangeVars => RangeInv'
  BY RangeStep
<1>3. RangeInv => RangesAgree
  BY RangeInvAgrees
<1> QED
  BY <1>1, <1>2, <1>3, PTL DEF RangeSpec
=============================================================================
