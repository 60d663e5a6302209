------------------------------ MODULE HashProofs ------------------------------
(***************************************************************************)
(* What was put in a counting Bloom filter, a cuckoo filter, a vacuum filter *)
(* or a cuckoo hash table is found: for any elements, any fingerprints and   *)
(* slots they hash to, any sizes and any sequence of calls. The recursive    *)
(* functions of the model are CHOOSEs: each is first shown to be its own     *)
(* recursion (Recursion of RangeProofs, and Rounds for the loops), and then  *)
(* what it gives is shown by induction on its rounds.                        *)
(***************************************************************************)
EXTENDS HashTables, RangeProofs

-----------------------------------------------------------------------------
(* Counting Bloom filter: room in a counter for what it counts.              *)

(* A loop of so many rounds ends: it is a function of how many it has made. *)
Rounded(N, X, first, step) == N \in Nat /\ first \in X /\ \A k \in 1..N, x \in X : step[<<k, x>>] \in X

(* Such a function exists.                                                   *)
LEMMA Rounds ==
    ASSUME NEW N, NEW X, NEW first, NEW step, Rounded(N, X, first, step)
    PROVE  \E g \in [0..N -> X] : g[0] = first /\ \A k \in 1..N : g[k] = step[<<k, g[k - 1]>>]
<1> USE DEF Rounded
<1> DEFINE D == 0..N
           mu == [k \in D |-> k]
           h == [s \in [D -> X] |-> [k \in D |-> IF k = 0 THEN first ELSE step[<<k, s[k - 1]>>]]]
<1>1. mu \in [D -> Nat]
  OBVIOUS
<1>2. h \in [[D -> X] -> [D -> X]]
  <2> SUFFICES ASSUME NEW s \in [D -> X], NEW k \in D, k # 0 PROVE step[<<k, s[k - 1]>>] \in X
    OBVIOUS
  <2>1. k \in 1..N /\ k - 1 \in D
    OBVIOUS
  <2> QED
    BY <2>1
<1>3. ASSUME NEW f \in [D -> X], NEW g \in [D -> X], NEW k \in D, \A e \in D : mu[e] < mu[k] => f[e] = g[e]
      PROVE  h[f][k] = h[g][k]
  <2>1. CASE k = 0
    BY <2>1
  <2>2. CASE k # 0
    <3>1. k - 1 \in D /\ mu[k - 1] < mu[k]
      BY <2>2
    <3>2. f[k - 1] = g[k - 1]
      BY <1>3, <3>1
    <3> QED
      BY <2>2, <3>2
  <2> QED
    BY <2>1, <2>2
<1>4. Recursive(D, X, mu, h)
  <2> HIDE DEF mu, h, D
  <2> QED
    BY <1>1, <1>2, <1>3 DEF Recursive
<1> HIDE DEF mu, h, D
<1>5. PICK g \in [D -> X] : g = h[g]
  BY <1>4, Recursion
<1>6. \A k \in 0..N : g[k] = IF k = 0 THEN first ELSE step[<<k, g[k - 1]>>]
  BY <1>5 DEF h, D
<1>7. g \in [0..N -> X]
  BY <1>5 DEF D
<1>8. g[0] = first
  <2> HIDE DEF h
  <2> QED
    BY <1>6, 0 \in 0..N
<1>9. \A k \in 1..N : g[k] = step[<<k, g[k - 1]>>]
  BY <1>6
<1> QED
  BY <1>7, <1>8, <1>9

-----------------------------------------------------------------------------
(* Room for so many things: each has a number of its own.                    *)
Room(T, m) == \E g \in [T -> 1..m] : \A x, y \in T : g[x] = g[y] => x = y

(* One more needs one number more.                                           *)
LEMMA RoomForMore ==
    ASSUME NEW T, NEW m \in Nat, Room(T, m), NEW x
    PROVE  Room(T \cup {x}, m + 1)
<1>1. PICK g \in [T -> 1..m] : \A y, z \in T : g[y] = g[z] => y = z
  BY DEF Room
<1> DEFINE h == [y \in T \cup {x} |-> IF y \in T THEN g[y] ELSE m + 1]
<1>2. h \in [T \cup {x} -> 1..(m + 1)]
  BY <1>1
<1>3. ASSUME NEW y \in T \cup {x}, NEW z \in T \cup {x}, h[y] = h[z] PROVE y = z
  <2>1. \A u \in T : g[u] \in Int /\ g[u] < m + 1
    BY <1>1
  <2> QED
    BY <1>1, <1>3, <2>1
<1> HIDE DEF h
<1> QED
  BY <1>2, <1>3 DEF Room

(* One less leaves a number free.                                            *)
LEMMA RoomForLess ==
    ASSUME NEW T, NEW m \in Nat, Room(T, m), NEW x \in T
    PROVE  m >= 1 /\ Room(T \ {x}, m - 1)
<1>1. PICK g \in [T -> 1..m] : \A y, z \in T : g[y] = g[z] => y = z
  BY DEF Room
<1>2. m >= 1
  BY <1>1, g[x] \in 1..m
<1> DEFINE h == [y \in T \ {x} |-> IF g[y] = m THEN g[x] ELSE g[y]]
<1>3. \A y \in T \ {x} : h[y] \in 1..(m - 1)
  <2> TAKE y \in T \ {x}
  <2>1. g[y] \in 1..m /\ g[x] \in 1..m /\ g[x] # g[y]
    BY <1>1
  <2> QED
    BY <2>1
<1>4. ASSUME NEW y \in T \ {x}, NEW z \in T \ {x}, h[y] = h[z] PROVE y = z
  <2>1. g[x] # g[y] /\ g[x] # g[z] /\ (g[y] = g[z] => y = z)
    BY <1>1
  <2> QED
    BY <1>4, <2>1
<1>5. h \in [T \ {x} -> 1..(m - 1)]
  BY <1>3
<1> HIDE DEF h
<1> QED
  BY <1>2, <1>4, <1>5 DEF Room

-----------------------------------------------------------------------------
(* What a counter counts: of every copy of every element, the places in its  *)
(* list of indices where the counter's stands.                               *)
Tokens(pc, i) ==
    {v \in Elements \X Nat \X Nat :
        v[2] \in 1..pc[v[1]] /\ v[3] \in 1..Len(CountersOf[v[1]]) /\ CountersOf[v[1]][v[3]] = i}
Counters == UNION {Range(CountersOf[e]) : e \in Elements}
Counts(c, T(_)) ==
    c \in [Counters -> 0..MaxCounter] /\ \A i \in Counters : c[i] < MaxCounter => Room(T(i), c[i])
CountersHold(c, pc) == Counts(c, LAMBDA i : Tokens(pc, i))

(* The indices of an element are counters.                                   *)
LEMMA CountersType ==
    ASSUME NEW e \in Elements
    PROVE  /\ CountersOf[e] \in Seq(Nat) /\ Len(CountersOf[e]) \in Nat /\ MaxCounter \in Nat \ {0}
           /\ \A k \in 1..Len(CountersOf[e]) : CountersOf[e][k] \in Counters
<1>1. CountersOf[e] \in Seq(Nat) /\ MaxCounter \in Nat \ {0}
  BY HashAssumption
<1>2. Len(CountersOf[e]) \in Nat /\ DOMAIN CountersOf[e] = 1..Len(CountersOf[e])
  BY <1>1
<1> QED
  BY <1>1, <1>2 DEF Counters, Range

(* One round: the counter of the index k is raised or lowered. *)
StepFrom(e, by, u, k) == [u EXCEPT ![CountersOf[e][k]] = IF @ < MaxCounter THEN @ + by ELSE @]

(* Stepped is its own recursion. *)
LEMMA SteppedUnfolds ==
    ASSUME NEW e \in Elements, NEW c \in [Counters -> Int], NEW by \in Int
    PROVE  \E g : /\ Stepped(c, e, by) = g[Len(CountersOf[e])] /\ g[0] = c
                  /\ \A k \in 1..Len(CountersOf[e]) : g[k] = StepFrom(e, by, g[k - 1], k)
<1> DEFINE N == Len(CountersOf[e])
           X == [Counters -> Int]
           step == [v \in (1..N) \X X |-> StepFrom(e, by, v[2], v[1])]
           F(s) == [k \in 0..Len(CountersOf[e]) |->
                      IF k = 0 THEN c
                      ELSE [s[k - 1] EXCEPT ![CountersOf[e][k]] = IF @ < MaxCounter THEN @ + by ELSE @]]
           G == CHOOSE s : s = F(s)
<1>1. N \in Nat
  BY CountersType
<1>2. \A k \in 1..N, x \in X : step[<<k, x>>] = StepFrom(e, by, x, k)
  OBVIOUS
<1>3. \A k \in 1..N, x \in X : StepFrom(e, by, x, k) \in X
  BY CountersType DEF StepFrom
<1>4. \E g \in [0..N -> X] : g[0] = c /\ \A k \in 1..N : g[k] = step[<<k, g[k - 1]>>]
  <2>1. c \in X
    OBVIOUS
  <2>2. \A k \in 1..N, x \in X : step[<<k, x>>] \in X
    BY <1>2, <1>3
  <2> HIDE DEF step, N, X
  <2>3. Rounded(N, X, c, step)
    BY <1>1, <2>1, <2>2 DEF Rounded
  <2> QED
    BY <2>3, Rounds
<1> HIDE DEF step
<1>5. PICK g \in [0..N -> X] : g[0] = c /\ \A k \in 1..N : g[k] = step[<<k, g[k - 1]>>]
  BY <1>4
<1>6. \A k \in 0..N : g[k] = IF k = 0 THEN c ELSE StepFrom(e, by, g[k - 1], k)
  <2> TAKE k \in 0..N
  <2>1. k = 0 \/ (k \in 1..N /\ k - 1 \in 0..N)
    BY <1>1
  <2>2. k # 0 => g[k - 1] \in X
    <3> HIDE DEF N, X
    <3> QED
      BY <1>5, <2>1
  <2> QED
    BY <1>2, <1>5, <2>1, <2>2
<1>7. g = F(g)
  BY <1>5, <1>6 DEF StepFrom
<1>8. Stepped(c, e, by) = G[N]
  BY DEF Stepped
<1> HIDE DEF F
<1>9. G = F(G)
  BY <1>7
<1> HIDE DEF G
<1>10. \A k \in 0..N : G[k] = IF k = 0 THEN c ELSE StepFrom(e, by, G[k - 1], k)
  BY <1>9 DEF F, StepFrom
<1> QED
  BY <1>1, <1>8, <1>10

(* The values of the counters.                                               *)
LEMMA CountsType ==
    ASSUME NEW c, NEW pc, CountersHold(c, pc)
    PROVE  c \in [Counters -> Int] /\ \A i \in Counters : c[i] \in Nat /\ c[i] <= MaxCounter
BY HashAssumption DEF CountersHold, Counts

(* An element more: its tokens fit in. *)
LEMMA BloomAddHolds ==
    ASSUME NEW pc \in [Elements -> Nat], NEW c, CountersHold(c, pc), NEW e \in Elements
    PROVE  CountersHold(BloomAdd(c, e), [pc EXCEPT ![e] = @ + 1])
<1> DEFINE N == Len(CountersOf[e])
           T(k, i) == Tokens(pc, i) \cup {<<e, pc[e] + 1, j>> : j \in {j \in 1..k : CountersOf[e][j] = i}}
           Good(g, k) == g[k] \in [Counters -> 0..MaxCounter]
                         /\ \A i \in Counters : g[k][i] < MaxCounter => Room(T(k, i), g[k][i])
<1>1. PICK g : /\ BloomAdd(c, e) = g[N] /\ g[0] = c
               /\ \A k \in 1..N : g[k] = StepFrom(e, 1, g[k - 1], k)
  BY CountsType, SteppedUnfolds DEF BloomAdd
<1>2. N \in Nat /\ MaxCounter \in Nat \ {0} /\ \A k \in 1..N : CountersOf[e][k] \in Counters
  BY CountersType
<1> HIDE DEF N
<1>3. Good(g, 0)
  <2>1. \A i : T(0, i) = Tokens(pc, i)
    OBVIOUS
  <2> HIDE DEF T
  <2> QED
    BY <1>1, <2>1 DEF CountersHold, Counts
<1>4. ASSUME NEW k \in 0..(N - 1), Good(g, k) PROVE Good(g, k + 1)
  <2> DEFINE x == CountersOf[e][k + 1]
  <2>1. k + 1 \in 1..N /\ (k + 1) - 1 = k
    BY <1>2
  <2>2. x \in Counters
    BY <1>2, <2>1
  <2>3. g[k + 1] = [g[k] EXCEPT ![x] = IF @ < MaxCounter THEN @ + 1 ELSE @]
    BY <1>1, <2>1 DEF StepFrom
  <2>4. T(k + 1, x) = T(k, x) \cup {<<e, pc[e] + 1, k + 1>>}
    <3>1. \A j \in 1..(k + 1) : j \in 1..k \/ j = k + 1
      BY <1>2
    <3>2. k + 1 \in 1..(k + 1) /\ \A j \in 1..k : j \in 1..(k + 1)
      BY <1>2
    <3> QED
      BY <3>1, <3>2
  <2>5. \A i \in Counters : i # x => T(k + 1, i) = T(k, i)
    <3>1. \A j \in 1..(k + 1) : j \in 1..k \/ j = k + 1
      BY <1>2
    <3>2. \A j \in 1..k : j \in 1..(k + 1)
      BY <1>2
    <3> QED
      BY <3>1, <3>2
  <2> HIDE DEF T, x
  <2>6. ASSUME NEW i \in Counters PROVE g[k + 1][i] \in 0..MaxCounter
                                         /\ (g[k + 1][i] < MaxCounter => Room(T(k + 1, i), g[k + 1][i]))
    <3>0. g[k][i] \in 0..MaxCounter /\ (g[k][i] < MaxCounter => Room(T(k, i), g[k][i]))
      BY <1>4
    <3>1. CASE i = x /\ g[k][i] < MaxCounter
      <4>1. g[k + 1][i] = g[k][i] + 1
        BY <1>4, <2>2, <2>3, <3>1
      <4>2. Room(T(k, x) \cup {<<e, pc[e] + 1, k + 1>>}, g[k][i] + 1)
        <5>1. g[k][i] \in Nat /\ Room(T(k, x), g[k][i])
          BY <1>2, <3>0, <3>1
        <5> QED
          BY <5>1, RoomForMore
      <4>3. g[k + 1][i] \in 0..MaxCounter
        BY <1>2, <3>0, <3>1, <4>1, <4>2
      <4>4. Room(T(k + 1, i), g[k + 1][i])
        BY <2>4, <3>1, <4>1, <4>2
      <4> QED
        BY <4>3, <4>4
    <3>2. CASE i # x
      BY <1>4, <2>3, <2>5, <3>0, <3>2
    <3>3. CASE i = x /\ ~(g[k][i] < MaxCounter)
      BY <1>4, <2>3, <3>0, <3>3
    <3> QED
      BY <3>1, <3>2, <3>3
  <2>7. g[k + 1] \in [Counters -> 0..MaxCounter]
    <3>1. g[k + 1] = [i \in Counters |-> g[k + 1][i]]
      BY <1>4, <2>3
    <3> QED
      BY <2>6, <3>1
  <2> QED
    BY <2>6, <2>7
<1>5. Good(g, N)
  <2> DEFINE S == {k \in 0..N : Good(g, k)}
  <2> HIDE DEF Good
  <2>1. 0 \in S /\ \A k \in 0..(N - 1) : k \in S => k + 1 \in S
    BY <1>2, <1>3, <1>4
  <2> HIDE DEF S
  <2>2. \A k \in 0..N : k \in S
    BY <1>2, <2>1, Upward
  <2> QED
    BY <1>2, <2>2 DEF S
<1>6. \A i : Tokens([pc EXCEPT ![e] = @ + 1], i) = T(N, i)
  <2> TAKE i
  <2> DEFINE qc == [pc EXCEPT ![e] = @ + 1]
  <2>1. qc[e] = pc[e] + 1 /\ \A f \in Elements : f # e => qc[f] = pc[f]
    OBVIOUS
  <2>2. pc[e] + 1 \in Nat /\ \A k \in Nat : k \in 1..qc[e] <=> (k \in 1..pc[e] \/ k = pc[e] + 1)
    BY <2>1
  <2> HIDE DEF qc
  <2>3. ASSUME NEW v \in Tokens(qc, i) PROVE v \in T(N, i)
    <3>1. PICK f \in Elements, k \in Nat, j \in Nat : v = <<f, k, j>> /\ k \in 1..qc[f] /\ j \in 1..Len(CountersOf[f])
                                                   /\ CountersOf[f][j] = i
      BY <2>3 DEF Tokens
    <3>2. CASE f # e \/ k \in 1..pc[e]
      BY <2>1, <3>1, <3>2 DEF Tokens
    <3>3. CASE f = e /\ k = pc[e] + 1
      BY <3>1, <3>3 DEF N
    <3> QED
      BY <2>2, <3>1, <3>2, <3>3
  <2>4. ASSUME NEW v \in T(N, i) PROVE v \in Tokens(qc, i)
    <3>1. CASE v \in Tokens(pc, i)
      <4>1. PICK f \in Elements, k \in Nat, j \in Nat : v = <<f, k, j>> /\ k \in 1..pc[f] /\ j \in 1..Len(CountersOf[f])
                                                     /\ CountersOf[f][j] = i
        BY <3>1 DEF Tokens
      <4>2. k \in 1..qc[f]
        BY <2>1, <2>2, <4>1
      <4> QED
        BY <4>1, <4>2 DEF Tokens
    <3>2. CASE v \notin Tokens(pc, i)
      <4>1. PICK j \in 1..N : v = <<e, pc[e] + 1, j>> /\ CountersOf[e][j] = i
        BY <2>4, <3>2
      <4>2. j \in Nat /\ pc[e] + 1 \in 1..qc[e]
        BY <1>2, <2>2
      <4> QED
        BY <2>2, <4>1, <4>2 DEF Tokens, N
    <3> QED
      BY <3>1, <3>2
  <2> QED
    BY <2>3, <2>4 DEF qc
<1> HIDE DEF T
<1> QED
  BY <1>1, <1>5, <1>6 DEF CountersHold, Counts

(* An element less: its tokens make room. *)
LEMMA BloomRemoveHolds ==
    ASSUME NEW pc \in [Elements -> Nat], NEW c, CountersHold(c, pc), NEW e \in Elements, pc[e] > 0
    PROVE  CountersHold(BloomRemove(c, e), [pc EXCEPT ![e] = @ - 1])
<1> DEFINE N == Len(CountersOf[e])
           T(k, i) == Tokens(pc, i) \ {<<e, pc[e], j>> : j \in 1..k}
           Good(g, k) == g[k] \in [Counters -> 0..MaxCounter]
                         /\ \A i \in Counters : g[k][i] < MaxCounter => Room(T(k, i), g[k][i])
<1>1. PICK g : /\ BloomRemove(c, e) = g[N] /\ g[0] = c
               /\ \A k \in 1..N : g[k] = StepFrom(e, -1, g[k - 1], k)
  BY CountsType, SteppedUnfolds DEF BloomRemove
<1>2. N \in Nat /\ MaxCounter \in Nat \ {0} /\ \A k \in 1..N : CountersOf[e][k] \in Counters
  BY CountersType
<1>3. Good(g, 0)
  <2>1. \A i : T(0, i) = Tokens(pc, i)
    OBVIOUS
  <2> HIDE DEF T
  <2> QED
    BY <1>1, <2>1 DEF CountersHold, Counts
<1>4. ASSUME NEW k \in 0..(N - 1), Good(g, k) PROVE Good(g, k + 1)
  <2> DEFINE x == CountersOf[e][k + 1]
             y == <<e, pc[e], k + 1>>
  <2>1. k + 1 \in 1..N /\ (k + 1) - 1 = k
    BY <1>2
  <2>2. x \in Counters
    BY <1>2, <2>1
  <2>3. g[k + 1] = [g[k] EXCEPT ![x] = IF @ < MaxCounter THEN @ + -1 ELSE @]
    BY <1>1, <2>1 DEF StepFrom
  <2>a. (\A j \in 1..(k + 1) : j \in 1..k \/ j = k + 1) /\ (\A j \in 1..k : j \in 1..(k + 1)) /\ k + 1 \in 1..(k + 1)
        /\ k + 1 \notin 1..k
    BY <1>2
  <2>4. T(k + 1, x) = T(k, x) \ {y}
    BY <2>a
  <2>5. y \in T(k, x)
    <3>1. y \in Tokens(pc, x)
      <4>1. pc[e] \in Nat /\ pc[e] \in 1..pc[e] /\ k + 1 \in Nat
        OBVIOUS
      <4> QED
        BY <2>1, <4>1 DEF Tokens
    <3>2. \A j \in 1..k : y # <<e, pc[e], j>>
      BY <2>a
    <3> QED
      BY <3>1, <3>2
  <2>6. \A i \in Counters : i # x => T(k + 1, i) = T(k, i)
    <3>1. \A i : i # x => y \notin Tokens(pc, i)
      BY DEF Tokens
    <3> QED
      BY <2>a, <3>1
  <2> HIDE DEF T, x, y
  <2>7. ASSUME NEW i \in Counters PROVE g[k + 1][i] \in 0..MaxCounter
                                         /\ (g[k + 1][i] < MaxCounter => Room(T(k + 1, i), g[k + 1][i]))
    <3>0. g[k][i] \in 0..MaxCounter /\ (g[k][i] < MaxCounter => Room(T(k, i), g[k][i]))
      BY <1>4
    <3>1. CASE i = x /\ g[k][i] < MaxCounter
      <4>1. g[k + 1][i] = g[k][i] - 1
        BY <1>4, <2>2, <2>3, <3>1, <3>0
      <4>2. g[k][i] >= 1 /\ Room(T(k, x) \ {y}, g[k][i] - 1)
        <5>1. g[k][i] \in Nat /\ Room(T(k, x), g[k][i])
          BY <1>2, <3>0, <3>1
        <5> QED
          BY <2>5, <5>1, RoomForLess
      <4>3. g[k + 1][i] \in 0..MaxCounter
        BY <1>2, <3>0, <3>1, <4>1, <4>2
      <4>4. Room(T(k + 1, i), g[k + 1][i])
        BY <2>4, <3>1, <4>1, <4>2
      <4> QED
        BY <4>3, <4>4
    <3>2. CASE i # x
      BY <1>4, <2>3, <2>6, <3>0, <3>2
    <3>3. CASE i = x /\ ~(g[k][i] < MaxCounter)
      BY <1>4, <2>3, <3>0, <3>3
    <3> QED
      BY <3>1, <3>2, <3>3
  <2>8. g[k + 1] \in [Counters -> 0..MaxCounter]
    <3>1. g[k + 1] = [i \in Counters |-> g[k + 1][i]]
      BY <1>4, <2>3
    <3> QED
      BY <2>7, <3>1
  <2> QED
    BY <2>7, <2>8
<1>5. Good(g, N)
  <2> DEFINE S == {k \in 0..N : Good(g, k)}
  <2> HIDE DEF Good, N
  <2>1. 0 \in S /\ \A k \in 0..(N - 1) : k \in S => k + 1 \in S
    BY <1>2, <1>3, <1>4
  <2> HIDE DEF S
  <2>2. \A k \in 0..N : k \in S
    BY <1>2, <2>1, Upward
  <2> QED
    BY <1>2, <2>2 DEF S
<1>6. \A i : Tokens([pc EXCEPT ![e] = @ - 1], i) = T(N, i)
  <2> TAKE i
  <2> DEFINE qc == [pc EXCEPT ![e] = @ - 1]
  <2>1. qc[e] = pc[e] - 1 /\ \A f \in Elements : f # e => qc[f] = pc[f]
    OBVIOUS
  <2>2. \A k \in Nat : k \in 1..qc[e] <=> (k \in 1..pc[e] /\ k # pc[e])
    BY <2>1
  <2> HIDE DEF qc
  <2>3. ASSUME NEW v \in Tokens(qc, i) PROVE v \in T(N, i)
    <3>1. PICK f \in Elements, k \in Nat, j \in Nat : v = <<f, k, j>> /\ k \in 1..qc[f] /\ j \in 1..Len(CountersOf[f])
                                                   /\ CountersOf[f][j] = i
      BY <2>3 DEF Tokens
    <3>2. k \in 1..pc[f] /\ (f = e => k # pc[e])
      BY <2>1, <2>2, <3>1
    <3> QED
      BY <3>1, <3>2 DEF Tokens
  <2>4. ASSUME NEW v \in T(N, i) PROVE v \in Tokens(qc, i)
    <3>1. PICK f \in Elements, k \in Nat, j \in Nat : v = <<f, k, j>> /\ k \in 1..pc[f] /\ j \in 1..Len(CountersOf[f])
                                                   /\ CountersOf[f][j] = i
      BY <2>4 DEF Tokens
    <3>2. f = e => k # pc[e]
      BY <2>4, <3>1
    <3>3. k \in 1..qc[f]
      BY <2>1, <2>2, <3>1, <3>2
    <3> QED
      BY <3>1, <3>3 DEF Tokens
  <2> QED
    BY <2>3, <2>4 DEF qc
<1> HIDE DEF T
<1> QED
  BY <1>1, <1>5, <1>6 DEF CountersHold, Counts

(* What was added and not removed has all its counters up. *)
LEMMA CountersKeep ==
    ASSUME NEW pc \in [Elements -> Nat], NEW c, CountersHold(c, pc), NEW e \in Elements, pc[e] > 0
    PROVE  BloomHolds(c, e)
<1>0. CountersOf[e] \in Seq(Nat) /\ DOMAIN CountersOf[e] = 1..Len(CountersOf[e])
  <2>1. CountersOf[e] \in Seq(Nat)
    BY CountersType
  <2> QED
    BY <2>1
<1> SUFFICES ASSUME NEW j \in 1..Len(CountersOf[e]) PROVE c[CountersOf[e][j]] >= 1
  BY <1>0 DEF BloomHolds, Range
<1> DEFINE i == CountersOf[e][j]
<1>1. i \in Counters /\ MaxCounter \in Nat \ {0} /\ j \in Nat
  BY CountersType
<1>2. <<e, 1, j>> \in Tokens(pc, i)
  <2>1. 1 \in 1..pc[e]
    OBVIOUS
  <2> QED
    BY <1>1, <2>1 DEF Tokens
<1> HIDE DEF i
<1>3. c[i] \in Nat /\ (c[i] < MaxCounter => Room(Tokens(pc, i), c[i]))
  BY <1>1, CountsType DEF CountersHold, Counts
<1>4. c[i] < MaxCounter => c[i] >= 1
  BY <1>2, <1>3, RoomForLess
<1>5. c[i] >= 1
  BY <1>1, <1>3, <1>4
<1> QED
  BY <1>5 DEF i

(* An empty filter. *)
LEMMA CountersInit ==
    ASSUME NEW pc, \A e \in Elements : pc[e] = 0
    PROVE  CountersHold([i \in Counters |-> 0], pc)
<1>1. \A i : Tokens(pc, i) = {}
  <2> SUFFICES ASSUME NEW i, NEW v \in Tokens(pc, i) PROVE FALSE
    OBVIOUS
  <2>1. v[1] \in Elements /\ v[2] \in 1..pc[v[1]]
    BY DEF Tokens
  <2>2. v[2] \in 1..0
    BY <2>1
  <2> QED
    BY <2>2
<1>2. Room({}, 0)
  <2>1. [x \in {} |-> x] \in [{} -> 1..0]
    OBVIOUS
  <2> QED
    BY <2>1 DEF Room
<1>3. MaxCounter \in Nat
  BY HashAssumption
<1> QED
  BY <1>1, <1>2, <1>3 DEF CountersHold, Counts

-----------------------------------------------------------------------------
(* Exclusive or.                                                             *)

Bit(a, b) == IF a % 2 = b % 2 THEN 0 ELSE 1

(* Xor is its own recursion. *)
LEMMA XorUnfolds ==
    /\ Xor \in [Nat \X Nat -> Nat]
    /\ \A a, b \in Nat :
          Xor[<<a, b>>] = IF <<a, b>> = <<0, 0>> THEN 0 ELSE Bit(a, b) + 2 * Xor[<<a \div 2, b \div 2>>]
<1> DEFINE D == Nat \X Nat
           mu == [v \in D |-> v[1] + v[2]]
           F(s) == [v \in Nat \X Nat |->
                       IF v = <<0, 0>> THEN 0
                       ELSE (IF v[1] % 2 = v[2] % 2 THEN 0 ELSE 1) + 2 * s[<<v[1] \div 2, v[2] \div 2>>]]
           h == [s \in [D -> Nat] |-> F(s)]
<1>1. \A v \in D : /\ v = <<v[1], v[2]>> /\ v[1] \in Nat /\ v[2] \in Nat
                   /\ <<v[1] \div 2, v[2] \div 2>> \in D
                   /\ v # <<0, 0>> => mu[<<v[1] \div 2, v[2] \div 2>>] < mu[v]
  <2> TAKE v \in D
  <2>1. v = <<v[1], v[2]>> /\ v[1] \in Nat /\ v[2] \in Nat
    OBVIOUS
  <2>2. \A a \in Nat : a \div 2 \in Nat /\ a \div 2 <= a /\ (a # 0 => a \div 2 < a)
    OBVIOUS
  <2>3. <<v[1] \div 2, v[2] \div 2>> \in D
    BY <2>1, <2>2
  <2>4. ASSUME v # <<0, 0>> PROVE (v[1] \div 2) + (v[2] \div 2) < v[1] + v[2]
    <3>1. v[1] # 0 \/ v[2] # 0
      BY <2>1, <2>4
    <3> QED
      BY <2>1, <2>2, <3>1
  <2> QED
    BY <2>1, <2>3, <2>4
<1>2. mu \in [D -> Nat]
  BY <1>1
<1>3. h \in [[D -> Nat] -> [D -> Nat]]
  <2> SUFFICES ASSUME NEW s \in [D -> Nat] PROVE F(s) \in [D -> Nat]
    OBVIOUS
  <2>1. \A v \in D : s[<<v[1] \div 2, v[2] \div 2>>] \in Nat
    BY <1>1
  <2> QED
    BY <2>1
<1>4. ASSUME NEW f \in [D -> Nat], NEW g \in [D -> Nat], NEW v \in D,
             \A w \in D : mu[w] < mu[v] => f[w] = g[w]
      PROVE  h[f][v] = h[g][v]
  <2>1. CASE v = <<0, 0>>
    BY <2>1
  <2>2. CASE v # <<0, 0>>
    <3>1. f[<<v[1] \div 2, v[2] \div 2>>] = g[<<v[1] \div 2, v[2] \div 2>>]
      BY <1>1, <1>4, <2>2
    <3> QED
      BY <2>2, <3>1
  <2> QED
    BY <2>1, <2>2
<1>5. Recursive(D, Nat, mu, h)
  <2> HIDE DEF mu, h, D
  <2> QED
    BY <1>2, <1>3, <1>4 DEF Recursive
<1> HIDE DEF mu, h, D
<1>6. PICK g \in [D -> Nat] : g = h[g]
  BY <1>5, Recursion
<1> HIDE DEF F
<1>7. g = F(g)
  BY <1>6 DEF h
<1>8. Xor = CHOOSE s : s = F(s)
  BY DEF Xor, F
<1>9. Xor = F(Xor)
  BY <1>7, <1>8
<1>10. \A v \in Nat \X Nat : Xor[v] = g[v]
  <2> DEFINE T == {v \in D : Xor[v] = g[v]}
  <2>1. ASSUME NEW v \in D, \A w \in D : mu[w] < mu[v] => w \in T PROVE v \in T
    <3> DEFINE w == <<v[1] \div 2, v[2] \div 2>>
    <3>1. v \in Nat \X Nat
      BY DEF D
    <3>2. F(Xor)[v] = IF v = <<0, 0>> THEN 0 ELSE (IF v[1] % 2 = v[2] % 2 THEN 0 ELSE 1) + 2 * Xor[w]
      BY <3>1 DEF F
    <3>3. F(g)[v] = IF v = <<0, 0>> THEN 0 ELSE (IF v[1] % 2 = v[2] % 2 THEN 0 ELSE 1) + 2 * g[w]
      BY <3>1 DEF F
    <3>4. v # <<0, 0>> => Xor[w] = g[w]
      BY <1>1, <2>1
    <3>5. F(Xor)[v] = F(g)[v]
      BY <3>2, <3>3, <3>4
    <3> QED
      BY <1>7, <1>9, <3>5
  <2> HIDE DEF T
  <2>2. \A v \in D : v \in T
    BY <1>2, <2>1, ByMeasure
  <2> QED
    BY <2>2 DEF T, D
<1>11. Xor = [v \in Nat \X Nat |-> Xor[v]]
  <2>1. F(Xor) = [v \in Nat \X Nat |-> F(Xor)[v]]
    BY DEF F
  <2> QED
    BY <1>9, <2>1
<1>12. Xor \in [Nat \X Nat -> Nat]
  <2>1. \A v \in Nat \X Nat : Xor[v] \in Nat
    BY <1>6, <1>10 DEF D
  <2> QED
    BY <1>11, <2>1
<1>13. ASSUME NEW a \in Nat, NEW b \in Nat
       PROVE  Xor[<<a, b>>] = IF <<a, b>> = <<0, 0>> THEN 0 ELSE Bit(a, b) + 2 * Xor[<<a \div 2, b \div 2>>]
  <2>1. F(Xor)[<<a, b>>] = IF <<a, b>> = <<0, 0>> THEN 0 ELSE Bit(a, b) + 2 * Xor[<<a \div 2, b \div 2>>]
    BY DEF F, Bit
  <2> QED
    BY <1>9, <2>1
<1> QED
  BY <1>12, <1>13

(* Twice the same is nothing. *)
LEMMA XorTwice ==
    ASSUME NEW a \in Nat, NEW b \in Nat
    PROVE  Xor[<<a, b>>] \in Nat /\ Xor[<<Xor[<<a, b>>], b>>] = a
<1> DEFINE D == Nat \X Nat
           mu == [v \in D |-> v[1] + v[2]]
           T == {v \in D : Xor[<<Xor[<<v[1], v[2]>>], v[2]>>] = v[1]}
<1>1. mu \in [D -> Nat]
  OBVIOUS
<1>2. ASSUME NEW v \in D, \A w \in D : mu[w] < mu[v] => w \in T PROVE v \in T
  <2> DEFINE p == v[1]
             q == v[2]
             x == Xor[<<p, q>>]
             y == Xor[<<p \div 2, q \div 2>>]
  <2>1. p \in Nat /\ q \in Nat /\ p \div 2 \in Nat /\ q \div 2 \in Nat
    OBVIOUS
  <2>2. x \in Nat /\ y \in Nat
    BY <2>1, XorUnfolds
  <2>3. CASE p = 0 /\ q = 0
    BY <2>3, XorUnfolds
  <2>4. CASE ~(p = 0 /\ q = 0)
    <3>1. Xor[<<y, q \div 2>>] = p \div 2
      <4>1. <<p \div 2, q \div 2>> \in D /\ mu[<<p \div 2, q \div 2>>] < mu[v]
        <5>1. \A c \in Nat : c \div 2 \in Nat /\ c \div 2 <= c /\ (c # 0 => c \div 2 < c)
          OBVIOUS
        <5>2. (p \div 2) + (q \div 2) < p + q
          BY <2>1, <2>4, <5>1
        <5> QED
          BY <2>1, <5>2
      <4>2. <<p \div 2, q \div 2>> \in T
        BY <1>2, <4>1
      <4> QED
        BY <4>2
    <3>2. x = Bit(p, q) + 2 * y
      BY <2>1, <2>4, XorUnfolds
    <3>3. x % 2 = Bit(p, q) /\ x \div 2 = y
      <4>1. Bit(p, q) \in {0, 1}
        BY DEF Bit
      <4> HIDE DEF x, y
      <4> QED
        BY <2>2, <3>2, <4>1
    <3>4. p = 2 * (p \div 2) + (p % 2) /\ p % 2 \in {0, 1} /\ q % 2 \in {0, 1}
      BY <2>1
    <3>5. Bit(x, q) = p % 2
      <4> HIDE DEF x, y
      <4> QED
        BY <3>3, <3>4 DEF Bit
    <3>6. CASE ~(x = 0 /\ q = 0)
      <4>1. Xor[<<x, q>>] = Bit(x, q) + 2 * Xor[<<x \div 2, q \div 2>>]
        <5> HIDE DEF x
        <5> QED
          BY <2>1, <2>2, <3>6, XorUnfolds
      <4>2. Xor[<<x \div 2, q \div 2>>] = p \div 2
        BY <3>1, <3>3
      <4>3. Xor[<<x, q>>] = p
        BY <3>4, <3>5, <4>1, <4>2
      <4> QED
        BY <4>3
    <3>7. CASE x = 0 /\ q = 0
      <4>1. y = 0 /\ q \div 2 = 0
        BY <3>3, <3>7
      <4>2. p \div 2 = 0
        BY <3>1, <4>1, XorUnfolds
      <4>3. p % 2 = 0
        BY <3>3, <3>4, <3>7 DEF Bit
      <4> QED
        BY <2>4, <3>4, <3>7, <4>2, <4>3
    <3> QED
      BY <3>6, <3>7
  <2> QED
    BY <2>3, <2>4
<1> HIDE DEF T, mu
<1>3. \A v \in D : v \in T
  <2> HIDE DEF D
  <2> QED
    BY <1>1, <1>2, ByMeasure
<1>4. <<a, b>> \in T
  BY <1>3
<1> QED
  BY <1>4, XorUnfolds DEF T

-----------------------------------------------------------------------------
(* Cuckoo and vacuum filter: whose each fingerprint is.                      *)

(* Cuckoo and vacuum filter. Beside the buckets, who each fingerprint in     *)
(* them is of: a copy of an element that has a home there.                   *)
Bucketed == hashKind \in HashKinds /\ hashKind \in {"cuckoo", "vacuum"}
BucketIds == 0..(Buckets[hashKind] - 1)
TwoHomes(e) == {Homes(e)[1], Homes(e)[2]}
CopiesOf(pc) == {v \in Elements \X Nat : v[2] \in 1..pc[v[1]]}
Owned(t, o) ==
    /\ t \in [BucketIds -> Seq(Nat)] /\ o \in [BucketIds -> [Nat -> (Elements \cup {NoKey}) \X Nat]]
    /\ \A i \in BucketIds : Len(t[i]) <= BucketSize
    /\ \A i \in BucketIds : \A j \in 1..Len(t[i]) :
          /\ o[i][j][1] \in Elements /\ t[i][j] = FingerprintOf[o[i][j][1]]
          /\ i \in TwoHomes(o[i][j][1])
Covered(t, o, c) == \E i \in BucketIds : \E j \in 1..Len(t[i]) : o[i][j] = c
Carries(t, C) == \E o : Owned(t, o) /\ \A c \in C : Covered(t, o, c)

(* Of either home the other is the alternative.                              *)
LEMMA HomesRule ==
    ASSUME Bucketed, NEW e \in Elements
    PROVE  /\ Buckets[hashKind] \in Nat \ {0} /\ FingerprintOf[e] \in Nat
           /\ Homes(e)[1] \in BucketIds /\ Homes(e)[2] \in BucketIds
           /\ \A i \in TwoHomes(e) : /\ i \in BucketIds /\ AltIndex(i, FingerprintOf[e]) \in TwoHomes(e)
                                     /\ TwoHomes(e) = {i, AltIndex(i, FingerprintOf[e])}
<1> DEFINE fp == FingerprintOf[e]
           i1 == HomeOf[e] % Buckets[hashKind]
           i2 == AltIndex(i1, fp)
<1>1. Buckets[hashKind] \in Nat \ {0} /\ fp \in Nat /\ OffsetOf[hashKind][fp] \in Nat /\ HomeOf[e] \in Nat
  BY HashAssumption, BucketAssumption DEF Bucketed
<1>2. i1 \in BucketIds
  BY <1>1 DEF BucketIds
<1>3. i2 \in BucketIds
  BY <1>2, BucketAssumption DEF Bucketed, BucketIds, AltIndex
<1>4. Homes(e) = <<i1, i2>>
  BY DEF Homes
<1>5. AltIndex(i2, fp) = i1
  <2>1. i1 \in Nat
    BY <1>1
  <2> HIDE DEF i1, fp
  <2> QED
    BY <1>1, <2>1, XorTwice DEF AltIndex
<1>6. TwoHomes(e) = {i1, i2}
  BY <1>4 DEF TwoHomes
<1> HIDE DEF i1, i2, fp
<1>7. \A i \in TwoHomes(e) : i \in BucketIds /\ AltIndex(i, fp) \in TwoHomes(e) /\ TwoHomes(e) = {i, AltIndex(i, fp)}
  BY <1>2, <1>3, <1>5, <1>6 DEF i2
<1> QED
  BY <1>1, <1>2, <1>3, <1>4, <1>7 DEF fp

(* What is owned.                                                            *)
LEMMA OwnedType ==
    ASSUME NEW t, NEW o, Owned(t, o)
    PROVE  /\ t \in [BucketIds -> Seq(Nat)] /\ o \in [BucketIds -> [Nat -> (Elements \cup {NoKey}) \X Nat]]
           /\ BucketSize \in Nat
           /\ \A a \in BucketIds : t[a] \in Seq(Nat) /\ Len(t[a]) \in Nat /\ Len(t[a]) <= BucketSize
                                  /\ o[a] \in [Nat -> (Elements \cup {NoKey}) \X Nat]
<1>1. t \in [BucketIds -> Seq(Nat)] /\ o \in [BucketIds -> [Nat -> (Elements \cup {NoKey}) \X Nat]]
      /\ \A a \in BucketIds : Len(t[a]) <= BucketSize
  BY DEF Owned
<1>2. BucketSize \in Nat
  BY HashAssumption
<1>3. \A a \in BucketIds : t[a] \in Seq(Nat)
  BY <1>1
<1>4. \A a \in BucketIds : o[a] \in [Nat -> (Elements \cup {NoKey}) \X Nat]
  BY <1>1
<1>5. ASSUME NEW a \in BucketIds
      PROVE  t[a] \in Seq(Nat) /\ Len(t[a]) \in Nat /\ Len(t[a]) <= BucketSize
             /\ o[a] \in [Nat -> (Elements \cup {NoKey}) \X Nat]
  <2>1. Len(t[a]) \in Nat
    BY <1>3
  <2> QED
    BY <1>1, <1>3, <1>4, <2>1
<1> HIDE DEF Owned
<1> QED
  BY <1>1, <1>2, <1>5

(* Whose a fingerprint is.                                                   *)
LEMMA OwnedAt ==
    ASSUME NEW t, NEW o, Owned(t, o), NEW a \in BucketIds, NEW j \in 1..Len(t[a])
    PROVE  /\ j \in Nat /\ t[a][j] \in Nat /\ o[a][j][1] \in Elements
           /\ t[a][j] = FingerprintOf[o[a][j][1]] /\ a \in TwoHomes(o[a][j][1])
<1>1. t[a] \in Seq(Nat)
  BY OwnedType
<1>2. j \in Nat /\ t[a][j] \in Nat
  BY <1>1
<1> QED
  BY <1>2 DEF Owned

(* A copy goes to the end of a bucket, *)
LEMMA AppendOwned ==
    ASSUME Bucketed, NEW t, NEW o, Owned(t, o), NEW i \in BucketIds, Len(t[i]) < BucketSize,
           NEW e \in Elements, NEW n \in Nat, i \in TwoHomes(e)
    PROVE  \E p : /\ Owned([t EXCEPT ![i] = Append(@, FingerprintOf[e])], p)
                  /\ Covered([t EXCEPT ![i] = Append(@, FingerprintOf[e])], p, <<e, n>>)
                  /\ \A d : Covered(t, o, d) => Covered([t EXCEPT ![i] = Append(@, FingerprintOf[e])], p, d)
<1> DEFINE c == <<e, n>>
           m == Len(t[i]) + 1
           u == [t EXCEPT ![i] = Append(@, FingerprintOf[e])]
           p == [o EXCEPT ![i][m] = c]
<1>1. FingerprintOf[e] \in Nat /\ BucketSize \in Nat
  BY HomesRule, HashAssumption
<1>2. \A a \in BucketIds : t[a] \in Seq(Nat) /\ Len(t[a]) \in Nat
  BY OwnedType
<1>3. u \in [BucketIds -> Seq(Nat)] /\ Len(u[i]) = m /\ m \in Nat /\ u[i][m] = FingerprintOf[e]
      /\ \A j \in 1..Len(t[i]) : u[i][j] = t[i][j]
  <2>1. u[i] = Append(t[i], FingerprintOf[e])
    BY DEF Owned
  <2>2. Append(t[i], FingerprintOf[e]) \in Seq(Nat)
    BY <1>1, <1>2
  <2>3. u \in [BucketIds -> Seq(Nat)]
    BY <2>2 DEF Owned
  <2>4. Len(Append(t[i], FingerprintOf[e])) = m /\ Append(t[i], FingerprintOf[e])[m] = FingerprintOf[e]
        /\ \A j \in 1..Len(t[i]) : Append(t[i], FingerprintOf[e])[j] = t[i][j]
    BY <1>1, <1>2
  <2> QED
    BY <1>2, <2>1, <2>3, <2>4
<1>4. \A a \in BucketIds : a # i => u[a] = t[a]
  BY DEF Owned
<1>5. p \in [BucketIds -> [Nat -> (Elements \cup {NoKey}) \X Nat]] /\ p[i][m] = c
      /\ (\A j \in Nat : j # m => p[i][j] = o[i][j]) /\ \A a \in BucketIds : a # i => p[a] = o[a]
  BY <1>3 DEF Owned
<1>6. \A j \in 1..m : j = m \/ j \in 1..Len(t[i])
  BY <1>2
<1>6a. m \in 1..m /\ \A j \in 1..Len(t[i]) : j \in 1..m /\ j # m /\ j \in Nat
  BY <1>2
<1> HIDE DEF u, p, m
<1>7. \A a \in BucketIds : Len(u[a]) <= BucketSize
  <2> TAKE a \in BucketIds
  <2>1. Len(t[a]) <= BucketSize /\ Len(t[i]) \in Nat
    BY OwnedType
  <2>2. m <= BucketSize
    BY <1>1, <2>1 DEF m
  <2> QED
    BY <1>3, <1>4, <2>1, <2>2
<1>8. ASSUME NEW a \in BucketIds, NEW j \in 1..Len(u[a])
      PROVE  p[a][j][1] \in Elements /\ u[a][j] = FingerprintOf[p[a][j][1]] /\ a \in TwoHomes(p[a][j][1])
  <2>1. CASE a # i
    <3>1. u[a] = t[a] /\ p[a] = o[a]
      BY <1>4, <1>5, <2>1
    <3> QED
      BY <1>8, <3>1, OwnedAt
  <2>2. CASE a = i /\ j = m
    <3>1. p[a][j] = c /\ c[1] = e /\ u[a][j] = FingerprintOf[e]
      BY <1>3, <1>5, <2>2
    <3> QED
      BY <2>2, <3>1
  <2>3. CASE a = i /\ j \in 1..Len(t[i])
    <3>1. u[a][j] = t[a][j] /\ p[a][j] = o[a][j]
      BY <1>3, <1>5, <1>6a, <2>3
    <3> QED
      BY <2>3, <3>1, OwnedAt
  <2> QED
    BY <1>3, <1>6, <1>8, <2>1, <2>2, <2>3
<1>9. Owned(u, p)
  BY <1>3, <1>5, <1>7, <1>8 DEF Owned
<1>10. Covered(u, p, c)
  BY <1>3, <1>5, <1>6a DEF Covered
<1>11. ASSUME NEW d, Covered(t, o, d) PROVE Covered(u, p, d)
  <2>1. PICK a \in BucketIds, j \in Nat : j \in 1..Len(t[a]) /\ o[a][j] = d
    BY <1>11 DEF Covered
  <2>2. j \in 1..Len(u[a]) /\ p[a][j] = d
    <3>1. CASE a = i
      BY <1>3, <1>5, <1>6a, <2>1, <3>1
    <3>2. CASE a # i
      BY <1>4, <1>5, <2>1, <3>2
    <3> QED
      BY <3>1, <3>2
  <2> QED
    BY <2>2 DEF Covered
<1> QED
  BY <1>9, <1>10, <1>11 DEF u

(* takes the place of another, *)
LEMMA KickOwned ==
    ASSUME Bucketed, NEW t, NEW o, Owned(t, o), NEW i \in BucketIds, NEW s \in 1..Len(t[i]),
           NEW e \in Elements, NEW n \in Nat, i \in TwoHomes(e)
    PROVE  \E p : /\ Owned([t EXCEPT ![i][s] = FingerprintOf[e]], p)
                  /\ Covered([t EXCEPT ![i][s] = FingerprintOf[e]], p, <<e, n>>)
                  /\ \A d : Covered(t, o, d) /\ d # o[i][s]
                            => Covered([t EXCEPT ![i][s] = FingerprintOf[e]], p, d)
<1> DEFINE c == <<e, n>>
           u == [t EXCEPT ![i][s] = FingerprintOf[e]]
           p == [o EXCEPT ![i][s] = c]
<1>1. FingerprintOf[e] \in Nat
  BY HomesRule
<1>2. \A a \in BucketIds : t[a] \in Seq(Nat) /\ Len(t[a]) \in Nat
  BY OwnedType
<1>3. u \in [BucketIds -> Seq(Nat)] /\ (\A a \in BucketIds : Len(u[a]) = Len(t[a]) /\ (a # i => u[a] = t[a]))
      /\ u[i][s] = FingerprintOf[e] /\ \A j \in 1..Len(t[i]) : j # s => u[i][j] = t[i][j]
  <2> DEFINE w == [t[i] EXCEPT ![s] = FingerprintOf[e]]
  <2>1. w \in Seq(Nat) /\ Len(w) = Len(t[i]) /\ w[s] = FingerprintOf[e] /\ \A j \in 1..Len(t[i]) : j # s => w[j] = t[i][j]
    BY <1>1, <1>2
  <2>2. u = [t EXCEPT ![i] = w]
    BY DEF Owned
  <2> HIDE DEF w
  <2>3. u[i] = w /\ \A a \in BucketIds : a # i => u[a] = t[a]
    BY <2>2 DEF Owned
  <2>4. u \in [BucketIds -> Seq(Nat)]
    BY <2>1, <2>2 DEF Owned
  <2> QED
    BY <2>1, <2>3, <2>4
<1>4. p \in [BucketIds -> [Nat -> (Elements \cup {NoKey}) \X Nat]] /\ p[i][s] = c
      /\ (\A j \in Nat : j # s => p[i][j] = o[i][j]) /\ \A a \in BucketIds : a # i => p[a] = o[a]
  BY <1>2, s \in Nat DEF Owned
<1> HIDE DEF u, p
<1>5. ASSUME NEW a \in BucketIds, NEW j \in 1..Len(u[a])
      PROVE  p[a][j][1] \in Elements /\ u[a][j] = FingerprintOf[p[a][j][1]] /\ a \in TwoHomes(p[a][j][1])
  <2>0. j \in 1..Len(t[a]) /\ j \in Nat
    BY <1>3, <1>5
  <2>1. CASE a # i
    <3>1. u[a] = t[a] /\ p[a] = o[a]
      BY <1>3, <1>4, <2>1
    <3> QED
      BY <2>0, <3>1, OwnedAt
  <2>2. CASE a = i /\ j = s
    <3>1. p[a][j] = c /\ c[1] = e /\ u[a][j] = FingerprintOf[e]
      BY <1>3, <1>4, <2>2
    <3> QED
      BY <2>2, <3>1
  <2>3. CASE a = i /\ j # s
    <3>1. u[a][j] = t[a][j] /\ p[a][j] = o[a][j]
      BY <1>3, <1>4, <2>0, <2>3
    <3> QED
      BY <2>0, <3>1, OwnedAt
  <2> QED
    BY <2>1, <2>2, <2>3
<1>6. Owned(u, p)
  BY <1>3, <1>4, <1>5 DEF Owned
<1>7. Covered(u, p, c)
  BY <1>3, <1>4 DEF Covered
<1>8. ASSUME NEW d, Covered(t, o, d), d # o[i][s] PROVE Covered(u, p, d)
  <2>1. PICK a \in BucketIds, j \in Nat : j \in 1..Len(t[a]) /\ o[a][j] = d
    BY <1>8 DEF Covered
  <2>2. j \in 1..Len(u[a]) /\ p[a][j] = d
    BY <1>3, <1>4, <1>8, <2>1, j \in Nat
  <2> QED
    BY <2>2 DEF Covered
<1> QED
  BY <1>6, <1>7, <1>8 DEF u

(* or is taken out: those behind it move up. *)
Dropped(t, u, i, s) ==
    /\ u \in [BucketIds -> Seq(Nat)] /\ \A x \in BucketIds : x # i => u[x] = t[x]
    /\ Len(u[i]) = Len(t[i]) - 1
    /\ \A k \in 1..(Len(t[i]) - 1) : u[i][k] = IF k < s THEN t[i][k] ELSE t[i][k + 1]

(* What is taken out, as the lemmas above.                                   *)
LEMMA DropOwned ==
    ASSUME Bucketed, NEW t, NEW o, Owned(t, o), NEW i \in BucketIds, NEW s \in 1..Len(t[i]), NEW u,
           Dropped(t, u, i, s)
    PROVE  \E p : Owned(u, p) /\ \A d : Covered(t, o, d) /\ d # o[i][s] => Covered(u, p, d)
<1> DEFINE w == u[i]
           q == [k \in Nat |-> IF k < s THEN o[i][k] ELSE o[i][k + 1]]
           p == [o EXCEPT ![i] = q]
<1> USE DEF Dropped
<1>1. \A a \in BucketIds : t[a] \in Seq(Nat) /\ Len(t[a]) \in Nat /\ \A j \in 1..Len(t[a]) : t[a][j] \in Nat
  BY OwnedType, OwnedAt
<1>2. Len(w) = Len(t[i]) - 1
  OBVIOUS
<1>3. u \in [BucketIds -> Seq(Nat)] /\ u[i] = w /\ \A a \in BucketIds : a # i => u[a] = t[a]
  OBVIOUS
<1>4. p \in [BucketIds -> [Nat -> (Elements \cup {NoKey}) \X Nat]] /\ p[i] = q /\ \A a \in BucketIds : a # i => p[a] = o[a]
  <2>1. q \in [Nat -> (Elements \cup {NoKey}) \X Nat]
    <3>1. \A k \in Nat : k + 1 \in Nat
      OBVIOUS
    <3>2. o[i] \in [Nat -> (Elements \cup {NoKey}) \X Nat]
      BY OwnedType
    <3> QED
      BY <3>1, <3>2
  <2> HIDE DEF q
  <2> QED
    BY <2>1, OwnedType
<1>5. ASSUME NEW a \in BucketIds, NEW j \in 1..Len(u[a])
      PROVE  p[a][j][1] \in Elements /\ u[a][j] = FingerprintOf[p[a][j][1]] /\ a \in TwoHomes(p[a][j][1])
  <2>1. CASE a # i
    <3>1. u[a] = t[a] /\ p[a] = o[a]
      BY <1>3, <1>4, <2>1
    <3> QED
      BY <1>5, <3>1, OwnedAt
  <2>2. CASE a = i
    <3>1. j \in 1..(Len(t[i]) - 1) /\ j \in Nat /\ j \in 1..Len(t[i]) /\ j + 1 \in 1..Len(t[i])
      <4>1. j \in 1..(Len(t[i]) - 1)
        BY <1>2, <1>3, <1>5, <2>2
      <4>2. Len(t[i]) \in Nat
        BY <1>1
      <4> HIDE DEF w, q, p, Dropped
      <4> DEFINE n == Len(t[i])
      <4>3. j \in 1..(n - 1) /\ n \in Nat
        BY <4>1, <4>2
      <4> HIDE DEF n
      <4>4. j \in 1..(n - 1) /\ j \in Nat /\ j \in 1..n /\ j + 1 \in 1..n
        BY <4>3
      <4> QED
        BY <4>4 DEF n
    <3>2. u[a][j] = (IF j < s THEN t[i][j] ELSE t[i][j + 1]) /\ p[a][j] = (IF j < s THEN o[i][j] ELSE o[i][j + 1])
      BY <1>3, <1>4, <2>2, <3>1
    <3> DEFINE k == IF j < s THEN j ELSE j + 1
    <3>3. k \in 1..Len(t[i]) /\ u[a][j] = t[i][k] /\ p[a][j] = o[i][k]
      BY <3>1, <3>2
    <3> HIDE DEF k, p
    <3> QED
      BY <2>2, <3>3, OwnedAt
  <2> QED
    BY <2>1, <2>2
<1>6. \A a \in BucketIds : Len(u[a]) <= BucketSize
  <2> HIDE DEF w, q, p
  <2> TAKE a \in BucketIds
  <2>1. BucketSize \in Nat /\ Len(t[a]) \in Nat /\ Len(t[a]) <= BucketSize
    BY OwnedType
  <2>2. Len(u[a]) = Len(t[a]) \/ Len(u[a]) = Len(t[a]) - 1
    BY <1>2, <1>3 DEF w
  <2> QED
    BY <2>1, <2>2
<1>7. Owned(u, p)
  <2> HIDE DEF w, q, p
  <2> QED
    BY <1>3, <1>4, <1>5, <1>6 DEF Owned
<1>8. ASSUME NEW d, Covered(t, o, d), d # o[i][s] PROVE Covered(u, p, d)
  <2>1. PICK a \in BucketIds, j \in Nat : j \in 1..Len(t[a]) /\ o[a][j] = d
    BY <1>8 DEF Covered
  <2>2. CASE a # i
    BY <1>3, <1>4, <2>1, <2>2 DEF Covered
  <2>3. CASE a = i
    <3>1. j # s /\ j \in Int /\ s \in Int
      BY <1>8, <2>1, <2>3
    <3>2. CASE j < s
      <4>1. j \in 1..(Len(t[i]) - 1) /\ j \in Nat
        BY <1>1, <2>1, <2>3, <3>2
      <4>2. p[i][j] = d
        BY <1>4, <2>1, <2>3, <3>2, <4>1
      <4> QED
        BY <1>2, <1>3, <4>1, <4>2 DEF Covered
    <3>3. CASE j > s
      <4>1. j - 1 \in 1..(Len(t[i]) - 1) /\ j - 1 \in Nat /\ ~(j - 1 < s) /\ (j - 1) + 1 = j
        <5> HIDE DEF w, q, p, Dropped
        <5> DEFINE n == Len(t[i])
        <5>1. n \in Nat /\ j \in 1..n /\ s \in 1..n
          BY <1>1, <2>1, <2>3
        <5> HIDE DEF n
        <5>2. j - 1 \in 1..(n - 1) /\ j - 1 \in Nat /\ ~(j - 1 < s) /\ (j - 1) + 1 = j
          BY <3>3, <5>1
        <5> QED
          BY <5>2 DEF n
      <4>2. p[i][j - 1] = d
        BY <1>4, <2>1, <2>3, <4>1
      <4> QED
        BY <1>2, <1>3, <4>1, <4>2 DEF Covered
    <3> QED
      BY <3>1, <3>2, <3>3
  <2> QED
    BY <2>2, <2>3
<1> QED
  BY <1>7, <1>8

(* What one copy has, another of the same fingerprint and homes may have.    *)
LEMMA OwnerChanged ==
    ASSUME Bucketed, NEW t, NEW o, Owned(t, o), NEW c, Covered(t, o, c), c[1] \in Elements,
           NEW e \in Elements, NEW n \in Nat,
           FingerprintOf[c[1]] = FingerprintOf[e], TwoHomes(c[1]) = TwoHomes(e)
    PROVE  \E p : Owned(t, p) /\ Covered(t, p, <<e, n>>) /\ \A x : Covered(t, o, x) /\ x # c => Covered(t, p, x)
<1>1. PICK i \in BucketIds, s \in Nat : s \in 1..Len(t[i]) /\ o[i][s] = c
  BY DEF Covered
<1>2. i \in TwoHomes(e) /\ t[i][s] = FingerprintOf[e]
  BY <1>1 DEF Owned
<1>3. [t EXCEPT ![i][s] = FingerprintOf[e]] = t
  <2>1. [t[i] EXCEPT ![s] = FingerprintOf[e]] = t[i]
    <3>1. t[i] \in Seq(Nat)
      BY DEF Owned
    <3> QED
      BY <1>2, <3>1
  <2> QED
    BY <2>1 DEF Owned
<1>4. \E p : Owned(t, p) /\ Covered(t, p, <<e, n>>) /\ \A d : Covered(t, o, d) /\ d # o[i][s] => Covered(t, p, d)
  <2>1. s \in 1..Len(t[i])
    BY <1>1
  <2> QED
    BY <1>2, <1>3, <2>1, KickOwned
<1> QED
  BY <1>1, <1>4

(* The buckets, and one change of a kick.                                    *)
Tables == [BucketIds -> Seq(Nat)]
Changes == [at : BucketIds, slot : Nat, old : Nat]
Undone(t, c) == [t EXCEPT ![c.at][c.slot] = c.old]

(* A change undone leaves buckets.                                           *)
LEMMA UndoneType ==
    ASSUME NEW t \in Tables, NEW c \in Changes
    PROVE  Undone(t, c) \in Tables
<1>1. t[c.at] \in Seq(Nat) /\ c.old \in Nat /\ c.at \in BucketIds
  BY DEF Tables, Changes
<1>2. [t[c.at] EXCEPT ![c.slot] = c.old] \in Seq(Nat)
  <2>1. ASSUME NEW s \in Seq(Nat), NEW k, NEW v \in Nat PROVE [s EXCEPT ![k] = v] \in Seq(Nat)
    <3>1. Len(s) \in Nat /\ s \in [1..Len(s) -> Nat]
      OBVIOUS
    <3>2. [s EXCEPT ![k] = v] \in [1..Len(s) -> Nat]
      BY <3>1
    <3> QED
      BY <3>1, <3>2
  <2> QED
    BY <1>1, <2>1
<1> DEFINE w == [t[c.at] EXCEPT ![c.slot] = c.old]
<1>3. Undone(t, c) = [t EXCEPT ![c.at] = w]
  BY DEF Undone, Tables
<1> HIDE DEF w
<1> QED
  BY <1>2, <1>3 DEF w, Tables

(* PutBack is its own recursion. *)
LEMMA PutBackUnfolds ==
    ASSUME NEW t \in Tables, NEW ch \in Seq(Changes)
    PROVE  \E b : /\ PutBack(t, ch) = b[0] /\ b[Len(ch)] = t
                  /\ \A k \in 0..(Len(ch) - 1) : b[k] = Undone(b[k + 1], ch[k + 1])
<1> DEFINE D == 0..Len(ch)
           mu == [k \in D |-> Len(ch) - k]
           F(s) == [k \in 0..Len(ch) |->
                      IF k = Len(ch) THEN t
                      ELSE LET c == ch[k + 1] IN [s[k + 1] EXCEPT ![c.at][c.slot] = c.old]]
           h == [s \in [D -> Tables] |-> F(s)]
           G == CHOOSE s : s = F(s)
<1>1. Len(ch) \in Nat /\ \A k \in D : k # Len(ch) => k + 1 \in D /\ k + 1 \in 1..Len(ch) /\ mu[k + 1] < mu[k]
  OBVIOUS
<1>2. mu \in [D -> Nat]
  BY <1>1
<1>3. h \in [[D -> Tables] -> [D -> Tables]]
  <2> SUFFICES ASSUME NEW s \in [D -> Tables], NEW k \in D, k # Len(ch) PROVE Undone(s[k + 1], ch[k + 1]) \in Tables
    BY DEF Undone
  <2>1. s[k + 1] \in Tables /\ ch[k + 1] \in Changes
    BY <1>1
  <2> QED
    BY <2>1, UndoneType
<1>4. ASSUME NEW f \in [D -> Tables], NEW g \in [D -> Tables], NEW k \in D, \A e \in D : mu[e] < mu[k] => f[e] = g[e]
      PROVE  h[f][k] = h[g][k]
  <2>1. CASE k = Len(ch)
    BY <2>1
  <2>2. CASE k # Len(ch)
    <3>1. f[k + 1] = g[k + 1]
      BY <1>1, <1>4, <2>2
    <3> QED
      BY <2>2, <3>1
  <2> QED
    BY <2>1, <2>2
<1>5. Recursive(D, Tables, mu, h)
  <2>1. Tables # {}
    BY t \in Tables
  <2> HIDE DEF mu, h, D
  <2> QED
    BY <1>2, <1>3, <1>4, <2>1 DEF Recursive
<1> HIDE DEF mu, h, D
<1>6. PICK g \in [D -> Tables] : g = h[g]
  BY <1>5, Recursion
<1>7. g = F(g)
  BY <1>6 DEF h
<1>8. PutBack(t, ch) = G[0]
  BY DEF PutBack
<1> HIDE DEF F
<1>9. G = F(G)
  BY <1>7
<1> HIDE DEF G
<1>10. \A k \in 0..Len(ch) : G[k] = IF k = Len(ch) THEN t ELSE Undone(G[k + 1], ch[k + 1])
  BY <1>9 DEF F, Undone
<1> QED
  BY <1>1, <1>8, <1>10

(* The last change is undone first.                                          *)
LEMMA LastFirst ==
    ASSUME NEW t \in Tables, NEW ch \in Seq(Changes), NEW c \in Changes
    PROVE  /\ PutBack(t, <<>>) = t
           /\ PutBack(t, Append(ch, c)) = PutBack(Undone(t, c), ch)
<1>1. PutBack(t, <<>>) = t
  <2>1. <<>> \in Seq(Changes) /\ Len(<<>>) = 0
    OBVIOUS
  <2> QED
    BY <2>1, PutBackUnfolds
<1> DEFINE m == Len(ch)
           dh == Append(ch, c)
<1>2. m \in Nat /\ dh \in Seq(Changes) /\ Len(dh) = m + 1 /\ dh[m + 1] = c /\ \A k \in 1..m : dh[k] = ch[k]
  OBVIOUS
<1> HIDE DEF m, dh
<1>3. PICK a : /\ PutBack(t, dh) = a[0] /\ a[Len(dh)] = t
               /\ \A k \in 0..(Len(dh) - 1) : a[k] = Undone(a[k + 1], dh[k + 1])
  BY <1>2, PutBackUnfolds
<1>4. PICK b : /\ PutBack(Undone(t, c), ch) = b[0] /\ b[m] = Undone(t, c)
               /\ \A k \in 0..(m - 1) : b[k] = Undone(b[k + 1], ch[k + 1])
  BY UndoneType, PutBackUnfolds DEF m
<1> DEFINE S == {k \in 0..m : a[k] = b[k]}
<1>5. m \in S
  <2>1. m \in 0..(Len(dh) - 1) /\ m \in 0..m
    BY <1>2
  <2>2. a[m] = Undone(a[m + 1], dh[m + 1])
    BY <1>3, <2>1
  <2> QED
    BY <1>2, <1>3, <1>4, <2>1, <2>2
<1>6. ASSUME NEW k \in 0..(m - 1), k + 1 \in S PROVE k \in S
  <2>1. k \in 0..(Len(dh) - 1) /\ k \in 0..m /\ k + 1 \in 1..m
    BY <1>2
  <2>2. a[k] = Undone(a[k + 1], dh[k + 1]) /\ b[k] = Undone(b[k + 1], ch[k + 1])
    BY <1>3, <1>4, <1>6, <2>1
  <2> QED
    BY <1>2, <1>6, <2>1, <2>2
<1> HIDE DEF S
<1>7. \A k \in 0..m : k \in S
  <2>1. \A k \in 0..(m - 1) : k + 1 \in S => k \in S
    BY <1>6
  <2>2. 0 \in Int /\ m \in Int
    BY <1>2
  <2> QED
    BY <1>5, <2>1, <2>2, Downward
<1>8. 0 \in S
  BY <1>2, <1>7
<1> QED
  BY <1>1, <1>3, <1>4, <1>8 DEF S, dh

(* One kick.                                                                 *)
KickFrom(r, n) ==
    LET slot == ((n - 1) % BucketSize) + 1
        evicted == r.to[r.at][slot]
        next == AltIndex(r.at, evicted)
        kicked == [r.to EXCEPT ![r.at][slot] = r.moving]
    IN  IF r.ok THEN r
        ELSE [to |-> IF BucketRoom(kicked, next)
                     THEN [kicked EXCEPT ![next] = Append(@, evicted)] ELSE kicked,
              at |-> next, moving |-> evicted, ok |-> BucketRoom(kicked, next),
              changes |-> Append(r.changes, [at |-> r.at, slot |-> slot, old |-> evicted])]

(* Between kicks: everything has a place, or everything but one that is to   *)
(* go into a home of its, which is full; and then the way back is known.     *)
KickStates == [to : Tables, at : BucketIds, moving : Nat, ok : BOOLEAN, changes : Seq(Changes)]
OneHomeless(u, C, i, fp) ==
    \E p : \E d \in Elements, m \in Nat :
       /\ Owned(u, p) /\ FingerprintOf[d] = fp /\ i \in TwoHomes(d)
       /\ \A x \in C : x # <<d, m>> => Covered(u, p, x)
KickGood(t, C, r) ==
    /\ r \in KickStates
    /\ r.ok => Carries(r.to, C)
    /\ ~r.ok => /\ Len(r.to[r.at]) = BucketSize /\ OneHomeless(r.to, C, r.at, r.moving)
                /\ PutBack(r.to, r.changes) = t

(* A kick keeps that.                                                        *)
LEMMA KickStep ==
    ASSUME Bucketed, NEW t, NEW C, NEW r, KickGood(t, C, r), NEW n \in Nat \ {0}
    PROVE  KickGood(t, C, KickFrom(r, n))
<1>1. CASE r.ok
  BY <1>1 DEF KickFrom
<1>2. CASE ~r.ok
  <2> DEFINE slot == ((n - 1) % BucketSize) + 1
             evicted == r.to[r.at][slot]
             next == AltIndex(r.at, evicted)
             kicked == [r.to EXCEPT ![r.at][slot] = r.moving]
             change == [at |-> r.at, slot |-> slot, old |-> evicted]
             to2 == IF BucketRoom(kicked, next) THEN [kicked EXCEPT ![next] = Append(@, evicted)] ELSE kicked
             changes2 == Append(r.changes, change)
  <2>1. KickFrom(r, n) = [to |-> to2, at |-> next, moving |-> evicted, ok |-> BucketRoom(kicked, next),
                          changes |-> changes2]
    BY <1>2 DEF KickFrom
  <2>2. r.to \in Tables /\ r.at \in BucketIds /\ r.moving \in Nat /\ r.changes \in Seq(Changes)
        /\ Len(r.to[r.at]) = BucketSize /\ PutBack(r.to, r.changes) = t
    BY <1>2 DEF KickGood, KickStates
  <2>0. PICK p : \E d \in Elements, m \in Nat :
           /\ Owned(r.to, p) /\ FingerprintOf[d] = r.moving /\ r.at \in TwoHomes(d)
           /\ \A x \in C : x # <<d, m>> => Covered(r.to, p, x)
    BY <1>2 DEF KickGood, OneHomeless
  <2>3. PICK d \in Elements, m \in Nat :
           /\ Owned(r.to, p) /\ FingerprintOf[d] = r.moving /\ r.at \in TwoHomes(d)
           /\ \A x \in C : x # <<d, m>> => Covered(r.to, p, x)
    BY <2>0
  <2>4. slot \in 1..Len(r.to[r.at]) /\ slot \in Nat
    <3>1. BucketSize \in Nat \ {0}
      BY HashAssumption
    <3> QED
      BY <2>2, <3>1
  <2> HIDE DEF slot
  <2>5. evicted \in Nat /\ p[r.at][slot][1] \in Elements /\ evicted = FingerprintOf[p[r.at][slot][1]]
        /\ r.at \in TwoHomes(p[r.at][slot][1])
    BY <2>2, <2>3, <2>4, OwnedAt
  <2>6. p[r.at][slot] \in (Elements \cup {NoKey}) \X Nat
    <3>1. p[r.at] \in [Nat -> (Elements \cup {NoKey}) \X Nat]
      BY <2>2, <2>3, OwnedType
    <3> QED
      BY <2>4, <3>1
  <2> DEFINE a == p[r.at][slot][1]
             b == p[r.at][slot][2]
  <2>7. a \in Elements /\ b \in Nat /\ p[r.at][slot] = <<a, b>> /\ evicted = FingerprintOf[a] /\ r.at \in TwoHomes(a)
    BY <2>5, <2>6
  <2>8. PICK q : /\ Owned(kicked, q) /\ Covered(kicked, q, <<d, m>>)
                 /\ \A x : Covered(r.to, p, x) /\ x # p[r.at][slot] => Covered(kicked, q, x)
    BY <2>2, <2>3, <2>4, KickOwned
  <2> HIDE DEF a, b, kicked, evicted
  <2>9. \A x \in C : x # <<a, b>> => Covered(kicked, q, x)
    BY <2>3, <2>7, <2>8
  <2>10. next \in TwoHomes(a) /\ next \in BucketIds
    BY <2>7, HomesRule
  <2>11. change \in Changes
    BY <2>2, <2>4, <2>5 DEF Changes
  <2>12. changes2 \in Seq(Changes)
    <3> HIDE DEF change
    <3> QED
      BY <2>2, <2>11
  <2>13. kicked \in Tables /\ Len(kicked[next]) \in Nat /\ Len(kicked[next]) <= BucketSize
    BY <2>8, <2>10, OwnedType DEF Tables
  <2>14. Undone(kicked, change) = r.to
    <3>1. kicked[r.at] = [r.to[r.at] EXCEPT ![slot] = r.moving] /\ r.to[r.at] \in Seq(Nat)
      BY <2>2 DEF kicked, Tables
    <3>2. [kicked[r.at] EXCEPT ![slot] = evicted] = r.to[r.at]
      BY <2>4, <3>1 DEF evicted
    <3>3. Undone(kicked, change) = [kicked EXCEPT ![r.at] = [kicked[r.at] EXCEPT ![slot] = evicted]]
      BY DEF Undone
    <3>4. kicked = [r.to EXCEPT ![r.at] = kicked[r.at]]
      BY <2>2, <3>1 DEF kicked, Tables
    <3>5. [kicked EXCEPT ![r.at] = r.to[r.at]] = r.to
      BY <2>2, <3>4 DEF Tables
    <3> QED
      BY <3>2, <3>3, <3>5
  <2> HIDE DEF next, change, changes2
  <2>15. CASE BucketRoom(kicked, next)
    <3>1. to2 = [kicked EXCEPT ![next] = Append(@, FingerprintOf[a])]
      BY <2>7, <2>15
    <3>2. Len(kicked[next]) < BucketSize
      BY <2>15 DEF BucketRoom
    <3>3. PICK o : /\ Owned(to2, o) /\ Covered(to2, o, <<a, b>>) /\ \A x : Covered(kicked, q, x) => Covered(to2, o, x)
      <4> HIDE DEF to2
      <4> QED
        BY <2>7, <2>8, <2>10, <3>1, <3>2, AppendOwned
    <3> HIDE DEF to2
    <3>4. Carries(to2, C)
      BY <2>9, <3>3 DEF Carries
    <3>5. to2 \in Tables
      BY <3>3, OwnedType DEF Tables
    <3>6. KickFrom(r, n) \in KickStates
      BY <2>1, <2>5, <2>10, <2>12, <2>15, <3>5 DEF KickStates
    <3> QED
      BY <2>1, <2>15, <3>4, <3>6 DEF KickGood
  <2>16. CASE ~BucketRoom(kicked, next)
    <3>1. to2 = kicked
      BY <2>16
    <3>2. Len(kicked[next]) = BucketSize
      <4>1. BucketSize \in Nat
        BY HashAssumption
      <4> QED
        BY <2>13, <2>16, <4>1 DEF BucketRoom
    <3>3. OneHomeless(kicked, C, next, evicted)
      BY <2>7, <2>8, <2>9, <2>10 DEF OneHomeless
    <3>4. PutBack(kicked, changes2) = t
      BY <2>2, <2>11, <2>13, <2>14, LastFirst DEF changes2
    <3> HIDE DEF to2
    <3>5. KickFrom(r, n) \in KickStates
      <4>1. KickFrom(r, n) = [to |-> kicked, at |-> next, moving |-> evicted, ok |-> FALSE, changes |-> changes2]
        <5>1. BucketRoom(kicked, next) = FALSE
          BY <2>16 DEF BucketRoom
        <5> QED
          BY <2>1, <3>1, <5>1
      <4> QED
        BY <2>5, <2>10, <2>12, <2>13, <4>1 DEF KickStates
    <3> QED
      BY <2>1, <2>16, <3>1, <3>2, <3>3, <3>4, <3>5 DEF KickGood
  <2> QED
    BY <2>15, <2>16
<1> QED
  BY <1>1, <1>2

(* Kicks is its own recursion, and so keeps KickGood.                        *)
LEMMA KicksGood ==
    ASSUME Bucketed, NEW t, NEW C, NEW i, NEW fp,
           KickGood(t, C, [to |-> t, at |-> i, moving |-> fp, ok |-> FALSE, changes |-> <<>>])
    PROVE  KickGood(t, C, Kicks(t, i, fp))
<1> DEFINE X == {r \in KickStates : KickGood(t, C, r)}
           first == [to |-> t, at |-> i, moving |-> fp, ok |-> FALSE, changes |-> <<>>]
           step == [v \in (1..MaxKicks) \X X |-> KickFrom(v[2], v[1])]
           F(s) == [n \in 0..MaxKicks |->
                     IF n = 0 THEN first
                     ELSE LET r == s[n - 1]
                              slot == ((n - 1) % BucketSize) + 1
                              evicted == r.to[r.at][slot]
                              next == AltIndex(r.at, evicted)
                              kicked == [r.to EXCEPT ![r.at][slot] = r.moving]
                          IN  IF r.ok THEN r
                              ELSE [to |-> IF BucketRoom(kicked, next)
                                           THEN [kicked EXCEPT ![next] = Append(@, evicted)] ELSE kicked,
                                    at |-> next, moving |-> evicted, ok |-> BucketRoom(kicked, next),
                                    changes |-> Append(r.changes, [at |-> r.at, slot |-> slot, old |-> evicted])]]
           H(s) == [n \in 0..MaxKicks |-> IF n = 0 THEN first ELSE KickFrom(s[n - 1], n)]
           G == CHOOSE s : s = F(s)
<1>1. MaxKicks \in Nat
  BY HashAssumption
<1>2. \A n \in 1..MaxKicks, r \in X : step[<<n, r>>] = KickFrom(r, n) /\ KickFrom(r, n) \in X
  <2> TAKE n \in 1..MaxKicks, r \in X
  <2>1. KickGood(t, C, KickFrom(r, n))
    BY KickStep
  <2>2. KickFrom(r, n) \in KickStates
    BY <2>1 DEF KickGood
  <2> QED
    BY <2>1, <2>2
<1>3. first \in X
  BY DEF KickGood
<1>4. \A s : F(s) = H(s)
  BY DEF KickFrom
<1>5. Kicks(t, i, fp) = G[MaxKicks]
  BY DEF Kicks
<1> HIDE DEF F, first, step, X
<1>6. PICK g \in [0..MaxKicks -> X] : g[0] = first /\ \A n \in 1..MaxKicks : g[n] = step[<<n, g[n - 1]>>]
  <2>1. Rounded(MaxKicks, X, first, step)
    BY <1>1, <1>2, <1>3 DEF Rounded
  <2> QED
    BY <2>1, Rounds
<1>7. g = F(g)
  <2>1. ASSUME NEW n \in 0..MaxKicks PROVE g[n] = IF n = 0 THEN first ELSE KickFrom(g[n - 1], n)
    <3>1. n # 0 => n \in 1..MaxKicks /\ n - 1 \in 0..MaxKicks
      BY <1>1
    <3> QED
      BY <1>2, <1>6, <3>1
  <2>2. g = H(g)
    BY <1>6, <2>1
  <2> QED
    BY <1>4, <2>2
<1>8. G = F(G)
  BY <1>7
<1> HIDE DEF G
<1>9. \A n \in 0..MaxKicks : G[n] = IF n = 0 THEN first ELSE KickFrom(G[n - 1], n)
  BY <1>4, <1>8
<1> DEFINE S == {n \in 0..MaxKicks : G[n] \in X}
<1>10. 0 \in S
  BY <1>1, <1>3, <1>9
<1>11. ASSUME NEW n \in 0..(MaxKicks - 1), n \in S PROVE n + 1 \in S
  <2>1. n + 1 \in 1..MaxKicks /\ n + 1 \in 0..MaxKicks /\ n + 1 # 0 /\ (n + 1) - 1 = n
    BY <1>1
  <2>2. G[n + 1] = KickFrom(G[n], n + 1)
    BY <1>9, <2>1
  <2> QED
    BY <1>2, <1>11, <2>1, <2>2
<1> HIDE DEF S
<1>12. \A n \in 0..MaxKicks : n \in S
  <2>1. 0 \in Int /\ MaxKicks \in Int
    BY <1>1
  <2> QED
    BY <1>10, <1>11, <2>1, Upward
<1>13. MaxKicks \in S
  BY <1>1, <1>12
<1> QED
  BY <1>5, <1>13 DEF S, X

BucketsHold(t, pc) == Carries(t, CopiesOf(pc))

(* The copies of one element more,                                           *)
LEMMA OneCopyMore ==
    ASSUME NEW pc \in [Elements -> Nat], NEW e \in Elements
    PROVE  CopiesOf([pc EXCEPT ![e] = @ + 1]) = CopiesOf(pc) \cup {<<e, pc[e] + 1>>}
<1> DEFINE qc == [pc EXCEPT ![e] = @ + 1]
<1>1. qc[e] = pc[e] + 1 /\ pc[e] \in Nat /\ \A f \in Elements : f # e => qc[f] = pc[f]
  OBVIOUS
<1> HIDE DEF qc
<1>2. \A k \in Nat : k \in 1..qc[e] <=> (k \in 1..pc[e] \/ k = pc[e] + 1)
  BY <1>1
<1>3. ASSUME NEW v \in Elements \X Nat PROVE v \in CopiesOf(qc) <=> (v \in CopiesOf(pc) \/ v = <<e, pc[e] + 1>>)
  <2>1. v = <<v[1], v[2]>> /\ v[1] \in Elements /\ v[2] \in Nat
    OBVIOUS
  <2>2. CASE v[1] = e
    BY <1>1, <1>2, <2>1, <2>2 DEF CopiesOf
  <2>3. CASE v[1] # e
    <3>1. v # <<e, pc[e] + 1>>
      BY <2>3
    <3> QED
      BY <1>1, <2>1, <2>3, <3>1 DEF CopiesOf
  <2> QED
    BY <2>2, <2>3
<1>4. <<e, pc[e] + 1>> \in Elements \X Nat
  BY <1>1
<1> QED
  BY <1>3, <1>4 DEF CopiesOf, qc

(* and of one less.                                                          *)
LEMMA OneCopyLess ==
    ASSUME NEW pc \in [Elements -> Nat], NEW e \in Elements, pc[e] > 0
    PROVE  /\ CopiesOf([pc EXCEPT ![e] = @ - 1]) = CopiesOf(pc) \ {<<e, pc[e]>>}
           /\ <<e, pc[e]>> \in CopiesOf(pc)
<1> DEFINE qc == [pc EXCEPT ![e] = @ - 1]
<1>1. qc[e] = pc[e] - 1 /\ pc[e] \in Nat /\ \A f \in Elements : f # e => qc[f] = pc[f]
  OBVIOUS
<1> HIDE DEF qc
<1>2. (\A k \in Nat : k \in 1..qc[e] <=> (k \in 1..pc[e] /\ k # pc[e])) /\ pc[e] \in 1..pc[e]
  BY <1>1
<1>3. ASSUME NEW v \in Elements \X Nat PROVE v \in CopiesOf(qc) <=> (v \in CopiesOf(pc) /\ v # <<e, pc[e]>>)
  <2>1. v = <<v[1], v[2]>> /\ v[1] \in Elements /\ v[2] \in Nat
    OBVIOUS
  <2>2. CASE v[1] = e
    BY <1>1, <1>2, <2>1, <2>2 DEF CopiesOf
  <2>3. CASE v[1] # e
    <3>1. v # <<e, pc[e]>>
      BY <2>3
    <3> QED
      BY <1>1, <2>1, <2>3, <3>1 DEF CopiesOf
  <2> QED
    BY <2>2, <2>3
<1>4. <<e, pc[e]>> \in CopiesOf(pc)
  BY <1>1, <1>2 DEF CopiesOf
<1> QED
  BY <1>3, <1>4 DEF CopiesOf, qc

(* What is put in has a place, or nothing has changed.                       *)
LEMMA BucketInsertHolds ==
    ASSUME Bucketed, NEW pc \in [Elements -> Nat], NEW t, BucketsHold(t, pc), NEW e \in Elements
    PROVE  LET r == BucketInsert(t, e) IN
           /\ r.ok \in BOOLEAN
           /\ r.ok => BucketsHold(r.to, [pc EXCEPT ![e] = @ + 1])
           /\ ~r.ok => BucketsHold(r.to, pc)
<1> DEFINE fp == FingerprintOf[e]
           n == pc[e] + 1
           C == CopiesOf(pc) \cup {<<e, n>>}
           i == IF BucketRoom(t, Homes(e)[1]) THEN Homes(e)[1] ELSE Homes(e)[2]
           k == Kicks(t, Homes(e)[1], fp)
           into == [t EXCEPT ![i] = Append(@, fp)]
           r == BucketInsert(t, e)
<1>1. CopiesOf([pc EXCEPT ![e] = @ + 1]) = C /\ n \in Nat
  <2>1. pc[e] \in Nat
    OBVIOUS
  <2>2. CopiesOf([pc EXCEPT ![e] = @ + 1]) = C
    BY OneCopyMore
  <2>3. n \in Nat
    BY <2>1
  <2> QED
    BY <2>2, <2>3
<1>2. PICK o : Owned(t, o) /\ \A c \in CopiesOf(pc) : Covered(t, o, c)
  BY DEF BucketsHold, Carries
<1>3. Homes(e)[1] \in BucketIds /\ Homes(e)[2] \in BucketIds /\ Homes(e)[1] \in TwoHomes(e) /\ Homes(e)[2] \in TwoHomes(e)
      /\ fp \in Nat
  BY HomesRule DEF TwoHomes
<1>4. i \in BucketIds /\ i \in TwoHomes(e)
  BY <1>3
<1>5. r = IF BucketRoom(t, i) THEN [to |-> into, ok |-> TRUE]
          ELSE [to |-> IF k.ok THEN k.to ELSE PutBack(k.to, k.changes), ok |-> k.ok]
  BY DEF BucketInsert
<1> HIDE DEF r, k
<1>6. CASE BucketRoom(t, i)
  <2>1. Len(t[i]) < BucketSize
    BY <1>6 DEF BucketRoom
  <2>2. PICK p : Owned(into, p) /\ Covered(into, p, <<e, n>>) /\ \A d : Covered(t, o, d) => Covered(into, p, d)
    <3> HIDE DEF i, n
    <3> QED
      BY <1>1, <1>2, <1>4, <2>1, AppendOwned
  <2> HIDE DEF into, n, i
  <2>3. BucketsHold(into, [pc EXCEPT ![e] = @ + 1])
    BY <1>1, <1>2, <2>2 DEF BucketsHold, Carries
  <2>4. r = [to |-> into, ok |-> TRUE]
    BY <1>5, <1>6
  <2> QED
    BY <2>3, <2>4 DEF r
<1>7. CASE ~BucketRoom(t, i)
  <2>1. Len(t[Homes(e)[1]]) = BucketSize
    <3>1. ~BucketRoom(t, Homes(e)[1])
      BY <1>7
    <3>2. Len(t[Homes(e)[1]]) \in Nat /\ Len(t[Homes(e)[1]]) <= BucketSize /\ BucketSize \in Nat
      BY <1>2, <1>3, OwnedType
    <3> QED
      BY <3>1, <3>2 DEF BucketRoom
  <2> DEFINE first == [to |-> t, at |-> Homes(e)[1], moving |-> fp, ok |-> FALSE, changes |-> <<>>]
  <2>2. t \in Tables
    BY <1>2, OwnedType DEF Tables
  <2>3. first \in KickStates
    <3>1. <<>> \in Seq(Changes)
      OBVIOUS
    <3> QED
      BY <1>3, <2>2, <3>1 DEF KickStates
  <2>4. OneHomeless(t, C, Homes(e)[1], fp)
    <3>1. \A x \in C : x # <<e, n>> => Covered(t, o, x)
      BY <1>2
    <3> HIDE DEF C, n
    <3> QED
      BY <1>1, <1>2, <1>3, <3>1 DEF OneHomeless
  <2>5. PutBack(t, <<>>) = t
    <3>1. <<>> \in Seq(Changes) /\ [at |-> Homes(e)[1], slot |-> 1, old |-> fp] \in Changes
      BY <1>3 DEF Changes
    <3> QED
      BY <2>2, <3>1, LastFirst
  <2>6. KickGood(t, C, first)
    <3> HIDE DEF C
    <3> QED
      BY <2>1, <2>3, <2>4, <2>5 DEF KickGood
  <2>7. KickGood(t, C, k)
    <3> HIDE DEF C, fp
    <3> QED
      BY <2>6, KicksGood DEF k
  <2>8. r = [to |-> IF k.ok THEN k.to ELSE PutBack(k.to, k.changes), ok |-> k.ok]
    BY <1>5, <1>7
  <2> HIDE DEF C, first, i, n, into
  <2>9. k.ok \in BOOLEAN /\ (k.ok => Carries(k.to, C)) /\ (~k.ok => PutBack(k.to, k.changes) = t)
    BY <2>7 DEF KickGood, KickStates
  <2>10. CASE k.ok
    <3>1. r.to = k.to /\ r.ok = k.ok
      BY <2>8, <2>10
    <3> QED
      BY <1>1, <2>9, <2>10, <3>1 DEF BucketsHold, r
  <2>11. CASE ~k.ok
    <3>1. r.to = t /\ r.ok = k.ok
      BY <2>8, <2>9, <2>11
    <3> QED
      BY <2>9, <2>11, <3>1 DEF r
  <2> QED
    BY <2>10, <2>11
<1> QED
  BY <1>6, <1>7

(* What has a place is found, *)
LEMMA BucketsFind ==
    ASSUME Bucketed, NEW pc \in [Elements -> Nat], NEW t, BucketsHold(t, pc), NEW e \in Elements, pc[e] > 0
    PROVE  BucketHolds(t, e)
<1>1. PICK o : Owned(t, o) /\ \A c \in CopiesOf(pc) : Covered(t, o, c)
  BY DEF BucketsHold, Carries
<1>2. Covered(t, o, <<e, pc[e]>>)
  BY <1>1, OneCopyLess
<1>3. PICK i \in BucketIds : \E j \in 1..Len(t[i]) : o[i][j] = <<e, pc[e]>>
  BY <1>2 DEF Covered
<1>4. PICK j \in 1..Len(t[i]) : o[i][j] = <<e, pc[e]>>
  BY <1>3
<1>5. t[i][j] = FingerprintOf[e] /\ i \in TwoHomes(e)
  BY <1>1, <1>4, OwnedAt
<1>6. FingerprintOf[e] \in Range(t[i])
  <2>1. t[i] \in Seq(Nat)
    BY <1>1, OwnedType
  <2>2. j \in DOMAIN t[i]
    BY <2>1
  <2> QED
    BY <1>5, <2>2 DEF Range
<1> QED
  BY <1>5, <1>6 DEF TwoHomes, BucketHolds

(* What LessFirst takes out.                                                 *)
LEMMA FirstIs ==
    ASSUME NEW s \in Seq(Nat), NEW fp \in Range(s)
    PROVE  \E i \in 1..Len(s) :
              /\ s[i] = fp
              /\ LessFirst(s, fp) = [k \in 1..(Len(s) - 1) |-> IF k < i THEN s[k] ELSE s[k + 1]]
<1> DEFINE D == 1..Len(s)
           mu == [k \in D |-> k]
           T == {k \in D : s[k] # fp}
           First(k) == s[k] = fp /\ \A j \in 1..(k - 1) : s[j] # fp
           i == CHOOSE k \in DOMAIN s : First(k)
<1>1. DOMAIN s = D /\ Len(s) \in Nat /\ mu \in [D -> Nat]
  OBVIOUS
<1>2. \E k \in D : First(k)
  <2> SUFFICES ASSUME \A k \in D : ~First(k) PROVE FALSE
    OBVIOUS
  <2>1. ASSUME NEW k \in D, \A j \in D : mu[j] < mu[k] => j \in T PROVE k \in T
    <3>1. \A j \in 1..(k - 1) : j \in D /\ mu[j] < mu[k]
      BY <1>1
    <3> QED
      BY <2>1, <3>1
  <2> HIDE DEF T, mu, D
  <2>2. mu \in [D -> Nat]
    BY <1>1
  <2>3. \A k \in D : k \in T
    BY <2>1, <2>2, ByMeasure
  <2> QED
    BY <1>1, <2>3 DEF T, Range
<1>3. i \in D /\ First(i)
  BY <1>1, <1>2
<1>4. LessFirst(s, fp) = [k \in 1..(Len(s) - 1) |-> IF k < i THEN s[k] ELSE s[k + 1]]
  BY DEF LessFirst
<1> HIDE DEF i
<1> QED
  BY <1>3, <1>4

(* and what is taken out is one of it: if it was another's place, that one   *)
(* has its place now.                                                        *)
LEMMA BucketDeleteHolds ==
    ASSUME Bucketed, NEW pc \in [Elements -> Nat], NEW t, BucketsHold(t, pc), NEW e \in Elements, pc[e] > 0,
           BucketHolds(t, e)
    PROVE  BucketsHold(BucketDelete(t, e), [pc EXCEPT ![e] = @ - 1])
<1> DEFINE fp == FingerprintOf[e]
           i == IF fp \in Range(t[Homes(e)[1]]) THEN Homes(e)[1] ELSE Homes(e)[2]
           u == BucketDelete(t, e)
           c == <<e, pc[e]>>
<1>1. PICK o : Owned(t, o) /\ \A x \in CopiesOf(pc) : Covered(t, o, x)
  BY DEF BucketsHold, Carries
<1>2. i \in BucketIds /\ i \in TwoHomes(e) /\ fp \in Range(t[i]) /\ t[i] \in Seq(Nat) /\ t \in [BucketIds -> Seq(Nat)]
  <2>1. i \in BucketIds /\ i \in TwoHomes(e)
    BY HomesRule DEF TwoHomes
  <2>2. fp \in Range(t[i])
    BY DEF BucketHolds
  <2> HIDE DEF i
  <2> QED
    BY <1>1, <2>1, <2>2, OwnedType
<1>3. u = [t EXCEPT ![i] = LessFirst(@, fp)]
  BY DEF BucketDelete
<1> HIDE DEF u, i
<1>4. PICK s \in 1..Len(t[i]) : t[i][s] = fp
         /\ LessFirst(t[i], fp) = [k \in 1..(Len(t[i]) - 1) |-> IF k < s THEN t[i][k] ELSE t[i][k + 1]]
  BY <1>2, FirstIs
<1>5. u = [t EXCEPT ![i] = [k \in 1..(Len(t[i]) - 1) |-> IF k < s THEN t[i][k] ELSE t[i][k + 1]]]
  BY <1>3, <1>4
<1>6. s \in Nat /\ o[i][s][1] \in Elements /\ FingerprintOf[o[i][s][1]] = fp /\ i \in TwoHomes(o[i][s][1])
  BY <1>1, <1>2, <1>4, OwnedAt
<1>7. o[i][s] \in (Elements \cup {NoKey}) \X Nat
  <2>1. o[i] \in [Nat -> (Elements \cup {NoKey}) \X Nat]
    BY <1>1, <1>2, OwnedType
  <2> QED
    BY <1>6, <2>1
<1> DEFINE a == o[i][s][1]
           b == o[i][s][2]
<1>8. o[i][s] = <<a, b>> /\ a \in Elements /\ b \in Nat /\ TwoHomes(a) = TwoHomes(e) /\ FingerprintOf[a] = FingerprintOf[e]
  <2>1. o[i][s] = <<a, b>> /\ a \in Elements /\ b \in Nat
    BY <1>6, <1>7
  <2>2. TwoHomes(a) = {i, AltIndex(i, FingerprintOf[a])} /\ TwoHomes(e) = {i, AltIndex(i, FingerprintOf[e])}
    BY <1>2, <1>6, HomesRule
  <2> QED
    BY <1>6, <2>1, <2>2
<1> HIDE DEF a, b, fp
<1>9. CopiesOf([pc EXCEPT ![e] = @ - 1]) = CopiesOf(pc) \ {c} /\ c \in CopiesOf(pc)
  BY OneCopyLess
<1>10. PICK p : Owned(u, p) /\ \A d : Covered(t, o, d) /\ d # <<a, b>> => Covered(u, p, d)
  <2>1. o[i][s] = <<a, b>>
    BY <1>8
  <2> DEFINE w == [k \in 1..(Len(t[i]) - 1) |-> IF k < s THEN t[i][k] ELSE t[i][k + 1]]
  <2>2. w \in Seq(Nat) /\ Len(w) = Len(t[i]) - 1
    <3>1. Len(t[i]) \in Nat /\ s \in 1..Len(t[i])
      BY <1>2
    <3>2. \A k \in 1..(Len(t[i]) - 1) : k \in 1..Len(t[i]) /\ k + 1 \in 1..Len(t[i])
      BY <3>1
    <3>3. \A k \in 1..(Len(t[i]) - 1) : (IF k < s THEN t[i][k] ELSE t[i][k + 1]) \in Nat
      BY <1>2, <3>2
    <3>4. w \in [1..(Len(t[i]) - 1) -> Nat] /\ Len(t[i]) - 1 \in Nat
      BY <3>1, <3>3
    <3> HIDE DEF w
    <3> QED
      BY <3>4
  <2>3. \A k \in 1..(Len(t[i]) - 1) : w[k] = IF k < s THEN t[i][k] ELSE t[i][k + 1]
    OBVIOUS
  <2> HIDE DEF w
  <2>4. u = [t EXCEPT ![i] = w]
    BY <1>5 DEF w
  <2>6. u[i] = w /\ (\A x \in BucketIds : x # i => u[x] = t[x]) /\ u \in [BucketIds -> Seq(Nat)]
    BY <1>2, <2>2, <2>4
  <2>5. \E p : Owned(u, p) /\ \A d : Covered(t, o, d) /\ d # o[i][s] => Covered(u, p, d)
    <3>1. Owned(t, o) /\ i \in BucketIds /\ s \in 1..Len(t[i])
      BY <1>1, <1>2
    <3>2. Dropped(t, u, i, s)
      BY <2>2, <2>3, <2>6 DEF Dropped
    <3> QED
      BY <3>1, <3>2, DropOwned
  <2> QED
    BY <2>1, <2>5
<1>11. CASE <<a, b>> = c
  <2>1. \A x \in CopiesOf(pc) \ {c} : Covered(u, p, x)
    BY <1>1, <1>10, <1>11
  <2> QED
    BY <1>9, <1>10, <2>1 DEF BucketsHold, Carries, u
<1>12. CASE <<a, b>> # c
  <2>1. Covered(u, p, c)
    BY <1>1, <1>9, <1>10, <1>12
  <2>2. PICK q : Owned(u, q) /\ Covered(u, q, <<a, b>>) /\ \A x : Covered(u, p, x) /\ x # c => Covered(u, q, x)
    <3>1. c[1] = e
      OBVIOUS
    <3> HIDE DEF c
    <3> QED
      BY <1>8, <1>10, <2>1, <3>1, OwnerChanged
  <2>3. \A x \in CopiesOf(pc) \ {c} : Covered(u, q, x)
    BY <1>1, <1>10, <2>2
  <2> QED
    BY <1>9, <2>2, <2>3 DEF BucketsHold, Carries, u
<1> QED
  BY <1>11, <1>12

(* Empty buckets.                                                            *)
LEMMA BucketsInit ==
    ASSUME NEW pc, \A e \in Elements : pc[e] = 0
    PROVE  BucketsHold([i \in BucketIds |-> <<>>], pc)
<1> DEFINE t == [i \in BucketIds |-> <<>>]
           o == [i \in BucketIds |-> [j \in Nat |-> <<NoKey, 0>>]]
<1>1. CopiesOf(pc) = {}
  <2> SUFFICES ASSUME NEW v \in CopiesOf(pc) PROVE FALSE
    OBVIOUS
  <2>1. v[1] \in Elements /\ v[2] \in 1..pc[v[1]]
    BY DEF CopiesOf
  <2>2. v[2] \in 1..0
    BY <2>1
  <2> QED
    BY <2>2
<1>2. t \in [BucketIds -> Seq(Nat)]
  OBVIOUS
<1>3. o \in [BucketIds -> [Nat -> (Elements \cup {NoKey}) \X Nat]]
  OBVIOUS
<1>4. \A i \in BucketIds : t[i] = <<>> /\ Len(t[i]) = 0
  OBVIOUS
<1> HIDE DEF t, o
<1>5. \A i \in BucketIds : Len(t[i]) <= BucketSize /\ \A j \in 1..Len(t[i]) : FALSE
  <2>1. BucketSize \in Nat
    BY HashAssumption
  <2> QED
    BY <1>4, <2>1
<1>6. Owned(t, o)
  BY <1>2, <1>3, <1>5 DEF Owned
<1> QED
  BY <1>1, <1>6 DEF BucketsHold, Carries, t

-----------------------------------------------------------------------------
(* Cuckoo hash table: a slot for every key.                                  *)

(* Cuckoo hash table. A table's slots, both tables, one round of _seat.      *)
SlotIds(n) == 0..(n - 1)
TwoTables(n) == [{1, 2} -> [SlotIds(n) -> TableKeys \cup {NoKey}]]
SeatStates(n) == [to : TwoTables(n), homeless : TableKeys \cup {NoKey}]
SeatFrom(h, r, j) ==
    LET k == ((j - 1) % 2) + 1
        i == h[k][r.homeless]
    IN  IF r.homeless = NoKey THEN r
        ELSE [to |-> [r.to EXCEPT ![k][i] = r.homeless], homeless |-> r.to[k][i]]

(* The tables and the key without a place have the keys of K, each of them   *)
(* once, and in no slot but its own.                                         *)
InPlace(t, h, k, e) == t[k][h[k][e]] = e
Fit(n, t, x, h, K) ==
    /\ \A k \in {1, 2} : \A i \in SlotIds(n) : t[k][i] # NoKey => t[k][i] \in K /\ h[k][t[k][i]] = i
    /\ x # NoKey => x \in K
    /\ \A e \in K : /\ InPlace(t, h, 1, e) \/ InPlace(t, h, 2, e) \/ x = e
                    /\ ~(InPlace(t, h, 1, e) /\ InPlace(t, h, 2, e))
                    /\ x = e => ~InPlace(t, h, 1, e) /\ ~InPlace(t, h, 2, e)

(* A key is an element, and is not the mark of an empty slot.                *)
LEMMA KeysRule == NoKey \notin TableKeys /\ TableKeys \subseteq Elements
BY HashAssumption DEF NoKey

(* The slots of a key are slots.                                             *)
LEMMA SlotOfKey ==
    ASSUME NEW n \in Nat \ {0}, NEW h \in HashesTo(n), NEW k \in {1, 2}, NEW e \in TableKeys
    PROVE  h[k][e] \in SlotIds(n)
<1>1. h[k] \in [TableKeys -> 0..(n - 1)]
  BY DEF HashesTo
<1> QED
  BY <1>1 DEF SlotIds

(* What one round does.                                                      *)
LEMMA SeatFromIs ==
    ASSUME NEW n \in Nat \ {0}, NEW h \in HashesTo(n), NEW r \in SeatStates(n), NEW j \in Nat \ {0}
    PROVE  /\ SeatFrom(h, r, j) \in SeatStates(n)
           /\ r.homeless = NoKey => SeatFrom(h, r, j) = r
           /\ r.homeless # NoKey => \E k \in {1, 2} : \E i \in SlotIds(n) :
                 /\ i = h[k][r.homeless] /\ SeatFrom(h, r, j).homeless = r.to[k][i]
                 /\ SeatFrom(h, r, j).to[k][i] = r.homeless
                 /\ \A a \in {1, 2} : \A b \in SlotIds(n) :
                       a # k \/ b # i => SeatFrom(h, r, j).to[a][b] = r.to[a][b]
<1> DEFINE k == ((j - 1) % 2) + 1
           i == h[k][r.homeless]
           u == [r.to EXCEPT ![k][i] = r.homeless]
<1>1. r.to \in TwoTables(n) /\ r.homeless \in TableKeys \cup {NoKey} /\ r = [to |-> r.to, homeless |-> r.homeless]
  BY DEF SeatStates
<1>2. k \in {1, 2}
  OBVIOUS
<1>3. CASE r.homeless = NoKey
  BY <1>3 DEF SeatFrom
<1>4. CASE r.homeless # NoKey
  <2>1. i \in SlotIds(n)
    BY <1>1, <1>2, <1>4, SlotOfKey
  <2>2. SeatFrom(h, r, j) = [to |-> u, homeless |-> r.to[k][i]]
    BY <1>4 DEF SeatFrom
  <2> HIDE DEF k, i
  <2>3. r.to[k] \in [SlotIds(n) -> TableKeys \cup {NoKey}]
    BY <1>1, <1>2 DEF TwoTables
  <2> DEFINE w == [r.to[k] EXCEPT ![i] = r.homeless]
  <2>4. w \in [SlotIds(n) -> TableKeys \cup {NoKey}] /\ w[i] = r.homeless /\ \A b \in SlotIds(n) : b # i => w[b] = r.to[k][b]
    BY <1>1, <2>1, <2>3
  <2>5. u = [r.to EXCEPT ![k] = w]
    BY <1>1, <1>2 DEF TwoTables
  <2> HIDE DEF w, u
  <2>6. u \in TwoTables(n) /\ u[k] = w /\ \A a \in {1, 2} : a # k => u[a] = r.to[a]
    BY <1>1, <1>2, <2>4, <2>5 DEF TwoTables
  <2>7. SeatFrom(h, r, j) \in SeatStates(n)
    BY <2>1, <2>2, <2>3, <2>6 DEF SeatStates
  <2>8. SeatFrom(h, r, j).to = u /\ SeatFrom(h, r, j).homeless = r.to[k][i]
    BY <2>2
  <2>9. u[k][i] = r.homeless /\ \A a \in {1, 2} : \A b \in SlotIds(n) : a # k \/ b # i => u[a][b] = r.to[a][b]
    BY <2>4, <2>6
  <2>10. i = h[k][r.homeless]
    BY DEF i
  <2> QED
    BY <1>2, <1>4, <2>1, <2>7, <2>8, <2>9, <2>10
<1> QED
  BY <1>3, <1>4

(* A round keeps them: the key that was in the slot has no place now.        *)
LEMMA SeatStep ==
    ASSUME NEW n \in Nat \ {0}, NEW h \in HashesTo(n), NEW r \in SeatStates(n), NEW j \in Nat \ {0},
           NEW K \in SUBSET TableKeys, Fit(n, r.to, r.homeless, h, K)
    PROVE  Fit(n, SeatFrom(h, r, j).to, SeatFrom(h, r, j).homeless, h, K)
<1>1. CASE r.homeless = NoKey
  BY <1>1, SeatFromIs
<1>2. CASE r.homeless # NoKey
  <2> DEFINE x == r.homeless
             t == r.to
             u == SeatFrom(h, r, j).to
             y == SeatFrom(h, r, j).homeless
  <2>1. PICK k \in {1, 2}, i \in SlotIds(n) :
           /\ i = h[k][x] /\ y = t[k][i] /\ u[k][i] = x
           /\ \A a \in {1, 2} : \A b \in SlotIds(n) : a # k \/ b # i => u[a][b] = t[a][b]
    BY <1>2, SeatFromIs
  <2>2. Fit(n, t, x, h, K) /\ x \in K /\ NoKey \notin K /\ x # NoKey
    BY <1>2, KeysRule DEF Fit
  <2> HIDE DEF x, t, u, y
  <2>3. \A a \in {1, 2} : \A e \in K : h[a][e] \in SlotIds(n)
    BY SlotOfKey
  <2>4. \A e \in K : ~InPlace(t, h, 1, x) /\ ~InPlace(t, h, 2, x)
    BY <2>2 DEF Fit
  <2>5. y # x
    BY <2>1, <2>2, <2>4 DEF InPlace
  <2>6. y # NoKey => y \in K /\ h[k][y] = i
    BY <2>1, <2>2 DEF Fit
  <2>7. \A a \in {1, 2} : \A b \in SlotIds(n) : u[a][b] # NoKey => u[a][b] \in K /\ h[a][u[a][b]] = b
    BY <2>1, <2>2 DEF Fit
  <2>8. ASSUME NEW e \in K, NEW a \in {1, 2}, e # x, e # y PROVE InPlace(u, h, a, e) <=> InPlace(t, h, a, e)
    <3>1. CASE a = k /\ h[a][e] = i
      BY <2>1, <2>8, <3>1 DEF InPlace
    <3>2. CASE a # k \/ h[a][e] # i
      BY <2>1, <2>3, <3>2 DEF InPlace
    <3> QED
      BY <3>1, <3>2
  <2>9. InPlace(u, h, k, x) /\ \A a \in {1, 2} : a # k => ~InPlace(u, h, a, x)
    BY <2>1, <2>2, <2>3, <2>4 DEF InPlace
  <2>10. y # NoKey => /\ InPlace(t, h, k, y)
                      /\ ~InPlace(u, h, k, y)
                      /\ \A a \in {1, 2} : a # k => ~InPlace(u, h, a, y)
    <3> SUFFICES ASSUME y # NoKey PROVE InPlace(t, h, k, y) /\ ~InPlace(u, h, k, y)
                                        /\ \A a \in {1, 2} : a # k => ~InPlace(u, h, a, y)
      OBVIOUS
    <3>1. y \in K /\ h[k][y] = i
      BY <2>6
    <3>2. InPlace(t, h, k, y) /\ ~InPlace(u, h, k, y)
      BY <2>1, <2>5, <3>1 DEF InPlace
    <3>3. ASSUME NEW a \in {1, 2}, a # k, InPlace(u, h, a, y) PROVE FALSE
      <4>1. InPlace(t, h, a, y)
        BY <2>1, <2>3, <3>1, <3>3 DEF InPlace
      <4> QED
        BY <2>2, <3>1, <3>2, <3>3, <4>1 DEF Fit
    <3> QED
      BY <3>2, <3>3
  <2>11. ASSUME NEW e \in K
         PROVE  /\ InPlace(u, h, 1, e) \/ InPlace(u, h, 2, e) \/ y = e
                /\ ~(InPlace(u, h, 1, e) /\ InPlace(u, h, 2, e))
                /\ y = e => ~InPlace(u, h, 1, e) /\ ~InPlace(u, h, 2, e)
    <3>1. CASE e = x
      BY <2>5, <2>9, <3>1
    <3>2. CASE e = y
      <4>1. y # NoKey
        BY <2>2, <3>2
      <4> QED
        BY <2>10, <3>2, <4>1
    <3>3. CASE e # x /\ e # y
      <4>1. (InPlace(u, h, 1, e) <=> InPlace(t, h, 1, e)) /\ (InPlace(u, h, 2, e) <=> InPlace(t, h, 2, e))
        BY <2>8, <3>3
      <4> QED
        BY <2>2, <3>3, <4>1 DEF Fit
    <3> QED
      BY <3>1, <3>2, <3>3
  <2>12. Fit(n, u, y, h, K)
    BY <2>6, <2>7, <2>11 DEF Fit
  <2> QED
    BY <2>12 DEF u, y
<1> QED
  BY <1>1, <1>2

(* Seat is its own recursion, and keeps them.                                *)
LEMMA SeatGood ==
    ASSUME NEW n \in Nat \ {0}, NEW h \in HashesTo(n), NEW t \in TwoTables(n), NEW x \in TableKeys \cup {NoKey}
    PROVE  /\ Seat(t, h, x) \in SeatStates(n)
           /\ \A K \in SUBSET TableKeys : Fit(n, t, x, h, K) => Fit(n, Seat(t, h, x).to, Seat(t, h, x).homeless, h, K)
<1> DEFINE N == 2 * MaxKicks
           X == SeatStates(n)
           first == [to |-> t, homeless |-> x]
           step == [v \in (1..N) \X X |-> SeatFrom(h, v[2], v[1])]
           F(s) == [j \in 0..(2 * MaxKicks) |->
                     IF j = 0 THEN [to |-> t, homeless |-> x]
                     ELSE LET r == s[j - 1]
                              k == ((j - 1) % 2) + 1
                              i == h[k][r.homeless]
                          IN  IF r.homeless = NoKey THEN r
                              ELSE [to |-> [r.to EXCEPT ![k][i] = r.homeless], homeless |-> r.to[k][i]]]
           H(s) == [j \in 0..N |-> IF j = 0 THEN first ELSE SeatFrom(h, s[j - 1], j)]
           G == CHOOSE s : s = F(s)
<1>1. N \in Nat
  BY HashAssumption
<1>2. \A j \in 1..N, r \in X : step[<<j, r>>] = SeatFrom(h, r, j) /\ SeatFrom(h, r, j) \in X
  <2> TAKE j \in 1..N, r \in X
  <2>1. j \in Nat \ {0}
    OBVIOUS
  <2> QED
    BY <2>1, SeatFromIs
<1>3. first \in X
  BY DEF SeatStates
<1>4. \A s : F(s) = H(s)
  BY DEF SeatFrom
<1>5. Seat(t, h, x) = G[N]
  BY DEF Seat
<1> HIDE DEF F, first, step, X, N
<1>6. PICK g \in [0..N -> X] : g[0] = first /\ \A j \in 1..N : g[j] = step[<<j, g[j - 1]>>]
  <2>1. Rounded(N, X, first, step)
    BY <1>1, <1>2, <1>3 DEF Rounded
  <2> QED
    BY <2>1, Rounds
<1>7. g = F(g)
  <2>1. ASSUME NEW j \in 0..N PROVE g[j] = IF j = 0 THEN first ELSE SeatFrom(h, g[j - 1], j)
    <3>1. j # 0 => j \in 1..N /\ j - 1 \in 0..N
      BY <1>1
    <3> QED
      BY <1>2, <1>6, <3>1
  <2>2. g = H(g)
    BY <1>6, <2>1
  <2> QED
    BY <1>4, <2>2
<1>8. G = F(G)
  BY <1>7
<1> HIDE DEF G
<1>9. \A j \in 0..N : G[j] = IF j = 0 THEN first ELSE SeatFrom(h, G[j - 1], j)
  BY <1>4, <1>8
<1> DEFINE Good(r) == r \in X /\ \A K \in SUBSET TableKeys : Fit(n, t, x, h, K) => Fit(n, r.to, r.homeless, h, K)
           S == {j \in 0..N : Good(G[j])}
<1>10. 0 \in S
  <2>1. G[0] = first /\ first.to = t /\ first.homeless = x
    BY <1>1, <1>9 DEF first
  <2> QED
    BY <1>1, <1>3, <2>1
<1>11. ASSUME NEW j \in 0..(N - 1), j \in S PROVE j + 1 \in S
  <2>1. j + 1 \in 0..N /\ j + 1 # 0 /\ (j + 1) - 1 = j /\ j + 1 \in Nat \ {0} /\ j + 1 \in 1..N
    BY <1>1
  <2>2. G[j + 1] = SeatFrom(h, G[j], j + 1)
    BY <1>9, <2>1
  <2>3. G[j] \in SeatStates(n)
    BY <1>11 DEF X
  <2>4. \A K \in SUBSET TableKeys : Fit(n, G[j].to, G[j].homeless, h, K) => Fit(n, G[j + 1].to, G[j + 1].homeless, h, K)
    BY <2>1, <2>2, <2>3, SeatStep
  <2>5. G[j + 1] \in X
    BY <1>2, <1>11, <2>1, <2>2
  <2> QED
    BY <1>11, <2>1, <2>4, <2>5
<1> HIDE DEF S
<1>12. \A j \in 0..N : j \in S
  <2>1. 0 \in Int /\ N \in Int
    BY <1>1
  <2> QED
    BY <1>10, <1>11, <2>1, Upward
<1>13. N \in S
  BY <1>1, <1>12
<1> QED
  BY <1>5, <1>13 DEF S, X

(* A key more.                                                               *)
LEMMA FitMore ==
    ASSUME NEW n \in Nat \ {0}, NEW h \in HashesTo(n), NEW t \in TwoTables(n), NEW K \in SUBSET TableKeys,
           Fit(n, t, NoKey, h, K), NEW x \in TableKeys \ K
    PROVE  Fit(n, t, x, h, K \cup {x})
<1>1. \A k \in {1, 2} : \A e \in TableKeys : h[k][e] \in SlotIds(n)
  BY SlotOfKey
<1>2. NoKey \notin TableKeys
  BY KeysRule
<1>3. ~InPlace(t, h, 1, x) /\ ~InPlace(t, h, 2, x)
  BY <1>1, <1>2 DEF Fit, InPlace
<1> QED
  BY <1>2, <1>3 DEF Fit

(* What _rebuild seats: the first table's slots, the second's, the homeless. *)
ItemOf(t, m, key, k) == IF k <= m THEN t[1][k - 1] ELSE IF k <= 2 * m THEN t[2][k - m - 1] ELSE key
ItemsTo(t, m, key, k) == {ItemOf(t, m, key, j) : j \in 1..k} \ {NoKey}

(* It seats every key there is, and each of them once.                       *)
LEMMA ItemsOnce ==
    ASSUME NEW m \in Nat \ {0}, NEW h \in HashesTo(m), NEW t \in TwoTables(m), NEW key \in TableKeys \cup {NoKey},
           NEW K \in SUBSET TableKeys, Fit(m, t, key, h, K)
    PROVE  /\ \A k \in 1..(2 * m + 1) : ItemOf(t, m, key, k) \in K \cup {NoKey}
           /\ \A j, k \in 1..(2 * m + 1) :
                 j < k /\ ItemOf(t, m, key, j) = ItemOf(t, m, key, k) => ItemOf(t, m, key, k) = NoKey
           /\ ItemsTo(t, m, key, 2 * m + 1) = K
<1> DEFINE it(k) == ItemOf(t, m, key, k)
<1>1. \A k \in 1..m : k - 1 \in SlotIds(m) /\ it(k) = t[1][k - 1] /\ k \in 1..(2 * m + 1)
  BY DEF SlotIds, ItemOf
<1>2. \A k \in (m + 1)..(2 * m) : k - m - 1 \in SlotIds(m) /\ it(k) = t[2][k - m - 1] /\ k \in 1..(2 * m + 1)
  BY DEF SlotIds, ItemOf
<1>3. it(2 * m + 1) = key /\ 2 * m + 1 \in 1..(2 * m + 1)
  BY DEF ItemOf
<1>4. \A k \in 1..(2 * m + 1) : k \in 1..m \/ k \in (m + 1)..(2 * m) \/ k = 2 * m + 1
  OBVIOUS
<1> HIDE DEF it
<1>5. ASSUME NEW k \in 1..(2 * m + 1), it(k) # NoKey
      PROVE  /\ it(k) \in K
             /\ k \in 1..m => k - 1 = h[1][it(k)] /\ InPlace(t, h, 1, it(k))
             /\ k \in (m + 1)..(2 * m) => k - m - 1 = h[2][it(k)] /\ InPlace(t, h, 2, it(k))
             /\ k = 2 * m + 1 => key = it(k)
  <2>1. CASE k \in 1..m
    <3>1. it(k) \in K /\ h[1][it(k)] = k - 1
      BY <1>1, <1>5, <2>1 DEF Fit
    <3> QED
      BY <1>1, <2>1, <3>1 DEF InPlace
  <2>2. CASE k \in (m + 1)..(2 * m)
    <3>1. it(k) \in K /\ h[2][it(k)] = k - m - 1
      BY <1>2, <1>5, <2>2 DEF Fit
    <3> QED
      BY <1>2, <2>2, <3>1 DEF InPlace
  <2>3. CASE k = 2 * m + 1
    BY <1>3, <1>5, <2>3 DEF Fit
  <2> QED
    BY <1>4, <2>1, <2>2, <2>3
<1>6. ASSUME NEW j \in 1..(2 * m + 1), NEW k \in 1..(2 * m + 1), j < k, it(j) = it(k), it(k) # NoKey PROVE FALSE
  <2> DEFINE e == it(k)
  <2>1. e \in K
    BY <1>5, <1>6
  <2>2. ~(InPlace(t, h, 1, e) /\ InPlace(t, h, 2, e)) /\ (key = e => ~InPlace(t, h, 1, e) /\ ~InPlace(t, h, 2, e))
    BY <2>1 DEF Fit
  <2>3. j \in 1..m => j - 1 = h[1][e] /\ InPlace(t, h, 1, e)
    BY <1>5, <1>6
  <2>4. j \in (m + 1)..(2 * m) => j - m - 1 = h[2][e] /\ InPlace(t, h, 2, e)
    BY <1>5, <1>6
  <2>5. /\ k \in 1..m => k - 1 = h[1][e] /\ InPlace(t, h, 1, e)
        /\ k \in (m + 1)..(2 * m) => k - m - 1 = h[2][e] /\ InPlace(t, h, 2, e)
        /\ k = 2 * m + 1 => key = e
    BY <1>5, <1>6
  <2> HIDE DEF e
  <2>6. CASE j \in 1..m /\ k \in 1..m
    <3>1. j - 1 = k - 1
      BY <2>3, <2>5, <2>6
    <3> QED
      BY <1>6, <3>1
  <2>7. CASE j \in (m + 1)..(2 * m) /\ k \in (m + 1)..(2 * m)
    <3>1. j - m - 1 = k - m - 1
      BY <2>4, <2>5, <2>7
    <3> QED
      BY <1>6, <3>1
  <2>8. CASE ~(j \in 1..m /\ k \in 1..m) /\ ~(j \in (m + 1)..(2 * m) /\ k \in (m + 1)..(2 * m))
    <3>1. j # 2 * m + 1
      BY <1>6
    <3> QED
      BY <1>4, <1>6, <2>2, <2>3, <2>4, <2>5, <2>8, <3>1
  <2> QED
    BY <2>6, <2>7, <2>8
<1>7. ASSUME NEW e \in K PROVE \E k \in 1..(2 * m + 1) : it(k) = e
  <2>1. h[1][e] \in SlotIds(m) /\ h[2][e] \in SlotIds(m)
    BY SlotOfKey
  <2>2. CASE InPlace(t, h, 1, e)
    <3>1. h[1][e] + 1 \in 1..m /\ (h[1][e] + 1) - 1 = h[1][e]
      BY <2>1 DEF SlotIds
    <3>2. it(h[1][e] + 1) = e
      BY <1>1, <2>2, <3>1 DEF InPlace
    <3> QED
      BY <1>1, <3>1, <3>2
  <2>3. CASE InPlace(t, h, 2, e)
    <3>1. h[2][e] + m + 1 \in (m + 1)..(2 * m) /\ (h[2][e] + m + 1) - m - 1 = h[2][e]
      BY <2>1 DEF SlotIds
    <3>2. it(h[2][e] + m + 1) = e
      BY <1>2, <2>3, <3>1 DEF InPlace
    <3> QED
      BY <1>2, <3>1, <3>2
  <2>4. CASE key = e
    BY <1>3, <2>4
  <2> QED
    BY <2>2, <2>3, <2>4 DEF Fit
<1>8. ItemsTo(t, m, key, 2 * m + 1) = {it(j) : j \in 1..(2 * m + 1)} \ {NoKey}
  BY DEF ItemsTo, it
<1>9. NoKey \notin K
  BY KeysRule
<1>10. ItemsTo(t, m, key, 2 * m + 1) = K
  BY <1>5, <1>7, <1>8, <1>9
<1> QED
  BY <1>5, <1>6, <1>10 DEF it

(* Everything seated anew.                                                   *)
LEMMA SeatAllGood ==
    ASSUME NEW m \in Nat \ {0}, NEW h0 \in HashesTo(m), NEW t \in TwoTables(m), NEW key \in TableKeys \cup {NoKey},
           NEW K \in SUBSET TableKeys, Fit(m, t, key, h0, K),
           NEW n \in Nat \ {0}, NEW h \in HashesTo(n)
    PROVE  LET r == SeatAll(t, m, key, n, h) IN
           r.homeless = NoKey => r.to \in TwoTables(n) /\ Fit(n, r.to, NoKey, h, K)
<1> DEFINE N == 2 * m + 1
           X == SeatStates(n)
           it(k) == ItemOf(t, m, key, k)
           first == [to |-> EmptyTable(n), homeless |-> NoKey]
           From(r, k) == IF r.homeless # NoKey \/ it(k) = NoKey THEN r ELSE Seat(r.to, h, it(k))
           step == [v \in (1..N) \X X |-> From(v[2], v[1])]
           F(s) == [k \in 0..(2 * m + 1) |->
                     IF k = 0 THEN [to |-> EmptyTable(n), homeless |-> NoKey]
                     ELSE LET r == s[k - 1]
                          IN  IF \/ r.homeless # NoKey
                                 \/ (IF k <= m THEN t[1][k - 1] ELSE IF k <= 2 * m THEN t[2][k - m - 1] ELSE key) = NoKey
                              THEN r
                              ELSE Seat(r.to, h, IF k <= m THEN t[1][k - 1]
                                                 ELSE IF k <= 2 * m THEN t[2][k - m - 1] ELSE key)]
           H(s) == [k \in 0..N |-> IF k = 0 THEN first ELSE From(s[k - 1], k)]
           G == CHOOSE s : s = F(s)
<1>1. N \in Nat
  OBVIOUS
<1>2. /\ \A k \in 1..N : it(k) \in K \cup {NoKey}
      /\ \A j, k \in 1..N : j < k /\ it(j) = it(k) => it(k) = NoKey
      /\ ItemsTo(t, m, key, N) = K
  BY ItemsOnce
<1>3. first \in X /\ Fit(n, first.to, NoKey, h, {})
  <2>1. EmptyTable(n) \in TwoTables(n)
    <3> DEFINE s == [i \in 0..(n - 1) |-> NoKey]
    <3>1. s \in [SlotIds(n) -> TableKeys \cup {NoKey}]
      BY DEF SlotIds
    <3>2. EmptyTable(n) = <<s, s>>
      BY DEF EmptyTable
    <3> HIDE DEF s
    <3> QED
      BY <3>1, <3>2 DEF TwoTables
  <2>2. \A k \in {1, 2} : \A i \in SlotIds(n) : EmptyTable(n)[k][i] = NoKey
    BY DEF EmptyTable, SlotIds
  <2> QED
    BY <2>1, <2>2 DEF SeatStates, Fit
<1>4. \A s : F(s) = H(s)
  BY DEF ItemOf
<1>5. SeatAll(t, m, key, n, h) = G[N]
  BY DEF SeatAll
<1>6. \A k \in 1..N, r \in X : step[<<k, r>>] = From(r, k) /\ From(r, k) \in X
  <2> TAKE k \in 1..N, r \in X
  <2>1. it(k) \in TableKeys \cup {NoKey} /\ r.to \in TwoTables(n)
    BY <1>2 DEF SeatStates
  <2>2. Seat(r.to, h, it(k)) \in X
    <3> HIDE DEF it
    <3> QED
      BY <2>1, SeatGood
  <2> QED
    BY <2>2
<1> HIDE DEF F, first, step, X, N, it, From
<1>7. PICK g \in [0..N -> X] : g[0] = first /\ \A k \in 1..N : g[k] = step[<<k, g[k - 1]>>]
  <2>1. Rounded(N, X, first, step)
    BY <1>1, <1>3, <1>6 DEF Rounded
  <2> QED
    BY <2>1, Rounds
<1>8. g = F(g)
  <2>1. ASSUME NEW k \in 0..N PROVE g[k] = IF k = 0 THEN first ELSE From(g[k - 1], k)
    <3>1. k # 0 => k \in 1..N /\ k - 1 \in 0..N
      BY <1>1
    <3> QED
      BY <1>6, <1>7, <3>1
  <2>2. g = H(g)
    BY <1>7, <2>1
  <2> QED
    BY <1>4, <2>2
<1>9. G = F(G)
  BY <1>8
<1> HIDE DEF G
<1>10. \A k \in 0..N : G[k] = IF k = 0 THEN first ELSE From(G[k - 1], k)
  BY <1>4, <1>9
<1> DEFINE Items(k) == ItemsTo(t, m, key, k)
           Good(r, k) == r \in X /\ (r.homeless = NoKey => Fit(n, r.to, NoKey, h, Items(k)))
           S == {k \in 0..N : Good(G[k], k)}
<1>11. 0 \in S
  <2>1. G[0] = first /\ 0 \in 0..N
    BY <1>1, <1>10
  <2>2. Items(0) = {}
    BY DEF ItemsTo
  <2> QED
    BY <1>3, <2>1, <2>2
<1>12. ASSUME NEW k \in 0..(N - 1), k \in S PROVE k + 1 \in S
  <2>1. k + 1 \in 0..N /\ k + 1 # 0 /\ (k + 1) - 1 = k /\ k + 1 \in 1..N
    BY <1>1
  <2>2. G[k + 1] = From(G[k], k + 1) /\ G[k] \in X /\ G[k + 1] \in X
    BY <1>6, <1>10, <1>12, <2>1
  <2>3. Items(k + 1) = (Items(k) \cup {it(k + 1)}) \ {NoKey}
    <3>1. \A j \in 1..(k + 1) : j \in 1..k \/ j = k + 1
      BY <1>1
    <3>2. k + 1 \in 1..(k + 1) /\ \A j \in 1..k : j \in 1..(k + 1)
      BY <1>1
    <3> QED
      BY <3>1, <3>2 DEF ItemsTo, it
  <2>4. Items(k) \subseteq TableKeys /\ NoKey \notin Items(k)
    <3>1. \A j \in 1..k : j \in 1..N
      BY <1>1
    <3>2. Items(k) = {it(j) : j \in 1..k} \ {NoKey}
      BY DEF ItemsTo, it
    <3> QED
      BY <1>2, <3>1, <3>2
  <2> SUFFICES ASSUME G[k + 1].homeless = NoKey PROVE Fit(n, G[k + 1].to, NoKey, h, Items(k + 1))
    BY <2>1, <2>2
  <2>5. G[k].homeless = NoKey
    BY <2>2 DEF From
  <2>6. Fit(n, G[k].to, NoKey, h, Items(k)) /\ G[k].to \in TwoTables(n)
    BY <1>12, <2>2, <2>5 DEF X, SeatStates
  <2>7. CASE it(k + 1) = NoKey
    <3>1. G[k + 1] = G[k] /\ Items(k + 1) = Items(k)
      BY <2>2, <2>3, <2>4, <2>7 DEF From
    <3> QED
      BY <2>6, <3>1
  <2>8. CASE it(k + 1) # NoKey
    <3>1. G[k + 1] = Seat(G[k].to, h, it(k + 1))
      BY <2>2, <2>5, <2>8 DEF From
    <3>2. it(k + 1) \in TableKeys /\ it(k + 1) \notin Items(k)
      <4>1. \A j \in 1..k : j \in 1..N /\ j < k + 1
        BY <1>1
      <4>2. Items(k) = {it(j) : j \in 1..k} \ {NoKey}
        BY DEF ItemsTo, it
      <4> QED
        BY <1>2, <2>1, <2>8, <4>1, <4>2
    <3>3. Items(k + 1) = Items(k) \cup {it(k + 1)} /\ Items(k + 1) \subseteq TableKeys
      BY <2>3, <2>4, <2>8, <3>2
    <3>4. Fit(n, G[k].to, it(k + 1), h, Items(k + 1))
      <4> HIDE DEF Items
      <4> QED
        BY <2>4, <2>6, <3>2, <3>3, FitMore
    <3> HIDE DEF Items
    <3>5. Fit(n, G[k + 1].to, G[k + 1].homeless, h, Items(k + 1))
      BY <2>6, <3>1, <3>2, <3>3, <3>4, SeatGood
    <3> QED
      BY <3>5
  <2> QED
    BY <2>7, <2>8
<1> HIDE DEF S
<1>13. \A k \in 0..N : k \in S
  <2>1. 0 \in Int /\ N \in Int
    BY <1>1
  <2> QED
    BY <1>11, <1>12, <2>1, Upward
<1>14. N \in S
  BY <1>1, <1>13
<1> QED
  BY <1>2, <1>5, <1>14 DEF S, X, SeatStates

(* The keys there are have a slot each, one of their own two.                *)
KeysOf(pc) == {e \in TableKeys : pc[e] = 1}
TablesHold(t, h, pc) ==
    /\ \A e \in Elements : pc[e] \in {0, 1} /\ (e \notin TableKeys => pc[e] = 0)
    /\ \E n \in TableSizes : t \in TwoTables(n) /\ h \in HashesTo(n) /\ Fit(n, t, NoKey, h, KeysOf(pc))

(* The sizes are numbers, and the first is one of them.                      *)
LEMMA SizesRule == TableSizes \subseteq Nat \ {0} /\ Min(TableSizes) \in TableSizes
<1> DEFINE mu == [n \in TableSizes |-> n]
           T == {n \in TableSizes : ~\A y \in TableSizes : n <= y}
<1>1. TableSizes \subseteq Nat \ {0} /\ TableSizes # {}
  BY HashAssumption
<1>2. \E n \in TableSizes : \A y \in TableSizes : n <= y
  <2> SUFFICES ASSUME \A n \in TableSizes : ~\A y \in TableSizes : n <= y PROVE FALSE
    OBVIOUS
  <2>0. mu \in [TableSizes -> Nat]
    BY <1>1
  <2>1. ASSUME NEW S, S = {n \in TableSizes : FALSE}, NEW n \in TableSizes, \A y \in TableSizes : mu[y] < mu[n] => y \in S
        PROVE n \in S
    <3>1. PICK y \in TableSizes : ~(n <= y)
      OBVIOUS
    <3>2. mu[y] < mu[n]
      BY <1>1, <3>1
    <3> QED
      BY <2>1, <3>2
  <2> HIDE DEF mu
  <2>2. \A n \in TableSizes : n \in {x \in TableSizes : FALSE}
    BY <2>0, <2>1, ByMeasure
  <2> QED
    BY <1>1, <2>2
<1> QED
  BY <1>1, <1>2 DEF Min

(* What TableSize finds.                                                     *)
LEMMA SizeOfTable ==
    ASSUME NEW n \in Nat \ {0}, NEW t \in TwoTables(n)
    PROVE  DOMAIN t[1] = SlotIds(n) /\ Cardinality(DOMAIN t[1]) = n
<1>1. DOMAIN t[1] = 0..(n - 1)
  BY DEF TwoTables, SlotIds
<1>2. Cardinality(0..(n - 1)) = n
  BY FS_Interval
<1> QED
  BY <1>1, <1>2 DEF SlotIds

(* A key is found exactly when it is there, in one slot.                     *)
LEMMA TablesFind ==
    ASSUME NEW pc, TablesHold(body, hashes, pc), NEW e \in Elements
    PROVE  /\ pc[e] > 0 => TableHolds(body, e)
           /\ e \in TableKeys /\ TableHolds(body, e) => pc[e] = 1
           /\ Cardinality({p \in {1, 2} \X DOMAIN body[1] : body[p[1]][p[2]] = e}) = pc[e]
<1>1. PICK n \in TableSizes : body \in TwoTables(n) /\ hashes \in HashesTo(n) /\ Fit(n, body, NoKey, hashes, KeysOf(pc))
  BY DEF TablesHold
<1>2. n \in Nat \ {0} /\ DOMAIN body[1] = SlotIds(n) /\ NoKey \notin Elements /\ NoKey \notin TableKeys
  BY <1>1, SizesRule, SizeOfTable, HashAssumption DEF NoKey
<1> DEFINE P == {p \in {1, 2} \X SlotIds(n) : body[p[1]][p[2]] = e}
<1>3. pc[e] \in {0, 1} /\ (e \notin TableKeys => pc[e] = 0)
  BY DEF TablesHold
<1>4. \A k \in {1, 2} : \A i \in SlotIds(n) : body[k][i] = e => e \in KeysOf(pc) /\ hashes[k][e] = i
  BY <1>1, <1>2 DEF Fit
<1>5. ASSUME e \in TableKeys, NEW k \in {1, 2} PROVE hashes[k][e] \in SlotIds(n)
  BY <1>1, <1>2, <1>5, SlotOfKey
<1>6. CASE pc[e] = 0
  <2>1. e \notin KeysOf(pc)
    BY <1>6 DEF KeysOf
  <2>2. P = {}
    <3> SUFFICES ASSUME NEW p \in P PROVE FALSE
      OBVIOUS
    <3>1. p[1] \in {1, 2} /\ p[2] \in SlotIds(n) /\ body[p[1]][p[2]] = e
      OBVIOUS
    <3> HIDE DEF P
    <3> QED
      BY <1>4, <2>1, <3>1
  <2>3. e \in TableKeys => ~TableHolds(body, e)
    BY <1>4, <1>5, <2>1 DEF TableHolds
  <2>4. Cardinality(P) = 0
    BY <2>2, FS_EmptySet
  <2> QED
    BY <1>2, <1>6, <2>3, <2>4
<1>7. CASE pc[e] = 1
  <2>1. e \in TableKeys /\ e \in KeysOf(pc)
    BY <1>3, <1>7 DEF KeysOf
  <2>2. (InPlace(body, hashes, 1, e) \/ InPlace(body, hashes, 2, e)) /\ ~(InPlace(body, hashes, 1, e) /\ InPlace(body, hashes, 2, e))
    BY <1>1, <1>2, <2>1 DEF Fit
  <2>3. PICK k \in {1, 2} : InPlace(body, hashes, k, e) /\ \A a \in {1, 2} : a # k => ~InPlace(body, hashes, a, e)
    BY <2>2
  <2> DEFINE i == hashes[k][e]
  <2>4. i \in SlotIds(n) /\ body[k][i] = e
    BY <1>5, <2>1, <2>3 DEF InPlace
  <2>5. P = {<<k, i>>}
    <3>1. <<k, i>> \in P
      BY <2>4
    <3>2. ASSUME NEW p \in P PROVE p = <<k, i>>
      <4>1. p = <<p[1], p[2]>> /\ p[1] \in {1, 2} /\ p[2] \in SlotIds(n) /\ body[p[1]][p[2]] = e
        BY <3>2
      <4>2. hashes[p[1]][e] = p[2]
        BY <1>4, <4>1
      <4>3. InPlace(body, hashes, p[1], e)
        BY <4>1, <4>2 DEF InPlace
      <4>4. p[1] = k
        BY <2>3, <4>1, <4>3
      <4> QED
        BY <4>1, <4>2, <4>4
    <3> HIDE DEF P, i
    <3> QED
      BY <3>1, <3>2
  <2>6. Cardinality(P) = 1
    BY <2>5, FS_Singleton
  <2>7. TableHolds(body, e)
    BY <2>3 DEF TableHolds, InPlace
  <2> QED
    BY <1>2, <1>7, <2>6, <2>7
<1> QED
  BY <1>3, <1>6, <1>7

(* put of a key that is not there, with a rebuild or without.                *)
LEMMA TablesPut ==
    ASSUME NEW pc \in [Elements -> Nat], TablesHold(body, hashes, pc), NEW e \in TableKeys, ~TableHolds(body, e),
           NEW t, NEW h,
           \/ Seat(body, hashes, e).homeless = NoKey /\ t = Seat(body, hashes, e).to /\ h = hashes
           \/ \E n \in TableSizes : h \in HashesTo(n) /\
                LET r == Seat(body, hashes, e)
                    all == SeatAll(r.to, TableSize, r.homeless, n, h)
                IN  all.homeless = NoKey /\ t = all.to
    PROVE  TablesHold(t, h, [pc EXCEPT ![e] = @ + 1])
<1> DEFINE qc == [pc EXCEPT ![e] = @ + 1]
           r == Seat(body, hashes, e)
<1>1. PICK m \in TableSizes : body \in TwoTables(m) /\ hashes \in HashesTo(m) /\ Fit(m, body, NoKey, hashes, KeysOf(pc))
  BY DEF TablesHold
<1>2. m \in Nat \ {0} /\ TableSize = m /\ e \in Elements
  BY <1>1, SizesRule, SizeOfTable, KeysRule DEF TableSize
<1>3. pc[e] = 0
  <2>1. pc[e] \in {0, 1}
    BY <1>2 DEF TablesHold
  <2>2. ~(pc[e] > 0)
    BY <1>2, TablesFind
  <2> QED
    BY <2>1, <2>2
<1>4. \A x \in Elements : qc[x] = IF x = e THEN 1 ELSE pc[x]
  BY <1>2, <1>3
<1> HIDE DEF qc
<1>5. KeysOf(qc) = KeysOf(pc) \cup {e} /\ e \notin KeysOf(pc) /\ KeysOf(pc) \subseteq TableKeys /\ KeysOf(qc) \subseteq TableKeys
  BY <1>3, <1>4, KeysRule DEF KeysOf
<1>6. \A x \in Elements : qc[x] \in {0, 1} /\ (x \notin TableKeys => qc[x] = 0)
  BY <1>4 DEF TablesHold
<1>7. Fit(m, body, e, hashes, KeysOf(qc))
  BY <1>1, <1>2, <1>5, FitMore
<1>8. r \in SeatStates(m) /\ Fit(m, r.to, r.homeless, hashes, KeysOf(qc))
  BY <1>1, <1>2, <1>5, <1>7, SeatGood
<1> HIDE DEF r
<1>9. r.to \in TwoTables(m) /\ r.homeless \in TableKeys \cup {NoKey}
  BY <1>8 DEF SeatStates
<1>10. CASE r.homeless = NoKey /\ t = r.to /\ h = hashes
  BY <1>1, <1>6, <1>8, <1>9, <1>10 DEF TablesHold, qc
<1>11. ASSUME NEW n \in TableSizes, h \in HashesTo(n), SeatAll(r.to, TableSize, r.homeless, n, h).homeless = NoKey,
              t = SeatAll(r.to, TableSize, r.homeless, n, h).to
       PROVE  TablesHold(t, h, qc)
  <2>1. n \in Nat \ {0}
    BY SizesRule
  <2>2. t \in TwoTables(n) /\ Fit(n, t, NoKey, h, KeysOf(qc))
    BY <1>1, <1>2, <1>5, <1>8, <1>9, <1>11, <2>1, SeatAllGood
  <2> QED
    BY <1>6, <1>11, <2>2 DEF TablesHold
<1> QED
  BY <1>10, <1>11 DEF r, qc

Deleted(e) ==
    LET k == IF body[1][hashes[1][e]] = e THEN 1 ELSE 2 IN [body EXCEPT ![k][hashes[k][e]] = NoKey]

(* delete of a key that is there.                                            *)
LEMMA TablesDelete ==
    ASSUME NEW pc \in [Elements -> Nat], TablesHold(body, hashes, pc), NEW e \in TableKeys, TableHolds(body, e)
    PROVE  TablesHold(Deleted(e), hashes, [pc EXCEPT ![e] = @ - 1])
<1> DEFINE qc == [pc EXCEPT ![e] = @ - 1]
           k == IF body[1][hashes[1][e]] = e THEN 1 ELSE 2
           i == hashes[k][e]
           K == KeysOf(pc)
           t == Deleted(e)
<1>1. PICK n \in TableSizes : body \in TwoTables(n) /\ hashes \in HashesTo(n) /\ Fit(n, body, NoKey, hashes, K)
  BY DEF TablesHold
<1>2. n \in Nat \ {0} /\ e \in Elements /\ NoKey \notin K /\ K \subseteq TableKeys
  BY <1>1, SizesRule, KeysRule DEF KeysOf
<1>3. pc[e] = 1
  BY <1>2, TablesFind
<1>4. \A x \in Elements : qc[x] = IF x = e THEN 0 ELSE pc[x]
  BY <1>2, <1>3
<1> HIDE DEF qc
<1>5. KeysOf(qc) = K \ {e} /\ e \in K
  BY <1>3, <1>4, KeysRule DEF KeysOf
<1>6. \A x \in Elements : qc[x] \in {0, 1} /\ (x \notin TableKeys => qc[x] = 0)
  BY <1>4 DEF TablesHold
<1>7. k \in {1, 2} /\ InPlace(body, hashes, k, e) /\ t = [body EXCEPT ![k][i] = NoKey]
  BY DEF TableHolds, InPlace, Deleted
<1>8. \A a \in {1, 2} : \A x \in K : hashes[a][x] \in SlotIds(n)
  BY <1>1, <1>2, SlotOfKey
<1> HIDE DEF k, K, t
<1>9. i \in SlotIds(n)
  BY <1>5, <1>7, <1>8
<1> HIDE DEF i
<1>10. t \in TwoTables(n) /\ t[k][i] = NoKey /\ \A a \in {1, 2} : \A b \in SlotIds(n) : a # k \/ b # i => t[a][b] = body[a][b]
  <2> DEFINE w == [body[k] EXCEPT ![i] = NoKey]
  <2>1. body[k] \in [SlotIds(n) -> TableKeys \cup {NoKey}]
    BY <1>1, <1>7 DEF TwoTables
  <2>2. w \in [SlotIds(n) -> TableKeys \cup {NoKey}] /\ w[i] = NoKey /\ \A b \in SlotIds(n) : b # i => w[b] = body[k][b]
    BY <1>9, <2>1
  <2>3. t = [body EXCEPT ![k] = w]
    BY <1>1, <1>7 DEF TwoTables
  <2> HIDE DEF w
  <2>4. t \in TwoTables(n) /\ t[k] = w /\ \A a \in {1, 2} : a # k => t[a] = body[a]
    <3>1. body \in TwoTables(n) /\ k \in {1, 2}
      BY <1>1, <1>7
    <3> QED
      BY <2>2, <2>3, <3>1 DEF TwoTables
  <2> QED
    BY <2>2, <2>4
<1>11. ~InPlace(t, hashes, 1, e) /\ ~InPlace(t, hashes, 2, e)
  <2>1. ~InPlace(t, hashes, k, e)
    BY <1>2, <1>5, <1>10 DEF InPlace, i
  <2>2. ASSUME NEW a \in {1, 2}, a # k PROVE ~InPlace(t, hashes, a, e)
    <3>1. ~InPlace(body, hashes, a, e)
      BY <1>1, <1>5, <1>7, <2>2 DEF Fit
    <3> QED
      BY <1>5, <1>8, <1>10, <2>2, <3>1 DEF InPlace
  <2> QED
    BY <1>7, <2>1, <2>2
<1>12. ASSUME NEW x \in K, x # e, NEW a \in {1, 2} PROVE InPlace(t, hashes, a, x) <=> InPlace(body, hashes, a, x)
  <2>1. CASE a = k /\ hashes[a][x] = i
    <3>1. body[a][hashes[a][x]] = e /\ t[a][hashes[a][x]] = NoKey
      BY <1>7, <1>10, <2>1 DEF InPlace, i
    <3> QED
      BY <1>2, <1>12, <3>1 DEF InPlace
  <2>2. CASE a # k \/ hashes[a][x] # i
    BY <1>8, <1>10, <2>2 DEF InPlace
  <2> QED
    BY <2>1, <2>2
<1>13. ASSUME NEW a \in {1, 2}, NEW b \in SlotIds(n), t[a][b] # NoKey PROVE t[a][b] \in K \ {e} /\ hashes[a][t[a][b]] = b
  <2>1. t[a][b] = body[a][b]
    BY <1>10, <1>13
  <2>2. t[a][b] \in K /\ hashes[a][t[a][b]] = b
    BY <1>1, <1>13, <2>1 DEF Fit
  <2>3. t[a][b] # e
    BY <1>11, <2>2 DEF InPlace
  <2> QED
    BY <2>2, <2>3
<1>14. Fit(n, t, NoKey, hashes, K \ {e})
  <2>1. ASSUME NEW x \in K \ {e}
        PROVE  /\ InPlace(t, hashes, 1, x) \/ InPlace(t, hashes, 2, x)
               /\ ~(InPlace(t, hashes, 1, x) /\ InPlace(t, hashes, 2, x))
               /\ NoKey # x
    BY <1>1, <1>2, <1>12 DEF Fit
  <2> QED
    BY <1>13, <2>1 DEF Fit
<1> QED
  BY <1>1, <1>5, <1>6, <1>10, <1>14 DEF TablesHold, qc, t

(* Empty tables.                                                             *)
LEMMA TablesInit ==
    ASSUME NEW pc \in [Elements -> Nat], \A e \in Elements : pc[e] = 0, NEW h \in HashesTo(Min(TableSizes))
    PROVE  TablesHold(EmptyTable(Min(TableSizes)), h, pc)
<1> DEFINE n == Min(TableSizes)
<1>1. n \in TableSizes /\ n \in Nat \ {0}
  BY SizesRule
<1> HIDE DEF n
<1>2. EmptyTable(n) \in TwoTables(n)
  <2> DEFINE s == [i \in 0..(n - 1) |-> NoKey]
  <2>1. s \in [SlotIds(n) -> TableKeys \cup {NoKey}]
    BY DEF SlotIds
  <2>2. EmptyTable(n) = <<s, s>>
    BY DEF EmptyTable
  <2> HIDE DEF s
  <2> QED
    BY <2>1, <2>2 DEF TwoTables
<1>3. \A k \in {1, 2} : \A i \in SlotIds(n) : EmptyTable(n)[k][i] = NoKey
  <2> DEFINE s == [i \in 0..(n - 1) |-> NoKey]
  <2>1. \A i \in SlotIds(n) : s[i] = NoKey
    BY DEF SlotIds
  <2>2. EmptyTable(n) = <<s, s>>
    BY DEF EmptyTable
  <2> HIDE DEF s
  <2> QED
    BY <2>1, <2>2
<1>4. KeysOf(pc) = {}
  BY KeysRule DEF KeysOf
<1>5. Fit(n, EmptyTable(n), NoKey, h, KeysOf(pc))
  BY <1>3, <1>4 DEF Fit
<1> QED
  BY <1>1, <1>2, <1>5 DEF TablesHold, n

-----------------------------------------------------------------------------
(* The invariant: whichever it is, what was put has a place in it.           *)

(* Whichever of them it is, it holds what was put and not taken out.         *)
HashInv ==
    /\ hashKind \in HashKinds /\ putCount \in [Elements -> Nat]
    /\ hashKind = "counting" => CountersHold(body, putCount)
    /\ hashKind \in {"cuckoo", "vacuum"} => BucketsHold(body, putCount)
    /\ hashKind = "table" => TablesHold(body, hashes, putCount)

(* Every one starts empty.                                                   *)
LEMMA HashInitHolds == HashInit => HashInv
<1> SUFFICES ASSUME HashInit PROVE HashInv
  OBVIOUS
<1>1. hashKind \in HashKinds /\ putCount \in [Elements -> Nat] /\ \A e \in Elements : putCount[e] = 0
  BY DEF HashInit
<1>2. ASSUME hashKind = "counting" PROVE CountersHold(body, putCount)
  <2>1. body = [i \in Counters |-> 0]
    BY <1>2 DEF HashInit, Counters
  <2> QED
    BY <1>1, <2>1, CountersInit
<1>3. ASSUME hashKind \in {"cuckoo", "vacuum"} PROVE BucketsHold(body, putCount)
  <2>1. body = [i \in BucketIds |-> <<>>]
    BY <1>3 DEF HashInit, BucketIds
  <2> QED
    BY <1>1, <2>1, BucketsInit
<1>4. ASSUME hashKind = "table" PROVE TablesHold(body, hashes, putCount)
  <2>1. body = EmptyTable(Min(TableSizes)) /\ hashes \in HashesTo(Min(TableSizes))
    BY <1>4 DEF HashInit
  <2> QED
    BY <1>1, <2>1, TablesInit
<1> QED
  BY <1>1, <1>2, <1>3, <1>4 DEF HashInv

(* A bucket's place depends on which filter it is, and that stays.           *)
LEMMA SameFilter ==
    ASSUME hashKind' = hashKind, BucketsHold(body', putCount')
    PROVE  BucketsHold(body, putCount)'
<1>1. BucketIds' = BucketIds
  BY DEF BucketIds
<1>2. \A e \in Elements : TwoHomes(e)' = TwoHomes(e)
  BY DEF TwoHomes, Homes, AltIndex
<1>3. CopiesOf(putCount)' = CopiesOf(putCount')
  BY DEF CopiesOf
<1>4. PICK o : Owned(body', o) /\ \A c \in CopiesOf(putCount') : Covered(body', o, c)
  BY DEF BucketsHold, Carries
<1>5. Owned(body, o)'
  BY <1>1, <1>2, <1>4 DEF Owned
<1>6. \A c \in CopiesOf(putCount)' : Covered(body, o, c)'
  BY <1>1, <1>3, <1>4 DEF Covered
<1> QED
  BY <1>5, <1>6 DEF BucketsHold, Carries

(* Each step keeps the invariant: InsertHashed,                              *)
LEMMA HashInsertHolds ==
    ASSUME HashInv, NEW e \in Elements, InsertHashed(e)
    PROVE  HashInv'
<1>1. hashKind' = hashKind /\ hashKind \in HashKinds /\ putCount \in [Elements -> Nat]
  BY DEF InsertHashed, HashInv
<1>2. ASSUME NEW b \in BOOLEAN, Counted(e, b)
      PROVE  /\ putCount' \in [Elements -> Nat]
             /\ b => putCount' = [putCount EXCEPT ![e] = @ + 1]
             /\ ~b => putCount' = putCount
  <2>1. putCount' = [putCount EXCEPT ![e] = @ + (IF b THEN 1 ELSE 0)]
    BY <1>2 DEF Counted
  <2>2. CASE b
    BY <1>1, <2>1, <2>2
  <2>3. CASE ~b
    BY <1>1, <2>1, <2>3
  <2> QED
    BY <2>2, <2>3
<1>3. CASE hashKind = "quotient"
  <2>1. putCount' \in [Elements -> Nat]
    <3>1. PICK ok : putCount' = [putCount EXCEPT ![e] = @ + (IF ok THEN 1 ELSE 0)]
      BY <1>3 DEF InsertHashed, Counted
    <3> QED
      BY <1>1, <3>1
  <2> QED
    BY <1>1, <1>3, <2>1 DEF HashInv
<1>4. CASE hashKind \in {"cuckoo", "vacuum"}
  <2> DEFINE r == BucketInsert(body, e)
  <2>1. body' = r.to /\ Counted(e, r.ok)
    BY <1>4 DEF InsertHashed
  <2>2. Bucketed /\ BucketsHold(body, putCount)
    BY <1>1, <1>4 DEF Bucketed, HashInv
  <2>3. r.ok \in BOOLEAN /\ (r.ok => BucketsHold(r.to, [putCount EXCEPT ![e] = @ + 1]))
        /\ (~r.ok => BucketsHold(r.to, putCount))
    BY <1>1, <2>2, BucketInsertHolds
  <2> HIDE DEF r
  <2>4. putCount' \in [Elements -> Nat] /\ BucketsHold(body', putCount')
    BY <1>2, <2>1, <2>3
  <2> QED
    BY <1>1, <1>4, <2>4, SameFilter DEF HashInv
<1>5. CASE hashKind = "counting"
  <2>1. body' = BloomAdd(body, e) /\ Counted(e, TRUE)
    BY <1>5 DEF InsertHashed
  <2>2. putCount' \in [Elements -> Nat] /\ putCount' = [putCount EXCEPT ![e] = @ + 1]
    BY <1>2, <2>1
  <2>3. CountersHold(body', putCount')
    BY <1>1, <1>5, <2>1, <2>2, BloomAddHolds DEF HashInv
  <2> QED
    BY <1>1, <1>5, <2>2, <2>3 DEF HashInv
<1> QED
  BY <1>3, <1>4, <1>5 DEF InsertHashed

(* PutKey,                                                                   *)
LEMMA HashPutHolds ==
    ASSUME HashInv, NEW e \in Elements, PutKey(e)
    PROVE  HashInv'
<1>1. /\ hashKind' = hashKind /\ hashKind = "table" /\ hashKind \in HashKinds /\ putCount \in [Elements -> Nat]
      /\ TablesHold(body, hashes, putCount) /\ e \in TableKeys /\ ~TableHolds(body, e)
  BY DEF PutKey, HashInv
<1>2. putCount' = [putCount EXCEPT ![e] = @ + 1] /\ putCount' \in [Elements -> Nat]
  <2>1. putCount' = [putCount EXCEPT ![e] = @ + 1]
    BY DEF PutKey, Counted
  <2> QED
    BY <1>1, <2>1
<1>3. \/ Seat(body, hashes, e).homeless = NoKey /\ body' = Seat(body, hashes, e).to /\ hashes' = hashes
      \/ \E n \in TableSizes : hashes' \in HashesTo(n) /\
           LET r == Seat(body, hashes, e)
               all == SeatAll(r.to, TableSize, r.homeless, n, hashes')
           IN  all.homeless = NoKey /\ body' = all.to
  BY DEF PutKey
<1>4. TablesHold(body', hashes', putCount')
  BY <1>1, <1>2, <1>3, TablesPut
<1> QED
  BY <1>1, <1>2, <1>4 DEF HashInv

(* DeleteHashed,                                                             *)
LEMMA HashDeleteHolds ==
    ASSUME HashInv, NEW e \in Elements, DeleteHashed(e)
    PROVE  HashInv'
<1>1. /\ hashKind' = hashKind /\ hashes' = hashes /\ hashKind \in HashKinds /\ putCount \in [Elements -> Nat]
      /\ putCount[e] > 0 /\ putCount' = [putCount EXCEPT ![e] = @ - 1]
  BY DEF DeleteHashed, HashInv
<1>2. putCount' \in [Elements -> Nat]
  BY <1>1
<1>3. CASE hashKind = "quotient"
  BY <1>1, <1>2, <1>3 DEF HashInv
<1>4. CASE hashKind \in {"cuckoo", "vacuum"}
  <2>1. BucketHolds(body, e) /\ body' = BucketDelete(body, e)
    BY <1>4 DEF DeleteHashed
  <2>2. Bucketed /\ BucketsHold(body, putCount)
    BY <1>1, <1>4 DEF Bucketed, HashInv
  <2>3. BucketsHold(body', putCount')
    BY <1>1, <2>1, <2>2, BucketDeleteHolds
  <2> QED
    BY <1>1, <1>2, <1>4, <2>3, SameFilter DEF HashInv
<1>5. CASE hashKind = "counting"
  <2>1. body' = BloomRemove(body, e)
    BY <1>5 DEF DeleteHashed
  <2>2. CountersHold(body', putCount')
    BY <1>1, <1>5, <2>1, BloomRemoveHolds DEF HashInv
  <2> QED
    BY <1>1, <1>2, <1>5, <2>2 DEF HashInv
<1>6. CASE hashKind = "table"
  <2>1. e \in TableKeys /\ TableHolds(body, e) /\ body' = Deleted(e)
    BY <1>6 DEF DeleteHashed, Deleted
  <2>2. TablesHold(body, hashes, putCount)
    BY <1>6 DEF HashInv
  <2>3. TablesHold(body', hashes', putCount')
    BY <1>1, <2>1, <2>2, TablesDelete
  <2> QED
    BY <1>1, <1>2, <1>6, <2>3 DEF HashInv
<1> QED
  BY <1>3, <1>4, <1>5, <1>6 DEF DeleteHashed

(* and a step that changes nothing.                                          *)
LEMMA HashStutter ==
    ASSUME HashInv, UNCHANGED hashVars
    PROVE  HashInv'
<1>1. hashKind' = hashKind /\ body' = body /\ hashes' = hashes /\ putCount' = putCount
  BY DEF hashVars
<1>2. hashKind \in {"cuckoo", "vacuum"} => BucketsHold(body', putCount')
  BY <1>1 DEF HashInv
<1> QED
  BY <1>1, <1>2, SameFilter DEF HashInv

(* What has a place is found.                                                *)
LEMMA HashInvKeeps == HashInv /\ hashKind # "quotient" => NothingForgotten
<1> SUFFICES ASSUME HashInv, hashKind # "quotient", NEW e \in Elements
             PROVE  /\ putCount[e] > 0 => Present(e)
                    /\ hashKind = "table" => Cardinality({p \in {1, 2} \X DOMAIN body[1] : body[p[1]][p[2]] = e}) = putCount[e]
  BY DEF NothingForgotten
<1>1. hashKind \in HashKinds /\ putCount \in [Elements -> Nat]
  BY DEF HashInv
<1>2. HashKinds \subseteq {"quotient", "cuckoo", "vacuum", "counting", "table"}
  BY HashAssumption
<1>3. CASE hashKind \in {"cuckoo", "vacuum"}
  <2>1. Bucketed /\ BucketsHold(body, putCount)
    BY <1>1, <1>3 DEF Bucketed, HashInv
  <2>2. putCount[e] > 0 => BucketHolds(body, e)
    BY <1>1, <2>1, BucketsFind
  <2> QED
    BY <1>3, <2>2 DEF Present
<1>4. CASE hashKind = "counting"
  <2>1. putCount[e] > 0 => BloomHolds(body, e)
    BY <1>1, <1>4, CountersKeep DEF HashInv
  <2> QED
    BY <1>4, <2>1 DEF Present
<1>5. CASE hashKind = "table"
  <2>1. /\ putCount[e] > 0 => TableHolds(body, e)
        /\ Cardinality({p \in {1, 2} \X DOMAIN body[1] : body[p[1]][p[2]] = e}) = putCount[e]
    BY <1>5, TablesFind DEF HashInv
  <2> QED
    BY <1>5, <2>1 DEF Present
<1> QED
  BY <1>1, <1>2, <1>3, <1>4, <1>5

(* What was put in is found until it is taken out, whatever was kicked,      *)
(* rolled back, rehashed or counted to the full meanwhile: in a cuckoo, a    *)
(* vacuum and a counting Bloom filter and in a cuckoo hash table.            *)
THEOREM HashesForgetNothing == HashSpec => [](hashKind # "quotient" => NothingForgotten)
<1>1. HashInit => HashInv
  BY HashInitHolds
<1>2. HashInv /\ [HashNext]_hashVars => HashInv'
  <2> SUFFICES ASSUME HashInv, [HashNext]_hashVars PROVE HashInv'
    OBVIOUS
  <2>1. ASSUME NEW e \in Elements, InsertHashed(e) PROVE HashInv'
    BY <2>1, HashInsertHolds
  <2>2. ASSUME NEW e \in Elements, PutKey(e) PROVE HashInv'
    BY <2>2, HashPutHolds
  <2>3. ASSUME NEW e \in Elements, DeleteHashed(e) PROVE HashInv'
    BY <2>3, HashDeleteHolds
  <2>4. ASSUME UNCHANGED hashVars PROVE HashInv'
    BY <2>4, HashStutter
  <2> QED
    BY <2>1, <2>2, <2>3, <2>4 DEF HashNext
<1>3. HashInv => (hashKind # "quotient" => NothingForgotten)
  BY HashInvKeeps
<1> QED
  BY <1>1, <1>2, <1>3, PTL DEF HashSpec
=============================================================================
