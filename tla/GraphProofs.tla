----------------------------- MODULE GraphProofs -----------------------------
(* The DependencyGraph object, for any tasks and any number of calls: its    *)
(* edges stay acyclic, its two maps agree, and topological_order, which      *)
(* visits one node per step, lists every node after its parents.             *)
EXTENDS DependencyGraph, FiniteSetTheorems, SequenceTheorems,
        WellFoundedInduction, NaturalsInduction, TLAPS

(***************************************************************************)
(* Induction over a range of numbers, for a set of them.                     *)
(***************************************************************************)
LEMMA RangeReached ==
    ASSUME NEW a \in Nat, NEW b \in Nat, NEW T, a \in T, \A n \in a..(b - 1) : n \in T => n + 1 \in T
    PROVE  \A n \in a..b : n \in T
<1> DEFINE Bad == {n \in a..b : n \notin T}
<1> SUFFICES ASSUME Bad # {} PROVE FALSE
  OBVIOUS
<1> DEFINE R == OpToRel(<, Nat)
<1>1. IsWellFoundedOn(R, Nat)
  BY NatLessThanWellFounded
<1>2. \A k, m \in Nat : k < m => <<k, m>> \in R
  BY DEF OpToRel
<1>3. Bad \subseteq Nat
  OBVIOUS
<1> HIDE DEF R, Bad
<1>4. PICK m \in Bad : \A k \in Bad : <<k, m>> \notin R
  BY <1>1, <1>3, WFMin
<1>5. m \in a..b /\ m \notin T /\ m # a
  BY <1>4 DEF Bad
<1>6. m - 1 \in a..(b - 1) /\ m - 1 \in a..b /\ (m - 1) + 1 = m
  BY <1>5
<1>7. m - 1 \notin Bad
  <2>1. m \in Nat /\ m - 1 \in Nat /\ m - 1 < m
    BY <1>5, <1>6
  <2> QED
    BY <1>2, <1>4, <2>1
<1>8. m - 1 \in T
  BY <1>6, <1>7 DEF Bad
<1> QED
  BY <1>5, <1>6, <1>8

-----------------------------------------------------------------------------
(* What Reach computes: the smallest set that holds the node and follows     *)
(* every edge. As many rounds as there are edges are enough: a round that is *)
(* not the last adds a node, and every node but the first is the head of an  *)
(* edge.                                                                     *)
Follows(E, C) == \A e \in E : e[1] \in C => e[2] \in C

ReachBy(E, n, g, k) == IF k = 0 THEN {n} ELSE g[k - 1] \cup ChildrenOf(E, g[k - 1])

LEMMA ReachExists ==
    ASSUME NEW E, NEW n, NEW N \in Nat
    PROVE  \E g : g = [k \in 0..N |-> ReachBy(E, n, g, k)]
<1> DEFINE T == {m \in Nat : \E g : g = [k \in 0..m |-> ReachBy(E, n, g, k)]}
<1>1. 0 \in T
  <2> DEFINE g == [k \in 0..0 |-> {n}]
  <2>1. g = [k \in 0..0 |-> ReachBy(E, n, g, k)]
    BY DEF ReachBy
  <2> HIDE DEF g
  <2> QED
    BY <2>1
<1>2. ASSUME NEW m \in 0..(N - 1), m \in T PROVE m + 1 \in T
  <2>1. PICK f : f = [k \in 0..m |-> ReachBy(E, n, f, k)]
    BY <1>2
  <2> DEFINE g == [k \in 0..(m + 1) |-> ReachBy(E, n, f, k)]
  <2>2. \A k \in 0..(m + 1) : g[k] = ReachBy(E, n, f, k)
    OBVIOUS
  <2>3. \A k \in 0..m : f[k] = ReachBy(E, n, f, k)
    BY <2>1
  <2>4. \A k \in 0..(m + 1) : ReachBy(E, n, g, k) = ReachBy(E, n, f, k)
    <3> TAKE k \in 0..(m + 1)
    <3>1. CASE k = 0
      BY <3>1 DEF ReachBy
    <3>2. CASE k # 0
      <4>1. k - 1 \in 0..m /\ k - 1 \in 0..(m + 1)
        BY <3>2
      <4>2. g[k - 1] = f[k - 1]
        BY <2>2, <2>3, <4>1
      <4> HIDE DEF g
      <4> QED
        BY <4>2 DEF ReachBy
    <3> QED
      BY <3>1, <3>2
  <2>5. g = [k \in 0..(m + 1) |-> ReachBy(E, n, g, k)]
    BY <2>4
  <2> HIDE DEF g
  <2> QED
    BY <2>5
<1> HIDE DEF T
<1>3. \A k \in 0..N : k \in T
  BY <1>1, <1>2, RangeReached
<1>4. N \in 0..N
  OBVIOUS
<1> QED
  BY <1>3, <1>4 DEF T

LEMMA ReachUnfolds ==
    ASSUME NEW E, NEW n, Cardinality(E) \in Nat
    PROVE  \E g : /\ \A k \in 0..Cardinality(E) : g[k] = ReachBy(E, n, g, k)
                  /\ Reach(E, n) = g[Cardinality(E)]
<1> DEFINE F(g) == [k \in 0..Cardinality(E) |->
                      IF k = 0 THEN {n} ELSE g[k - 1] \cup ChildrenOf(E, g[k - 1])]
           G == CHOOSE g : g = F(g)
<1>0. PICK h : h = [k \in 0..Cardinality(E) |-> ReachBy(E, n, h, k)]
  BY ReachExists
<1>1. h = F(h)
  BY <1>0 DEF ReachBy
<1>2. Reach(E, n) = G[Cardinality(E)]
  BY DEF Reach
<1> HIDE DEF F
<1>3. G = F(G)
  BY <1>1
<1> HIDE DEF G
<1>4. \A k \in 0..Cardinality(E) : G[k] = ReachBy(E, n, G, k)
  BY <1>3 DEF F, ReachBy
<1> QED
  BY <1>2, <1>4

LEMMA HeadsAreFew ==
    ASSUME NEW E, IsFiniteSet(E), NEW n
    PROVE  LET H == {n} \cup {e[2] : e \in E}
           IN  IsFiniteSet(H) /\ Cardinality(H) \in Nat /\ Cardinality(H) <= Cardinality(E) + 1
<1> DEFINE D == {e[2] : e \in E}
           f == [e \in E |-> e[2]]
<1>1. f \in Surjection(E, D)
  BY DEF Surjection
<1>2. IsFiniteSet(D) /\ Cardinality(D) <= Cardinality(E)
  BY <1>1, FS_Surjection
<1> HIDE DEF D, f
<1>3. IsFiniteSet(D \cup {n}) /\ Cardinality(D \cup {n}) = IF n \in D THEN Cardinality(D) ELSE Cardinality(D) + 1
  BY <1>2, FS_AddElement
<1>4. Cardinality(D) \in Nat /\ Cardinality(E) \in Nat
  BY <1>2, FS_CardinalityType
<1>5. {n} \cup D = D \cup {n}
  OBVIOUS
<1>6. /\ IsFiniteSet(D \cup {n}) /\ Cardinality(D \cup {n}) \in Nat
      /\ Cardinality(D \cup {n}) <= Cardinality(E) + 1
  BY <1>2, <1>3, <1>4
<1> QED
  BY <1>5, <1>6 DEF D

LEMMA ReachFollows ==
    ASSUME NEW E, IsFiniteSet(E), NEW n
    PROVE  n \in Reach(E, n) /\ Follows(E, Reach(E, n))
<1> DEFINE N == Cardinality(E)
           H == {n} \cup {e[2] : e \in E}
<1>1. N \in Nat
  BY FS_CardinalityType
<1>2. IsFiniteSet(H) /\ Cardinality(H) \in Nat /\ Cardinality(H) <= N + 1
  BY HeadsAreFew
<1>3. PICK g : (\A k \in 0..N : g[k] = ReachBy(E, n, g, k)) /\ Reach(E, n) = g[N]
  BY <1>1, ReachUnfolds
<1> DEFINE T == {k \in 0..N : n \in g[k] /\ g[k] \subseteq H /\ (Follows(E, g[k]) \/ Cardinality(g[k]) >= k + 1)}
<1>4. 0 \in T
  <2>0. 0 \in 0..N
    BY <1>1
  <2>1. g[0] = {n}
    BY <1>3, <2>0 DEF ReachBy
  <2>2. Cardinality({n}) = 1
    BY FS_Singleton
  <2> QED
    BY <2>0, <2>1, <2>2
<1>5. ASSUME NEW k \in 0..(N - 1), k \in T PROVE k + 1 \in T
  <2>1. k + 1 \in 0..N /\ k + 1 # 0 /\ (k + 1) - 1 = k /\ k \in Nat
    BY <1>1
  <2>2. g[k + 1] = g[k] \cup ChildrenOf(E, g[k])
    BY <1>3, <2>1 DEF ReachBy
  <2>3. n \in g[k + 1] /\ g[k + 1] \subseteq H
    BY <1>5, <2>2 DEF ChildrenOf
  <2>4. CASE Follows(E, g[k])
    <3>1. g[k + 1] = g[k]
      BY <2>2, <2>4 DEF Follows, ChildrenOf
    <3> QED
      BY <2>1, <2>3, <2>4, <3>1
  <2>5. CASE ~Follows(E, g[k])
    <3>1. PICK e \in E : e[1] \in g[k] /\ e[2] \notin g[k]
      BY <2>5 DEF Follows
    <3>2. e[2] \in g[k + 1] /\ g[k] \subseteq g[k + 1]
      BY <2>2, <3>1 DEF ChildrenOf
    <3>3. IsFiniteSet(g[k]) /\ IsFiniteSet(g[k + 1])
      BY <1>2, <1>5, <2>3, FS_Subset
    <3>4. Cardinality(g[k] \cup {e[2]}) = Cardinality(g[k]) + 1
      BY <3>1, <3>3, FS_AddElement
    <3>5. Cardinality(g[k] \cup {e[2]}) <= Cardinality(g[k + 1])
      <4>1. g[k] \cup {e[2]} \in SUBSET g[k + 1]
        BY <3>2
      <4> QED
        BY <3>3, <4>1, FS_Subset
    <3>6. Cardinality(g[k]) \in Nat /\ Cardinality(g[k + 1]) \in Nat /\ Cardinality(g[k]) >= k + 1
      BY <1>5, <2>5, <3>3, FS_CardinalityType
    <3>7. Cardinality(g[k + 1]) >= (k + 1) + 1
      BY <2>1, <3>4, <3>5, <3>6
    <3> QED
      BY <2>1, <2>3, <3>7
  <2> QED
    BY <2>4, <2>5
<1> HIDE DEF T, H
<1>6. \A k \in 0..N : k \in T
  BY <1>1, <1>4, <1>5, RangeReached
<1>7. N \in T
  BY <1>1, <1>6
<1>8. Follows(E, g[N])
  <2> SUFFICES ASSUME ~Follows(E, g[N]) PROVE FALSE
    OBVIOUS
  <2>1. PICK e \in E : e[1] \in g[N] /\ e[2] \notin g[N]
    BY DEF Follows
  <2>2. g[N] \subseteq H /\ e[2] \in H /\ Cardinality(g[N]) >= N + 1
    BY <1>7, <2>1 DEF T, H
  <2>3. IsFiniteSet(g[N])
    BY <1>2, <2>2, FS_Subset
  <2>4. Cardinality(g[N] \cup {e[2]}) = Cardinality(g[N]) + 1
    BY <2>1, <2>3, FS_AddElement
  <2>5. Cardinality(g[N] \cup {e[2]}) <= Cardinality(H)
    <3>1. g[N] \cup {e[2]} \in SUBSET H
      BY <2>2
    <3> QED
      BY <1>2, <3>1, FS_Subset
  <2>6. Cardinality(g[N]) \in Nat
    BY <2>3, FS_CardinalityType
  <2> QED
    BY <1>1, <1>2, <2>2, <2>4, <2>5, <2>6
<1> QED
  BY <1>3, <1>7, <1>8 DEF T

LEMMA ReachLeast ==
    ASSUME NEW E, IsFiniteSet(E), NEW n, NEW C, n \in C, Follows(E, C)
    PROVE  Reach(E, n) \subseteq C
<1> DEFINE N == Cardinality(E)
<1>1. N \in Nat
  BY FS_CardinalityType
<1>2. PICK g : (\A k \in 0..N : g[k] = ReachBy(E, n, g, k)) /\ Reach(E, n) = g[N]
  BY <1>1, ReachUnfolds
<1> DEFINE T == {k \in 0..N : g[k] \subseteq C}
<1>3. 0 \in T
  <2>1. 0 \in 0..N
    BY <1>1
  <2>2. g[0] = {n}
    BY <1>2, <2>1 DEF ReachBy
  <2> QED
    BY <2>1, <2>2
<1>4. ASSUME NEW k \in 0..(N - 1), k \in T PROVE k + 1 \in T
  <2>1. k + 1 \in 0..N /\ k + 1 # 0 /\ (k + 1) - 1 = k
    BY <1>1
  <2>2. g[k + 1] = g[k] \cup ChildrenOf(E, g[k])
    BY <1>2, <2>1 DEF ReachBy
  <2>3. g[k + 1] \subseteq C
    BY <1>4, <2>2 DEF ChildrenOf, Follows
  <2> QED
    BY <2>1, <2>3
<1> HIDE DEF T
<1>5. \A k \in 0..N : k \in T
  BY <1>1, <1>3, <1>4, RangeReached
<1>6. N \in T
  BY <1>1, <1>5
<1> QED
  BY <1>2, <1>6 DEF T

-----------------------------------------------------------------------------
(* Graphs without a cycle.                                                   *)
NoCycle(E) == \A e \in E : e[1] \notin Reach(E, e[2])

LEMMA FewerEdges ==
    ASSUME NEW E, IsFiniteSet(E), NEW F \in SUBSET E, NoCycle(E)
    PROVE  IsFiniteSet(F) /\ NoCycle(F)
<1>1. IsFiniteSet(F)
  BY FS_Subset
<1>2. ASSUME NEW e \in F PROVE Reach(F, e[2]) \subseteq Reach(E, e[2])
  <2>1. e[2] \in Reach(E, e[2]) /\ Follows(F, Reach(E, e[2]))
    BY ReachFollows DEF Follows
  <2> QED
    BY <1>1, <2>1, ReachLeast
<1> QED
  BY <1>1, <1>2 DEF NoCycle

(* add_task looks whether the child reaches the parent already.              *)
LEMMA OneEdgeMore ==
    ASSUME NEW E, IsFiniteSet(E), NoCycle(E), NEW parent, NEW child, ~WouldCycle(E, parent, child)
    PROVE  IsFiniteSet(E \cup {<<parent, child>>}) /\ NoCycle(E \cup {<<parent, child>>})
<1> DEFINE F == E \cup {<<parent, child>>}
<1>1. IsFiniteSet(F)
  BY FS_AddElement
<1>2. parent \notin Reach(E, child)
  BY DEF WouldCycle
<1>3. \A n : n \in Reach(E, n) /\ Follows(E, Reach(E, n))
  BY ReachFollows
(* What the new edge adds is what its head reached before.                   *)
<1>4. ASSUME NEW n
      PROVE  Reach(F, n) \subseteq Reach(E, n) \cup (IF parent \in Reach(E, n) THEN Reach(E, child) ELSE {})
  <2> DEFINE C == Reach(E, n) \cup (IF parent \in Reach(E, n) THEN Reach(E, child) ELSE {})
  <2>1. n \in C
    BY <1>3
  <2>2. Follows(F, C)
    <3> SUFFICES ASSUME NEW e \in F, e[1] \in C PROVE e[2] \in C
      BY DEF Follows
    <3>1. CASE e \in E
      BY <1>3, <3>1 DEF Follows
    <3>2. CASE e = <<parent, child>>
      <4>1. e[1] = parent /\ e[2] = child
        BY <3>2
      <4> QED
        BY <1>2, <1>3, <4>1
    <3> QED
      BY <3>1, <3>2
  <2> HIDE DEF C, F
  <2>3. Reach(F, n) \subseteq C
    BY <1>1, <2>1, <2>2, ReachLeast
  <2> QED
    BY <2>3 DEF C
<1>5. ASSUME NEW e \in F PROVE e[1] \notin Reach(F, e[2])
  <2>1. CASE e \in E
    <3> SUFFICES ASSUME e[1] \in Reach(F, e[2]) PROVE FALSE
      OBVIOUS
    <3>1. e[1] \notin Reach(E, e[2])
      BY <2>1 DEF NoCycle
    <3>2. parent \in Reach(E, e[2]) /\ e[1] \in Reach(E, child)
      BY <1>4, <3>1
    <3>3. e[2] \in Reach(E, child)
      BY <1>3, <2>1, <3>2 DEF Follows
    <3>4. Reach(E, e[2]) \subseteq Reach(E, child)
      BY <1>3, <3>3, ReachLeast
    <3> QED
      BY <1>2, <3>2, <3>4
  <2>2. CASE e = <<parent, child>>
    <3>1. e[1] = parent /\ e[2] = child
      BY <2>2
    <3> QED
      BY <1>2, <1>4, <3>1
  <2> QED
    BY <2>1, <2>2
<1> QED
  BY <1>1, <1>5 DEF NoCycle

(* add_task, whatever it is asked and however far it comes: no cycle is      *)
(* closed, nothing is lost, and what is new leads to the task.               *)
Extends(E, t, F) ==
    /\ IsFiniteSet(F) /\ NoCycle(F) /\ E \subseteq F /\ \A e \in F \ E : \E p \in Tasks : e = <<p, t>>

AddBy(E, t, parents, g, k) ==
    IF k = 0 THEN [edges |-> E, ok |-> TRUE]
    ELSE IF ~g[k - 1].ok \/ WouldCycle(g[k - 1].edges, parents[k], t)
         THEN [g[k - 1] EXCEPT !.ok = FALSE]
         ELSE [edges |-> g[k - 1].edges \cup {<<parents[k], t>>}, ok |-> TRUE]

LEMMA AddExists ==
    ASSUME NEW E, NEW t, NEW parents, NEW N \in Nat
    PROVE  \E g : g = [k \in 0..N |-> AddBy(E, t, parents, g, k)]
<1> DEFINE T == {m \in Nat : \E g : g = [k \in 0..m |-> AddBy(E, t, parents, g, k)]}
<1>1. 0 \in T
  <2> DEFINE g == [k \in 0..0 |-> [edges |-> E, ok |-> TRUE]]
  <2>1. g = [k \in 0..0 |-> AddBy(E, t, parents, g, k)]
    BY DEF AddBy
  <2> HIDE DEF g
  <2> QED
    BY <2>1
<1>2. ASSUME NEW m \in 0..(N - 1), m \in T PROVE m + 1 \in T
  <2>1. PICK f : f = [k \in 0..m |-> AddBy(E, t, parents, f, k)]
    BY <1>2
  <2> DEFINE g == [k \in 0..(m + 1) |-> AddBy(E, t, parents, f, k)]
  <2>2. \A k \in 0..(m + 1) : g[k] = AddBy(E, t, parents, f, k)
    OBVIOUS
  <2>3. \A k \in 0..m : f[k] = AddBy(E, t, parents, f, k)
    BY <2>1
  <2>4. \A k \in 0..(m + 1) : AddBy(E, t, parents, g, k) = AddBy(E, t, parents, f, k)
    <3> TAKE k \in 0..(m + 1)
    <3>1. CASE k = 0
      BY <3>1 DEF AddBy
    <3>2. CASE k # 0
      <4>1. k - 1 \in 0..m /\ k - 1 \in 0..(m + 1)
        BY <3>2
      <4>2. g[k - 1] = f[k - 1]
        BY <2>2, <2>3, <4>1
      <4> HIDE DEF g
      <4> QED
        BY <4>2 DEF AddBy
    <3> QED
      BY <3>1, <3>2
  <2>5. g = [k \in 0..(m + 1) |-> AddBy(E, t, parents, g, k)]
    BY <2>4
  <2> HIDE DEF g
  <2> QED
    BY <2>5
<1> HIDE DEF T
<1>3. \A k \in 0..N : k \in T
  BY <1>1, <1>2, RangeReached
<1>4. N \in 0..N
  OBVIOUS
<1> QED
  BY <1>3, <1>4 DEF T

LEMMA AddUnfolds ==
    ASSUME NEW E, NEW t, NEW parents, Len(parents) \in Nat
    PROVE  \E g : /\ \A k \in 0..Len(parents) : g[k] = AddBy(E, t, parents, g, k)
                  /\ AddTask(E, t, parents) = g[Len(parents)]
<1> DEFINE F(g) == [k \in 0..Len(parents) |->
                      IF k = 0 THEN [edges |-> E, ok |-> TRUE]
                      ELSE LET prev == g[k - 1] IN
                           IF ~prev.ok \/ WouldCycle(prev.edges, parents[k], t)
                           THEN [prev EXCEPT !.ok = FALSE]
                           ELSE [edges |-> prev.edges \cup {<<parents[k], t>>}, ok |-> TRUE]]
           G == CHOOSE g : g = F(g)
<1>0. PICK h : h = [k \in 0..Len(parents) |-> AddBy(E, t, parents, h, k)]
  BY AddExists
<1>1. h = F(h)
  BY <1>0 DEF AddBy
<1>2. AddTask(E, t, parents) = G[Len(parents)]
  BY DEF AddTask
<1> HIDE DEF F
<1>3. G = F(G)
  BY <1>1
<1> HIDE DEF G
<1>4. \A k \in 0..Len(parents) : G[k] = AddBy(E, t, parents, G, k)
  BY <1>3 DEF F, AddBy
<1> QED
  BY <1>2, <1>4

LEMMA AddTaskExtends ==
    ASSUME NEW E, IsFiniteSet(E), NoCycle(E), NEW t, NEW parents \in Seq(Tasks)
    PROVE  Extends(E, t, AddTask(E, t, parents).edges)
<1> DEFINE N == Len(parents)
<1>1. N \in Nat /\ \A k \in 1..N : parents[k] \in Tasks
  BY LenProperties, ElementOfSeq
<1>2. PICK g : (\A k \in 0..N : g[k] = AddBy(E, t, parents, g, k)) /\ AddTask(E, t, parents) = g[N]
  BY <1>1, AddUnfolds
<1> DEFINE D == E \cup (Tasks \X {t})
           T == {k \in 0..N : \E F \in SUBSET D : \E good \in BOOLEAN :
                           g[k] = [edges |-> F, ok |-> good] /\ Extends(E, t, F)}
<1>3. 0 \in T
  <2>1. 0 \in 0..N
    BY <1>1
  <2>2. g[0] = [edges |-> E, ok |-> TRUE]
    BY <1>2, <2>1 DEF AddBy
  <2>3. Extends(E, t, E)
    BY DEF Extends
  <2> QED
    BY <2>1, <2>2, <2>3
<1>4. ASSUME NEW k \in 0..(N - 1), k \in T PROVE k + 1 \in T
  <2>1. k + 1 \in 0..N /\ k + 1 \in 1..N /\ k + 1 # 0 /\ (k + 1) - 1 = k
    BY <1>1
  <2>2. PICK F \in SUBSET D, good \in BOOLEAN : g[k] = [edges |-> F, ok |-> good] /\ Extends(E, t, F)
    BY <1>4
  <2>3. g[k].edges = F /\ [g[k] EXCEPT !.ok = FALSE] = [edges |-> F, ok |-> FALSE]
    <3>1. [edges |-> F, ok |-> good].edges = F
      OBVIOUS
    <3>2. [[edges |-> F, ok |-> good] EXCEPT !.ok = FALSE] = [edges |-> F, ok |-> FALSE]
      <4> DEFINE r == [edges |-> F, ok |-> good]
      <4>1. r \in [edges : SUBSET D, ok : BOOLEAN] /\ r.edges = F
        OBVIOUS
      <4> HIDE DEF r, D
      <4>2. [r EXCEPT !.ok = FALSE] \in [edges : SUBSET D, ok : BOOLEAN]
            /\ [r EXCEPT !.ok = FALSE].edges = F /\ [r EXCEPT !.ok = FALSE].ok = FALSE
        BY <4>1
      <4>3. \A y \in [edges : SUBSET D, ok : BOOLEAN] :
              y.edges = F /\ y.ok = FALSE => y = [edges |-> F, ok |-> FALSE]
        OBVIOUS
      <4>4. [r EXCEPT !.ok = FALSE] = [edges |-> F, ok |-> FALSE]
        BY <4>2, <4>3
      <4> QED
        BY <4>4 DEF r
    <3> QED
      BY <2>2, <3>1, <3>2
  <2>4. g[k + 1] = AddBy(E, t, parents, g, k + 1)
    BY <1>2, <2>1
  <2>5. CASE g[k + 1] = [edges |-> F, ok |-> FALSE]
    BY <2>1, <2>2, <2>5
  <2>6. CASE /\ ~WouldCycle(F, parents[k + 1], t)
             /\ g[k + 1] = [edges |-> F \cup {<<parents[k + 1], t>>}, ok |-> TRUE]
    <3>1. Extends(E, t, F \cup {<<parents[k + 1], t>>})
      <4>1. /\ IsFiniteSet(F \cup {<<parents[k + 1], t>>}) /\ NoCycle(F \cup {<<parents[k + 1], t>>})
        BY <2>2, <2>6, OneEdgeMore DEF Extends
      <4>2. parents[k + 1] \in Tasks
        BY <1>1, <2>1
      <4> QED
        BY <2>2, <4>1, <4>2 DEF Extends
    <3>2. F \cup {<<parents[k + 1], t>>} \in SUBSET D
      BY <1>1, <2>1
    <3> QED
      BY <2>1, <2>6, <3>1, <3>2
  <2>7. \/ g[k + 1] = [edges |-> F, ok |-> FALSE]
        \/ /\ ~WouldCycle(F, parents[k + 1], t)
           /\ g[k + 1] = [edges |-> F \cup {<<parents[k + 1], t>>}, ok |-> TRUE]
    BY <2>1, <2>3, <2>4 DEF AddBy
  <2> QED
    BY <2>5, <2>6, <2>7
<1> HIDE DEF T
<1>5. \A k \in 0..N : k \in T
  BY <1>1, <1>3, <1>4, RangeReached
<1>6. N \in T
  BY <1>1, <1>5
<1>7. PICK F \in SUBSET D, good \in BOOLEAN : g[N] = [edges |-> F, ok |-> good] /\ Extends(E, t, F)
  BY <1>6 DEF T
<1>8. [edges |-> F, ok |-> good].edges = F
  OBVIOUS
<1> QED
  BY <1>2, <1>7, <1>8

-----------------------------------------------------------------------------
(* Sequences of distinct elements.                                           *)
Distinct(q) == \A i, j \in 1..Len(q) : q[i] = q[j] => i = j
In(x, q) == \E i \in 1..Len(q) : q[i] = x

LEMMA ListedOnce ==
    ASSUME NEW S, IsFiniteSet(S), NEW q \in SetToSeqs(S)
    PROVE  q \in Seq(S) /\ Distinct(q) /\ \A x : In(x, q) <=> x \in S
<1> DEFINE n == Cardinality(S)
<1>1. n \in Nat
  BY FS_CardinalityType
<1>2. q \in [1..n -> S] /\ \A i, j \in 1..n : i # j => q[i] # q[j]
  BY DEF SetToSeqs
<1> HIDE DEF n
<1>3. q \in Seq(S) /\ Len(q) = n
  BY <1>1, <1>2, SeqDef
<1>4. q \in Injection(1..n, S)
  BY <1>2 DEF Injection, IsInjective
<1>5. Cardinality(1..n) = n /\ Cardinality(S) = n
  BY <1>1, FS_Interval DEF n
<1>6. q \in Surjection(1..n, S)
  BY <1>4, <1>5, FS_Injection
<1>7. \A x \in S : \E i \in 1..n : q[i] = x
  BY <1>6 DEF Surjection
<1> QED
  BY <1>2, <1>3, <1>7 DEF Distinct, In

(* As many as there are: all of them.                                        *)
LEMMA AllListed ==
    ASSUME NEW S, IsFiniteSet(S), NEW q \in Seq(S), Distinct(q), Len(q) = Cardinality(S)
    PROVE  ToSet(q) = S
<1> DEFINE n == Len(q)
<1>1. n \in Nat /\ q \in [1..n -> S]
  BY LenProperties
<1> HIDE DEF n
<1>2. q \in Injection(1..n, S)
  BY <1>1 DEF Distinct, Injection, IsInjective, n
<1>3. Cardinality(1..n) = n /\ Cardinality(S) = n
  BY <1>1, FS_Interval DEF n
<1>4. q \in Surjection(1..n, S)
  BY <1>2, <1>3, FS_Injection
<1>5. ToSet(q) = {q[i] : i \in 1..n}
  BY <1>1 DEF ToSet, n
<1> QED
  BY <1>1, <1>4, <1>5 DEF Surjection

-----------------------------------------------------------------------------
(* The graph between two calls.                                              *)
GraphShape ==
    /\ edges \in SUBSET (Tasks \X Tasks) /\ reverse \in SUBSET (Tasks \X Tasks) /\ keys \in SUBSET Tasks
    /\ IsFiniteSet(edges) /\ IsFiniteSet(reverse) /\ IsFiniteSet(keys)
    /\ NoCycle(edges) /\ edges \subseteq reverse
    /\ sort.pc \in {"idle", "loop", "returned", "raised"}

LEMMA NodesFinite ==
    ASSUME GraphShape
    PROVE  /\ IsFiniteSet(Nodes) /\ Nodes \subseteq Tasks
           /\ \A t : IsFiniteSet(Parents(t)) /\ Parents(t) \subseteq Tasks
           /\ \A p, t : <<p, t>> \in edges => t \in Nodes /\ p \in Parents(t)
<1>1. \A E : IsFiniteSet(E) => IsFiniteSet({e[2] : e \in E}) /\ IsFiniteSet({e[1] : e \in E})
  <2> SUFFICES ASSUME NEW E, IsFiniteSet(E)
               PROVE  IsFiniteSet({e[2] : e \in E}) /\ IsFiniteSet({e[1] : e \in E})
    OBVIOUS
  <2>1. [e \in E |-> e[2]] \in Surjection(E, {e[2] : e \in E})
    BY DEF Surjection
  <2>2. [e \in E |-> e[1]] \in Surjection(E, {e[1] : e \in E})
    BY DEF Surjection
  <2> QED
    BY <2>1, <2>2, FS_Surjection
<1>2. IsFiniteSet({e[2] : e \in edges}) /\ IsFiniteSet({e[2] : e \in reverse})
  BY <1>1 DEF GraphShape
<1>3. IsFiniteSet(keys \cup {e[2] : e \in edges})
  BY <1>2, FS_Union DEF GraphShape
<1>4. IsFiniteSet(Nodes)
  BY <1>2, <1>3, FS_Union DEF Nodes
<1>5. ASSUME NEW t PROVE IsFiniteSet(Parents(t))
  <2>1. {x \in reverse : x[2] = t} \in SUBSET reverse
    OBVIOUS
  <2>2. IsFiniteSet({x \in reverse : x[2] = t})
    BY <2>1, FS_Subset DEF GraphShape
  <2> QED
    BY <1>1, <2>2 DEF Parents
<1>6. Nodes \subseteq Tasks /\ \A t : Parents(t) \subseteq Tasks
  BY DEF GraphShape, Nodes, Parents
<1>7. ASSUME NEW p, NEW t, <<p, t>> \in edges PROVE t \in Nodes /\ p \in Parents(t)
  <2>1. <<p, t>> \in reverse /\ <<p, t>>[1] = p /\ <<p, t>>[2] = t
    BY <1>7 DEF GraphShape
  <2>2. t \in {e[2] : e \in reverse}
    BY <2>1
  <2>3. p \in {e[1] : e \in {x \in reverse : x[2] = t}}
    BY <2>1
  <2> QED
    BY <2>2, <2>3 DEF Nodes, Parents
<1> QED
  BY <1>4, <1>5, <1>6, <1>7

LEMMA AddTaskShape ==
    ASSUME GraphShape, NEW t \in Tasks, NEW parents \in DepLists, AddTaskCall(t, parents)
    PROVE  GraphShape'
<1>1. PICK F : /\ F = AddTask(edges, t, parents).edges
               /\ edges' = F /\ reverse' = reverse \cup (F \ edges) /\ keys' = keys \cup {e[1] : e \in F}
               /\ sort' = sort
  BY DEF AddTaskCall
<1>2. Extends(edges, t, F)
  <2>1. parents \in Seq(Tasks)
    BY DepListsAssumption
  <2> QED
    BY <1>1, <2>1, AddTaskExtends DEF GraphShape
<1>3. /\ IsFiniteSet(F) /\ NoCycle(F) /\ edges \subseteq F /\ F \in SUBSET (Tasks \X Tasks)
  BY <1>2 DEF Extends, GraphShape
<1>4. F \subseteq reverse' /\ reverse' \in SUBSET (Tasks \X Tasks)
  BY <1>1, <1>3 DEF GraphShape
<1>5. IsFiniteSet(reverse')
  <2>1. IsFiniteSet(F \ edges)
    BY <1>3, FS_Difference
  <2> QED
    BY <1>1, <2>1, FS_Union DEF GraphShape
<1>6. IsFiniteSet(keys') /\ keys' \in SUBSET Tasks
  <2>1. [e \in F |-> e[1]] \in Surjection(F, {e[1] : e \in F})
    BY DEF Surjection
  <2>2. IsFiniteSet({e[1] : e \in F})
    BY <1>3, <2>1, FS_Surjection
  <2>3. IsFiniteSet(keys')
    BY <1>1, <2>2, FS_Union DEF GraphShape
  <2>4. keys' \in SUBSET Tasks
    BY <1>1, <1>3 DEF GraphShape
  <2> QED
    BY <2>3, <2>4
<1> QED
  BY <1>1, <1>3, <1>4, <1>5, <1>6 DEF GraphShape

LEMMA RemoveShape ==
    ASSUME GraphShape, NEW t \in Tasks, RemoveCall(t)
    PROVE  GraphShape'
<1>1. /\ edges' = {e \in edges : e[1] # t /\ ~(e[2] = t /\ e[1] \in Parents(t))}
      /\ reverse' = {e \in reverse : e[2] # t}
      /\ keys' = (keys \cup Parents(t)) \ {t}
      /\ sort' = sort
  BY DEF RemoveCall
<1>2. edges' \in SUBSET edges /\ reverse' \in SUBSET reverse
  BY <1>1
<1>3. IsFiniteSet(edges') /\ NoCycle(edges') /\ IsFiniteSet(reverse')
  BY <1>2, FewerEdges, FS_Subset DEF GraphShape
<1>4. edges' \subseteq reverse'
  <2> SUFFICES ASSUME NEW e \in edges' PROVE e[2] # t /\ e \in reverse
    BY <1>1
  <2>1. e \in edges /\ e \in reverse /\ ~(e[2] = t /\ e[1] \in Parents(t))
    BY <1>1 DEF GraphShape
  <2>2. e[2] = t => e[1] \in Parents(t)
    BY <2>1 DEF Parents
  <2> QED
    BY <2>1, <2>2
<1>5. IsFiniteSet(keys') /\ keys' \in SUBSET Tasks
  <2>1. IsFiniteSet(Parents(t)) /\ Parents(t) \subseteq Tasks
    BY NodesFinite
  <2>2. IsFiniteSet(keys \cup Parents(t))
    BY <2>1, FS_Union DEF GraphShape
  <2>3. IsFiniteSet((keys \cup Parents(t)) \ {t})
    BY <2>2, FS_RemoveElement
  <2> QED
    BY <1>1, <2>1, <2>3 DEF GraphShape
<1> QED
  BY <1>1, <1>2, <1>3, <1>4, <1>5 DEF GraphShape

-----------------------------------------------------------------------------
(* topological_order while it runs. Every node has as many incoming edges    *)
(* left as it has parents that were not output with an edge to it; it has    *)
(* none left when, and only when, it is output or in the queue; and what is  *)
(* output comes after its parents.                                           *)
Left(m) == {p \in Parents(m) : ~(In(p, sort.order) /\ <<p, m>> \in edges)}

ParentsFirst ==
    \A j \in 1..Len(sort.order) : \A p :
        <<p, sort.order[j]>> \in edges => \E i \in 1..(j - 1) : sort.order[i] = p

SortShape ==
    /\ sort.indeg \in [Nodes -> Nat] /\ sort.q \in Seq(Nodes) /\ sort.order \in Seq(Nodes)
    /\ sort = [pc |-> "loop", indeg |-> sort.indeg, q |-> sort.q, order |-> sort.order]

Looping ==
    /\ SortShape /\ Distinct(sort.q) /\ Distinct(sort.order)
    /\ \A x : ~(In(x, sort.q) /\ In(x, sort.order))
    /\ \A m \in Nodes :
         /\ sort.indeg[m] = Cardinality(Left(m))
         /\ sort.indeg[m] = 0 <=> In(m, sort.q) \/ In(m, sort.order)
    /\ ParentsFirst

Returned == sort.order \in Seq(Nodes) /\ ToSet(sort.order) = Nodes /\ ParentsFirst

GraphInv ==
    /\ GraphShape
    /\ sort.pc = "loop" => Looping
    /\ sort.pc = "returned" => Returned

LEMMA GraphInitInv == DagInit => GraphInv
<1> SUFFICES ASSUME DagInit PROVE GraphInv
  OBVIOUS
<1>1. edges = {} /\ reverse = {} /\ keys = {} /\ sort.pc = "idle"
  BY DEF DagInit, Idle
<1>2. IsFiniteSet({})
  BY FS_EmptySet
<1> QED
  BY <1>1, <1>2 DEF GraphInv, GraphShape, NoCycle

LEMMA IdleInv == GraphShape' /\ sort'.pc \notin {"loop", "returned"} => GraphInv'
BY DEF GraphInv

LEMMA GraphSame ==
    ASSUME GraphShape, UNCHANGED <<edges, reverse, keys>>,
           sort'.pc \in {"idle", "loop", "returned", "raised"}
    PROVE  GraphShape' /\ Nodes' = Nodes /\ \A m : Parents(m)' = Parents(m)
BY DEF GraphShape, Nodes, Parents

LEMMA SortStartInv == GraphInv /\ SortStart => GraphInv'
<1> SUFFICES ASSUME GraphInv, SortStart PROVE GraphInv'
  OBVIOUS
<1> DEFINE indeg == [n \in Nodes |-> Cardinality(Parents(n))]
           Free == {n \in Nodes : indeg[n] = 0}
<1>0. GraphShape /\ UNCHANGED <<edges, reverse, keys>>
  BY DEF GraphInv, SortStart
<1>1. PICK q \in SetToSeqs(Free) : sort' = [pc |-> "loop", indeg |-> indeg, q |-> q, order |-> <<>>]
  BY DEF SortStart
<1>2. IsFiniteSet(Nodes) /\ \A t : IsFiniteSet(Parents(t)) /\ Cardinality(Parents(t)) \in Nat
  BY <1>0, NodesFinite, FS_CardinalityType
<1>3. q \in Seq(Nodes) /\ Distinct(q) /\ \A x : In(x, q) <=> x \in Free
  <2>1. Free \in SUBSET Nodes
    OBVIOUS
  <2>2. IsFiniteSet(Free)
    BY <1>2, <2>1, FS_Subset
  <2> HIDE DEF Free
  <2>3. q \in Seq(Free) /\ Distinct(q) /\ \A x : In(x, q) <=> x \in Free
    BY <2>2, ListedOnce
  <2> QED
    BY <2>1, <2>3
<1>4. indeg \in [Nodes -> Nat] /\ \A n \in Nodes : indeg[n] = Cardinality(Parents(n))
  BY <1>2
<1>5. Len(<<>>) = 0 /\ <<>> \in Seq(Nodes)
  BY EmptySeq
<1>6. /\ sort'.pc = "loop" /\ sort'.indeg = indeg /\ sort'.q = q /\ sort'.order = <<>>
  BY <1>1
<1>7. GraphShape' /\ Nodes' = Nodes /\ \A m : Parents(m)' = Parents(m)
  BY <1>0, <1>6, GraphSame
<1>8. \A x : ~In(x, sort'.order)
  BY <1>5, <1>6 DEF In
<1>9. \A m : Left(m)' = Parents(m)
  BY <1>7, <1>8 DEF Left
<1>10. \A m \in Nodes : indeg[m] = 0 <=> In(m, q)
  BY <1>3
<1> HIDE DEF indeg, Free
<1>11. SortShape'
  BY <1>1, <1>3, <1>4, <1>5, <1>6, <1>7 DEF SortShape
<1>12. ParentsFirst'
  BY <1>5, <1>6 DEF ParentsFirst
<1>13. Distinct(sort'.order)
  BY <1>5, <1>6 DEF Distinct
<1>14. Looping'
  BY <1>3, <1>4, <1>6, <1>7, <1>8, <1>9, <1>10, <1>11, <1>12, <1>13 DEF Looping
<1> QED
  BY <1>6, <1>7, <1>14 DEF GraphInv

LEMMA SortVisitInv == GraphInv /\ SortVisit => GraphInv'
<1> SUFFICES ASSUME GraphInv, SortVisit PROVE GraphInv'
  OBVIOUS
<1>0. GraphShape /\ Looping /\ sort.q # <<>> /\ UNCHANGED <<edges, reverse, keys>>
  BY DEF GraphInv, SortVisit
<1>1. /\ SortShape /\ sort.q \in Seq(Nodes) /\ sort.order \in Seq(Nodes) /\ sort.indeg \in [Nodes -> Nat]
      /\ Len(sort.q) \in Nat /\ Len(sort.order) \in Nat
  BY <1>0, LenProperties DEF Looping, SortShape
<1>2. PICK n \in Nodes : /\ n = Head(sort.q) /\ n = sort.q[1] /\ 1 \in 1..Len(sort.q)
                         /\ Tail(sort.q) \in Seq(Nodes) /\ Len(Tail(sort.q)) = Len(sort.q) - 1
                         /\ \A i \in 1..Len(Tail(sort.q)) : Tail(sort.q)[i] = sort.q[i + 1]
  <2>1. /\ Tail(sort.q) \in Seq(Nodes) /\ Len(Tail(sort.q)) = Len(sort.q) - 1 /\ Head(sort.q) = sort.q[1]
        /\ \A i \in 1..Len(Tail(sort.q)) : Tail(sort.q)[i] = sort.q[i + 1]
    BY <1>0, <1>1, HeadTailProperties
  <2>2. Len(sort.q) # 0
    BY <1>0, <1>1, EmptySeq
  <2>3. 1 \in 1..Len(sort.q)
    BY <1>1, <2>2
  <2> QED
    BY <1>1, <2>1, <2>3, ElementOfSeq
<1> DEFINE children == ChildrenOf(edges, {n})
           indeg == [m \in Nodes |-> sort.indeg[m] - (IF m \in children THEN 1 ELSE 0)]
           Free == {m \in children : indeg[m] = 0}
           rest == Tail(sort.q)
           order == Append(sort.order, n)
<1>3. PICK free \in SetToSeqs(Free) :
        sort' = [sort EXCEPT !.indeg = indeg, !.q = rest \o free, !.order = order]
  <2> HIDE DEF rest, order
  <2> DEFINE kids(h) == ChildrenOf(edges, {h})
             less(h) == [m \in Nodes |-> sort.indeg[m] - (IF m \in kids(h) THEN 1 ELSE 0)]
             free0(h) == {m \in kids(h) : less(h)[m] = 0}
             next(h, free) == [sort EXCEPT !.indeg = less(h), !.q = Tail(sort.q) \o free,
                                           !.order = Append(sort.order, h)]
  <2>1. \E free \in SetToSeqs(free0(Head(sort.q))) : sort' = next(Head(sort.q), free)
    BY DEF SortVisit
  <2>2. \E free \in SetToSeqs(free0(n)) : sort' = next(n, free)
    <3> HIDE DEF free0, next
    <3> QED
      BY <1>2, <2>1
  <2> QED
    BY <2>2 DEF rest, order
<1>4. /\ IsFiniteSet(Nodes) /\ \A t : IsFiniteSet(Parents(t))
      /\ \A p, t : <<p, t>> \in edges => t \in Nodes /\ p \in Parents(t)
  BY <1>0, NodesFinite
<1>5. \A m : m \in children <=> <<n, m>> \in edges
  <2>1. \A e \in edges : e = <<e[1], e[2]>>
    BY <1>0 DEF GraphShape
  <2> QED
    BY <2>1 DEF ChildrenOf
<1>6. children \subseteq Nodes /\ In(n, sort.q) /\ ~In(n, sort.order)
  <2>1. In(n, sort.q)
    BY <1>2 DEF In
  <2> QED
    BY <1>0, <1>4, <1>5, <2>1 DEF Looping
<1> HIDE DEF children
(* Who is a child still counts this node, and so is neither out nor queued.  *)
<1>7. \A m \in children : /\ n \in Left(m) /\ sort.indeg[m] >= 1
                          /\ ~In(m, sort.q) /\ ~In(m, sort.order)
  <2> TAKE m \in children
  <2>1. n \in Left(m)
    BY <1>4, <1>5, <1>6 DEF Left
  <2>2. Left(m) \in SUBSET Parents(m)
    BY DEF Left
  <2>3. IsFiniteSet(Left(m)) /\ Left(m) # {} /\ m \in Nodes
    BY <1>4, <1>6, <2>1, <2>2, FS_Subset
  <2>4. sort.indeg[m] = Cardinality(Left(m)) /\ sort.indeg[m] \in Nat
    BY <1>0, <1>1, <2>3 DEF Looping
  <2>5. sort.indeg[m] # 0
    BY <2>3, <2>4, FS_EmptySet
  <2> QED
    BY <1>0, <2>1, <2>3, <2>4, <2>5 DEF Looping
<1>8. indeg \in [Nodes -> Nat]
  <2>1. \A m \in Nodes : sort.indeg[m] \in Nat /\ (m \in children => sort.indeg[m] >= 1)
    BY <1>1, <1>7
  <2> QED
    BY <2>1
<1>9. \A m \in Nodes : indeg[m] = IF m \in children THEN sort.indeg[m] - 1 ELSE sort.indeg[m]
  BY <1>1
<1>10. free \in Seq(Nodes) /\ Distinct(free) /\ \A x : In(x, free) <=> x \in Free
  <2>1. Free \in SUBSET Nodes
    BY <1>6
  <2>2. IsFiniteSet(Free)
    BY <1>4, <2>1, FS_Subset
  <2> HIDE DEF Free
  <2>3. free \in Seq(Free) /\ Distinct(free) /\ \A x : In(x, free) <=> x \in Free
    BY <2>2, ListedOnce
  <2> QED
    BY <2>1, <2>3
<1>11. \A x : In(x, free) => x \in children
  BY <1>10
<1>12. \A m \in Nodes : indeg[m] = 0 <=> IF m \in children THEN In(m, free) ELSE sort.indeg[m] = 0
  BY <1>9, <1>10
<1> HIDE DEF indeg, Free
(* The queue: without its head, and with what became free.                   *)
<1>13. Distinct(rest) /\ \A x : In(x, rest) <=> In(x, sort.q) /\ x # n
  <2>1. Distinct(sort.q)
    BY <1>0 DEF Looping
  <2>2. \A i \in 1..Len(rest) : i + 1 \in 1..Len(sort.q) /\ i + 1 # 1 /\ i \in Nat
    BY <1>1, <1>2
  <2>3. Distinct(rest)
    BY <1>2, <2>1, <2>2 DEF Distinct
  <2>4. ASSUME NEW x, In(x, rest) PROVE In(x, sort.q) /\ x # n
    BY <1>2, <2>1, <2>2, <2>4 DEF In, Distinct
  <2>5. ASSUME NEW x, NEW i \in 1..Len(sort.q), sort.q[i] = x, x # n PROVE In(x, rest)
    <3>1. i - 1 \in 1..Len(rest) /\ (i - 1) + 1 = i
      BY <1>1, <1>2, <2>5
    <3> QED
      BY <1>2, <2>5, <3>1 DEF In
  <2> QED
    BY <2>3, <2>4, <2>5 DEF In
<1>14. rest \in Seq(Nodes)
  BY <1>2
<1> HIDE DEF rest
<1> DEFINE q == rest \o free
<1>15. q \in Seq(Nodes) /\ Distinct(q) /\ \A x : In(x, q) <=> In(x, rest) \/ In(x, free)
  <2>1. /\ q \in Seq(Nodes) /\ Len(q) = Len(rest) + Len(free) /\ Len(rest) \in Nat /\ Len(free) \in Nat
        /\ \A i \in 1..Len(q) : q[i] = IF i <= Len(rest) THEN rest[i] ELSE free[i - Len(rest)]
    <3>1. Len(rest) \in Nat /\ Len(free) \in Nat
      BY <1>10, <1>14, LenProperties
    <3>2. q \in Seq(Nodes) /\ Len(q) = Len(rest) + Len(free)
      BY <1>10, <1>14, ConcatProperties
    <3>3. \A i \in 1..(Len(rest) + Len(free)) : q[i] = IF i <= Len(rest) THEN rest[i] ELSE free[i - Len(rest)]
      BY <1>10, <1>14, ConcatProperties
    <3> HIDE DEF q
    <3> QED
      BY <3>1, <3>2, <3>3
  <2> HIDE DEF q
  <2>2. \A i \in 1..Len(q) : IF i <= Len(rest) THEN i \in 1..Len(rest)
                             ELSE i - Len(rest) \in 1..Len(free)
    BY <2>1
  <2>3. \A i \in 1..Len(rest), j \in 1..Len(free) : rest[i] # free[j]
    <3> TAKE i \in 1..Len(rest), j \in 1..Len(free)
    <3>1. In(rest[i], rest) /\ In(free[j], free)
      BY DEF In
    <3>2. In(rest[i], sort.q) /\ free[j] \in children
      BY <1>11, <1>13, <3>1
    <3> QED
      BY <1>7, <3>2
  <2>4. Distinct(q)
    <3> SUFFICES ASSUME NEW i \in 1..Len(q), NEW j \in 1..Len(q), q[i] = q[j] PROVE i = j
      BY DEF Distinct
    <3>1. CASE i <= Len(rest) /\ j <= Len(rest)
      BY <1>13, <2>1, <2>2, <3>1 DEF Distinct
    <3>2. CASE ~(i <= Len(rest)) /\ ~(j <= Len(rest))
      <4>1. i - Len(rest) = j - Len(rest)
        BY <1>10, <2>1, <2>2, <3>2 DEF Distinct
      <4> QED
        BY <2>1, <4>1
    <3>3. CASE i <= Len(rest) /\ ~(j <= Len(rest))
      <4>1. i \in 1..Len(rest) /\ j - Len(rest) \in 1..Len(free)
        BY <2>2, <3>3
      <4>2. q[i] = rest[i] /\ q[j] = free[j - Len(rest)]
        BY <2>1, <3>3
      <4> QED
        BY <2>3, <4>1, <4>2
    <3>4. CASE ~(i <= Len(rest)) /\ j <= Len(rest)
      <4>1. j \in 1..Len(rest) /\ i - Len(rest) \in 1..Len(free)
        BY <2>2, <3>4
      <4>2. q[j] = rest[j] /\ q[i] = free[i - Len(rest)]
        BY <2>1, <3>4
      <4> QED
        BY <2>3, <4>1, <4>2
    <3> QED
      BY <3>1, <3>2, <3>3, <3>4
  <2>5. ASSUME NEW x, In(x, q) PROVE In(x, rest) \/ In(x, free)
    BY <2>1, <2>2, <2>5 DEF In
  <2>6. ASSUME NEW x, In(x, rest) PROVE In(x, q)
    <3>1. PICK i \in 1..Len(rest) : rest[i] = x
      BY <2>6 DEF In
    <3>2. i \in 1..Len(q) /\ i <= Len(rest)
      BY <2>1
    <3> QED
      BY <2>1, <3>1, <3>2 DEF In
  <2>7. ASSUME NEW x, In(x, free) PROVE In(x, q)
    <3>1. PICK j \in 1..Len(free) : free[j] = x
      BY <2>7 DEF In
    <3>2. j + Len(rest) \in 1..Len(q) /\ ~(j + Len(rest) <= Len(rest)) /\ (j + Len(rest)) - Len(rest) = j
      BY <2>1
    <3> QED
      BY <2>1, <3>1, <3>2 DEF In
  <2> QED
    BY <2>1, <2>4, <2>5, <2>6, <2>7
<1> HIDE DEF q
<1>16. /\ order \in Seq(Nodes) /\ Len(order) = Len(sort.order) + 1 /\ order[Len(sort.order) + 1] = n
       /\ \A i \in 1..Len(sort.order) : order[i] = sort.order[i]
  BY <1>1, AppendProperties
<1> HIDE DEF order
<1>17. Distinct(order) /\ \A x : In(x, order) <=> In(x, sort.order) \/ x = n
  <2>1. Distinct(sort.order) /\ \A i \in 1..Len(sort.order) : sort.order[i] # n
    BY <1>0, <1>6 DEF Looping, In
  <2>3. \A i \in 1..Len(order) : i \in 1..Len(sort.order) \/ i = Len(sort.order) + 1
    BY <1>1, <1>16
  <2>2. Distinct(order)
    <3> SUFFICES ASSUME NEW i \in 1..Len(order), NEW j \in 1..Len(order), order[i] = order[j]
                 PROVE  i = j
      BY DEF Distinct
    <3>1. CASE i \in 1..Len(sort.order) /\ j \in 1..Len(sort.order)
      <4>1. sort.order[i] = sort.order[j]
        BY <1>16, <3>1
      <4> QED
        BY <2>1, <3>1, <4>1 DEF Distinct
    <3>2. CASE i = Len(sort.order) + 1 /\ j \in 1..Len(sort.order)
      BY <1>16, <2>1, <3>2
    <3>3. CASE i \in 1..Len(sort.order) /\ j = Len(sort.order) + 1
      BY <1>16, <2>1, <3>3
    <3> QED
      BY <2>3, <3>1, <3>2, <3>3
  <2>4. \A i \in 1..Len(sort.order) : i \in 1..Len(order)
    BY <1>1, <1>16
  <2>5. Len(sort.order) + 1 \in 1..Len(order)
    BY <1>1, <1>16
  <2> QED
    BY <1>16, <2>2, <2>3, <2>4, <2>5 DEF In
<1>18. /\ sort'.pc = "loop" /\ sort'.indeg = indeg /\ sort'.q = q /\ sort'.order = order
       /\ sort' = [pc |-> "loop", indeg |-> indeg, q |-> q, order |-> order]
  <2>1. sort = [pc |-> "loop", indeg |-> sort.indeg, q |-> sort.q, order |-> sort.order]
    BY <1>1 DEF SortShape
  <2>2. sort' = [pc |-> "loop", indeg |-> indeg, q |-> q, order |-> order]
    <3>1. sort' = [sort EXCEPT !.indeg = indeg, !.q = q, !.order = order]
      BY <1>3 DEF q
    <3> DEFINE R == [pc : {"loop"}, indeg : [Nodes -> Nat], q : Seq(Nodes), order : Seq(Nodes)]
    <3>2. sort \in R
      BY <1>1, <2>1
    <3>3. indeg \in [Nodes -> Nat] /\ q \in Seq(Nodes) /\ order \in Seq(Nodes)
      BY <1>8, <1>15, <1>16
    <3>4. sort' \in R /\ sort'.indeg = indeg /\ sort'.q = q /\ sort'.order = order
      BY <3>1, <3>2, <3>3
    <3>5. \A r \in R : r = [pc |-> "loop", indeg |-> r.indeg, q |-> r.q, order |-> r.order]
      OBVIOUS
    <3> HIDE DEF R
    <3> QED
      BY <3>4, <3>5
  <2> QED
    BY <2>2
<1>19. GraphShape' /\ Nodes' = Nodes /\ \A m : Parents(m)' = Parents(m)
  BY <1>0, <1>18, GraphSame
<1>20. \A x : In(x, sort'.order) <=> In(x, sort.order) \/ x = n
  BY <1>17, <1>18
<1>21. \A x : In(x, sort'.q) <=> (In(x, sort.q) /\ x # n) \/ In(x, free)
  BY <1>13, <1>15, <1>18
<1>22. \A m \in Nodes : Left(m)' = IF m \in children THEN Left(m) \ {n} ELSE Left(m)
  BY <1>0, <1>5, <1>19, <1>20 DEF Left
<1>23. ASSUME NEW m \in Nodes PROVE sort'.indeg[m] = Cardinality(Left(m)')
  <2>1. sort.indeg[m] = Cardinality(Left(m))
    BY <1>0 DEF Looping
  <2>2. CASE m \in children
    <3>1. Left(m) \in SUBSET Parents(m)
      BY DEF Left
    <3>2. IsFiniteSet(Left(m))
      BY <1>4, <3>1, FS_Subset
    <3>3. Cardinality(Left(m) \ {n}) = Cardinality(Left(m)) - 1
      BY <1>7, <2>2, <3>2, FS_RemoveElement
    <3> QED
      BY <1>9, <1>18, <1>22, <2>1, <2>2, <3>3
  <2>3. CASE m \notin children
    BY <1>9, <1>18, <1>22, <2>1, <2>3
  <2> QED
    BY <2>2, <2>3
<1>24. ASSUME NEW m \in Nodes PROVE sort'.indeg[m] = 0 <=> In(m, sort'.q) \/ In(m, sort'.order)
  <2>1. sort.indeg[m] = 0 <=> In(m, sort.q) \/ In(m, sort.order)
    BY <1>0 DEF Looping
  <2>2. CASE m \in children
    <3>1. m # n
      BY <1>6, <1>7, <2>2
    <3> QED
      BY <1>7, <1>12, <1>18, <1>20, <1>21, <2>2, <3>1
  <2>3. CASE m \notin children
    BY <1>6, <1>11, <1>12, <1>18, <1>20, <1>21, <2>1, <2>3
  <2> QED
    BY <2>2, <2>3
<1>25. ASSUME NEW x PROVE ~(In(x, sort'.q) /\ In(x, sort'.order))
  <2>1. ~(In(x, sort.q) /\ In(x, sort.order))
    BY <1>0 DEF Looping
  <2>2. In(x, free) => ~In(x, sort.q) /\ ~In(x, sort.order) /\ x # n
    BY <1>6, <1>7, <1>11
  <2> QED
    BY <1>20, <1>21, <2>1, <2>2
<1>26. SortShape'
  BY <1>8, <1>15, <1>16, <1>18, <1>19 DEF SortShape
(* Whoever has no edge left has all its parents out.                         *)
<1>27. ParentsFirst'
  <2>1. \A p : <<p, n>> \in edges => In(p, sort.order)
    <3> SUFFICES ASSUME NEW p, <<p, n>> \in edges PROVE In(p, sort.order)
      OBVIOUS
    <3>1. Cardinality(Left(n)) = 0
      BY <1>0, <1>6 DEF Looping
    <3>2. Left(n) \in SUBSET Parents(n)
      BY DEF Left
    <3>3. IsFiniteSet(Left(n))
      BY <1>4, <3>2, FS_Subset
    <3>4. Left(n) = {}
      BY <3>1, <3>3, FS_EmptySet
    <3>5. p \in Parents(n)
      BY <1>4
    <3> QED
      BY <3>4, <3>5 DEF Left
  <2>2. ASSUME NEW j \in 1..Len(order), NEW p, <<p, order[j]>> \in edges
        PROVE  \E i \in 1..(j - 1) : order[i] = p
    <3>1. CASE j \in 1..Len(sort.order)
      <4>1. order[j] = sort.order[j]
        BY <1>16, <3>1
      <4>2. PICK i \in 1..(j - 1) : sort.order[i] = p
        BY <1>0, <2>2, <3>1, <4>1 DEF Looping, ParentsFirst
      <4>3. i \in 1..Len(sort.order)
        BY <1>1, <3>1
      <4> QED
        BY <1>16, <4>2, <4>3
    <3>2. CASE j = Len(sort.order) + 1
      <4>1. order[j] = n
        BY <1>16, <3>2
      <4>2. PICK i \in 1..Len(sort.order) : sort.order[i] = p
        BY <2>1, <2>2, <4>1 DEF In
      <4>3. i \in 1..(j - 1)
        BY <1>1, <3>2
      <4> QED
        BY <1>16, <4>2, <4>3
    <3>3. j \in 1..Len(sort.order) \/ j = Len(sort.order) + 1
      BY <1>1, <1>16
    <3> QED
      BY <3>1, <3>2, <3>3
  <2> QED
    BY <1>0, <1>18, <2>2 DEF ParentsFirst
<1>28. Looping'
  <2>1. Distinct(sort'.q) /\ Distinct(sort'.order)
    BY <1>15, <1>17, <1>18
  <2> QED
    BY <1>19, <1>23, <1>24, <1>25, <1>26, <1>27, <2>1 DEF Looping
<1> QED
  BY <1>18, <1>19, <1>28 DEF GraphInv

LEMMA SortEndInv == GraphInv /\ SortEnd => GraphInv'
<1> SUFFICES ASSUME GraphInv, SortEnd PROVE GraphInv'
  OBVIOUS
<1>0. GraphShape /\ Looping /\ UNCHANGED <<edges, reverse, keys>>
  BY DEF GraphInv, SortEnd
<1>1. /\ sort.order \in Seq(Nodes) /\ Distinct(sort.order) /\ ParentsFirst
      /\ sort = [pc |-> "loop", indeg |-> sort.indeg, q |-> sort.q, order |-> sort.order]
  BY <1>0 DEF Looping, SortShape
<1>2. /\ sort'.order = sort.order
      /\ sort'.pc = IF Len(sort.order) = Cardinality(Nodes) THEN "returned" ELSE "raised"
  <2>1. sort' = [sort EXCEPT !.pc = IF Len(sort.order) = Cardinality(Nodes) THEN "returned" ELSE "raised"]
    BY DEF SortEnd
  <2> QED
    BY <1>1, <2>1
<1>3. GraphShape' /\ Nodes' = Nodes
  BY <1>0, <1>2, GraphSame
<1>4. CASE sort'.pc = "returned"
  <2>1. Len(sort.order) = Cardinality(Nodes) /\ IsFiniteSet(Nodes)
    BY <1>0, <1>2, <1>4, NodesFinite
  <2>2. ToSet(sort.order) = Nodes
    BY <1>1, <2>1, AllListed
  <2>3. ParentsFirst'
    BY <1>0, <1>1, <1>2 DEF ParentsFirst
  <2>4. ToSet(sort'.order) = Nodes
    BY <1>2, <2>2
  <2>5. Returned'
    BY <1>1, <1>2, <1>3, <2>3, <2>4 DEF Returned, ToSet
  <2> QED
    BY <1>3, <1>4, <2>5 DEF GraphInv
<1>5. CASE sort'.pc # "returned"
  BY <1>2, <1>3, <1>5 DEF GraphInv
<1> QED
  BY <1>4, <1>5

LEMMA GraphStepInv == GraphInv /\ [DagNext]_dagVars => GraphInv'
<1> SUFFICES ASSUME GraphInv, [DagNext]_dagVars PROVE GraphInv'
  OBVIOUS
<1>0. GraphShape
  BY DEF GraphInv
<1>1. ASSUME NEW t \in Tasks, NEW parents \in DepLists, AddTaskCall(t, parents) PROVE GraphInv'
  BY <1>0, <1>1, AddTaskShape, IdleInv DEF AddTaskCall
<1>2. ASSUME NEW t \in Tasks, RemoveCall(t) PROVE GraphInv'
  BY <1>0, <1>2, RemoveShape, IdleInv DEF RemoveCall
<1>3. CASE SortLeave
  <2>1. sort'.pc = "idle" /\ UNCHANGED <<edges, reverse, keys>>
    BY <1>3 DEF SortLeave, Idle
  <2> QED
    BY <1>0, <2>1, GraphSame, IdleInv
<1>4. CASE UNCHANGED dagVars
  <2>1. sort' = sort /\ UNCHANGED <<edges, reverse, keys>>
    BY <1>4 DEF dagVars
  <2>2. sort'.pc \in {"idle", "loop", "returned", "raised"}
    BY <1>0, <2>1 DEF GraphShape
  <2>3. GraphShape' /\ Nodes' = Nodes /\ \A m : Parents(m)' = Parents(m)
    BY <1>0, <2>1, <2>2, GraphSame
  <2>4. (\A m : Left(m)' = Left(m)) /\ (ParentsFirst => ParentsFirst') /\ (SortShape => SortShape')
    BY <2>1, <2>3 DEF Left, ParentsFirst, SortShape
  <2>5. Looping => Looping'
    BY <2>1, <2>3, <2>4 DEF Looping
  <2>6. Returned => Returned'
    BY <2>1, <2>3, <2>4 DEF Returned
  <2> QED
    BY <2>1, <2>3, <2>5, <2>6 DEF GraphInv
<1> QED
  BY <1>1, <1>2, <1>3, <1>4, SortStartInv, SortVisitInv, SortEndInv DEF DagNext

LEMMA GraphInvSound == GraphInv => GraphSound
<1> SUFFICES ASSUME GraphInv PROVE GraphSound
  OBVIOUS
<1>1. Acyclic /\ EdgesMirrored
  BY DEF GraphInv, GraphShape, NoCycle, Acyclic, EdgesMirrored
<1>2. sort.pc = "loop" => sort.indeg \in [Nodes -> Nat]
  BY DEF GraphInv, Looping, SortShape
<1>3. ASSUME sort.pc = "returned", NEW e \in edges
      PROVE  \E i, j \in 1..Len(sort.order) : i < j /\ sort.order[i] = e[1] /\ sort.order[j] = e[2]
  <2>1. Returned /\ e = <<e[1], e[2]>> /\ e[2] \in Nodes
    BY <1>3, NodesFinite DEF GraphInv, GraphShape
  <2>2. Len(sort.order) \in Nat /\ ToSet(sort.order) = {sort.order[i] : i \in 1..Len(sort.order)}
    BY <2>1, LenProperties DEF Returned, ToSet
  <2>3. PICK j \in 1..Len(sort.order) : sort.order[j] = e[2]
    BY <2>1, <2>2 DEF Returned
  <2>4. PICK i \in 1..(j - 1) : sort.order[i] = e[1]
    BY <2>1, <2>3 DEF Returned, ParentsFirst
  <2>5. i \in 1..Len(sort.order) /\ i < j
    BY <2>2
  <2> QED
    BY <2>3, <2>4, <2>5
<1>4. SortSound
  BY <1>2, <1>3 DEF SortSound, GraphInv, Returned
<1> QED
  BY <1>1, <1>4 DEF GraphSound

(* No sequence of add_task and remove calls closes a cycle or forgets a      *)
(* parent, and what topological_order returns lists every node, parents      *)
(* first (DependencyGraph in imperium/dag.py), for any number of tasks.      *)
THEOREM GraphStaysSound == DagSpec => []GraphSound
<1> QED
  BY GraphInitInv, GraphStepInv, GraphInvSound, PTL DEF DagSpec
=============================================================================
