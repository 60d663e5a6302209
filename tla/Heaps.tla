-------------------------------- MODULE Heaps --------------------------------
(* The priority queues of core/: leftist_heap.py, skew_heap.py,              *)
(* pairing_heap.py, binomial_heap.py and min_max_heap.py. Each method runs   *)
(* under the heap's lock (a meld under both), so it is one step. Two         *)
(* instances of one kind stand beside what they should hold.                 *)
EXTENDS Integers, Sequences, FiniteSets, SequencesExt

CONSTANTS
    HeapKinds, HeapValues,
    MaxInserts, MaxLowerings      \* bounds

ASSUME HeapAssumption ==
    /\ HeapValues \subseteq Int /\ MaxInserts \in Nat /\ MaxLowerings \in Nat
    /\ HeapKinds \subseteq {"leftist", "skew", "pairing", "binomial", "minmax"}

VARIABLES
    heapKind,
    heap,             \* instance -> the structure
    keyAt,            \* node -> its value, in the heaps whose elements have handles
    handleAt, nodeOf, \* binomial heap: node -> handle, handle -> node
    elements,         \* instance -> what it should hold: set of <<handle, value>>
    inserts, lowerings

heapVars == <<heapKind, heap, keyAt, handleAt, nodeOf, elements, inserts, lowerings>>

Nil == <<>>
Instances == {1, 2}

-----------------------------------------------------------------------------
(* Leftist heap: <<key, left, right, rank>>. *)
Rank(t) == IF t = Nil THEN 0 ELSE t[4]

Leftist(k, l, r) ==
    IF Rank(l) < Rank(r) THEN <<k, r, l, Rank(l) + 1>> ELSE <<k, l, r, Rank(r) + 1>>

RECURSIVE LMerge(_, _)
LMerge(a, b) ==
    IF a = Nil \/ b = Nil THEN (IF a = Nil THEN b ELSE a)
    ELSE IF a[1] > b[1] THEN Leftist(b[1], b[2], LMerge(b[3], a))
    ELSE Leftist(a[1], a[2], LMerge(a[3], b))

(* Skew heap: <<key, left, right>>. _meld merges the right spines and hangs  *)
(* each node, from the back, to the left of the one before it.               *)
RECURSIVE Spine(_)
Spine(t) == IF t = Nil THEN <<>> ELSE <<<<t[1], t[2]>>>> \o Spine(t[3])

RECURSIVE ByKey(_, _)
ByKey(s, t) ==
    IF s = <<>> \/ t = <<>> THEN s \o t
    ELSE IF s[1][1] <= t[1][1] THEN <<s[1]>> \o ByKey(Tail(s), t)
    ELSE <<t[1]>> \o ByKey(s, Tail(t))

Meld(a, b) ==
    IF a = Nil \/ b = Nil THEN (IF a = Nil THEN b ELSE a)
    ELSE LET s == ByKey(Spine(a), Spine(b))
             last == s[Len(s)]
         IN  FoldRight(LAMBDA x, acc : <<x[1], acc, x[2]>>, Front(s), <<last[1], last[2], Nil>>)

-----------------------------------------------------------------------------
(* Pairing heap: <<node, children>>, the last melded child first. *)
MeldPair(a, b) ==
    IF a = Nil \/ b = Nil THEN (IF a = Nil THEN b ELSE a)
    ELSE IF keyAt[a[1]] <= keyAt[b[1]] THEN <<a[1], <<b>> \o a[2]>>
    ELSE <<b[1], <<a>> \o b[2]>>

(* delete_min: pairs from left to right, then all from right to left. *)
TwoPass(kids) ==
    LET pairs == [i \in 1..((Len(kids) + 1) \div 2) |->
                    MeldPair(kids[2 * i - 1], IF 2 * i <= Len(kids) THEN kids[2 * i] ELSE Nil)]
    IN  FoldRight(MeldPair, pairs, Nil)

RECURSIVE Subtree(_, _), Cut(_, _)
Subtree(t, n) ==
    IF t[1] = n THEN {t} ELSE UNION {Subtree(t[2][i], n) : i \in 1..Len(t[2])}
Cut(t, n) ==
    LET kept == SelectSeq(t[2], LAMBDA c : c[1] # n)
    IN  <<t[1], [i \in 1..Len(kept) |-> Cut(kept[i], n)]>>

(* Binomial heap: a list of <<node, children>> by degree, the degree of a    *)
(* node being the number of its children, the highest first.                 *)
Degree(t) == Len(t[2])

RECURSIVE MergeRoots(_, _)
MergeRoots(a, b) ==
    IF a = <<>> \/ b = <<>> THEN a \o b
    ELSE IF Degree(a[1]) <= Degree(b[1]) THEN <<a[1]>> \o MergeRoots(Tail(a), b)
    ELSE <<b[1]>> \o MergeRoots(a, Tail(b))

MutLinked(k, y, z) == <<z[1], <<y>> \o z[2]>>

(* _union compares curr and next by the values they have; the smaller keeps  *)
(* its place and takes the other as its first child.                         *)
Linked(k, y, z) == IF k[y[1]] <= k[z[1]] THEN <<y[1], <<z>> \o y[2]>> ELSE <<z[1], <<y>> \o z[2]>>

RECURSIVE Consolidate(_, _, _)
Consolidate(k, done, rest) ==
    IF Len(rest) <= 1 THEN done \o rest
    ELSE IF \/ Degree(rest[1]) # Degree(rest[2])
            \/ Len(rest) > 2 /\ Degree(rest[3]) = Degree(rest[1])
         THEN Consolidate(k, Append(done, rest[1]), Tail(rest))
         ELSE Consolidate(k, done, <<Linked(k, rest[1], rest[2])>> \o SubSeq(rest, 3, Len(rest)))

BinomialUnion(k, a, b) == Consolidate(k, <<>>, MergeRoots(a, b))

(* The first root with the smallest value. *)
MinRoot(roots) ==
    CHOOSE i \in 1..Len(roots) :
        \A j \in 1..Len(roots) : /\ keyAt[roots[i][1]] <= keyAt[roots[j][1]]
                                 /\ j < i => keyAt[roots[i][1]] < keyAt[roots[j][1]]

(* decrease_key: value and handle change places with the parent's, upward. *)
RECURSIVE PathTo(_, _)
PathTo(t, n) ==
    IF t[1] = n THEN <<n>>
    ELSE LET under == {i \in 1..Len(t[2]) : PathTo(t[2][i], n) # <<>>}
         IN  IF under = {} THEN <<>> ELSE Append(PathTo(t[2][CHOOSE i \in under : TRUE], n), t[1])

RECURSIVE Rise(_, _, _)
Rise(path, k, h) ==
    IF Len(path) < 2 \/ ~(k[path[1]] < k[path[2]]) THEN <<k, h>>
    ELSE LET Swapped(f) == [f EXCEPT ![path[1]] = f[path[2]], ![path[2]] = f[path[1]]]
         IN  Rise(Tail(path), Swapped(k), Swapped(h))

-----------------------------------------------------------------------------
(* Min-max heap: the array, even levels before odd ones. Indices from 0. *)
RECURSIVE Level(_)
Level(i) == IF i = 0 THEN 0 ELSE 1 + Level((i - 1) \div 2)
MinLevel(i) == Level(i) % 2 = 0
Slot(a, i) == a[i + 1]
Exchange(a, i, j) == [a EXCEPT ![i + 1] = Slot(a, j), ![j + 1] = Slot(a, i)]
Beats(down, x, y) == IF down THEN x < y ELSE x > y
Parent(i) == (i - 1) \div 2

(* _bubble_up_min and _bubble_up_max: against grandparents. *)
RECURSIVE BubbleOn(_, _, _)
BubbleOn(a, i, small) ==
    IF i < 3 \/ ~Beats(small, Slot(a, i), Slot(a, Parent(Parent(i)))) THEN a
    ELSE BubbleOn(Exchange(a, i, Parent(Parent(i))), Parent(Parent(i)), small)

BubbleUp(a, i) ==
    IF i = 0 THEN a
    ELSE LET small == MinLevel(i)
             p0 == Parent(i)
         IN  IF Beats(small, Slot(a, p0), Slot(a, i)) THEN BubbleOn(Exchange(a, i, p0), p0, ~small)
             ELSE BubbleOn(a, i, small)

(* _descendants in the order in which min and max look at them. *)
Descendants(a, i) ==
    LET all == <<2 * i + 1, 4 * i + 3, 4 * i + 4, 2 * i + 2, 4 * i + 5, 4 * i + 6>>
    IN  SelectSeq(all, LAMBDA j : j < Len(a))

(* _trickle_down: the least (or greatest) of them comes up. *)
RECURSIVE TrickleDown(_, _, _)
TrickleDown(a, i, small) ==
    LET desc == Descendants(a, i)
        best == CHOOSE x \in 1..Len(desc) :
                   \A y \in 1..Len(desc) :
                      /\ ~Beats(small, Slot(a, desc[y]), Slot(a, desc[x]))
                      /\ y < x => Beats(small, Slot(a, desc[x]), Slot(a, desc[y]))
        m == desc[best]
        b == Exchange(a, m, i)
    IN  IF desc = <<>> THEN a
        ELSE IF ~Beats(small, Slot(a, m), Slot(a, i)) THEN a
        ELSE IF m <= 2 * i + 2 THEN b
        ELSE TrickleDown(IF Beats(small, Slot(b, Parent(m)), Slot(b, m))
                         THEN Exchange(b, m, Parent(m)) ELSE b, m, small)

MaxIndex(a) ==
    CASE Len(a) <= 2 -> Len(a) - 1
      [] OTHER -> IF Slot(a, 1) >= Slot(a, 2) THEN 1 ELSE 2

(* extract_max and, at the root, extract_min: the last slot fills the hole. *)
WithoutSlot(a, i) ==
    IF i = Len(a) - 1 THEN Front(a)
    ELSE TrickleDown([Front(a) EXCEPT ![i + 1] = Last(a)], i, MinLevel(i))

-----------------------------------------------------------------------------
HeapInit ==
    /\ heapKind \in HeapKinds
    /\ heap = [i \in Instances |-> Nil] /\ elements = [i \in Instances |-> {}]
    /\ keyAt = <<>> /\ handleAt = <<>> /\ nodeOf = <<>>
    /\ inserts = 0 /\ lowerings = 0

(* insert and push: handles count up. A kind without a meld needs no second  *)
(* instance.                                                                 *)
Insert(i, v) ==
    /\ i = 2 => heapKind \in {"leftist", "skew", "binomial"}
    /\ inserts < MaxInserts /\ inserts' = inserts + 1
    /\ elements' = [elements EXCEPT ![i] = @ \cup {<<inserts', v>>}]
    /\ keyAt' = IF heapKind \in {"pairing", "binomial"} THEN Append(keyAt, v) ELSE keyAt
    /\ IF heapKind = "binomial"
       THEN handleAt' = Append(handleAt, inserts') /\ nodeOf' = Append(nodeOf, inserts')
       ELSE UNCHANGED <<handleAt, nodeOf>>
    /\ heap' = [heap EXCEPT ![i] =
         CASE heapKind = "leftist" -> LMerge(@, <<v, Nil, Nil, 1>>)
           [] heapKind = "skew" -> Meld(@, <<v, Nil, Nil>>)
           [] heapKind = "pairing" ->
                (IF @ # Nil /\ keyAt[@[1]] <= v THEN <<@[1], <<<<inserts', <<>>>>>> \o @[2]>>
                 ELSE <<inserts', IF @ = Nil THEN <<>> ELSE <<@>>>>)
           [] heapKind = "binomial" -> BinomialUnion(Append(keyAt, v), @, <<<<inserts', <<>>>>>>)
           [] heapKind = "minmax" -> BubbleUp(Append(@, v), Len(@))]
    /\ UNCHANGED <<heapKind, lowerings>>

(* What find_min, and find_min_handle where there are handles, answer. *)
MinNode(i) == IF heapKind = "pairing" THEN heap[i][1] ELSE heap[i][MinRoot(heap[i])][1]
FindMin(i) == IF heapKind \in {"pairing", "binomial"} THEN keyAt[MinNode(i)] ELSE heap[i][1]
MinHandle(i) == IF heapKind = "pairing" THEN MinNode(i) ELSE handleAt[MinNode(i)]

(* Some element with a value: heaps without handles do not tell which. *)
Drop(S, v) == S \ {CHOOSE e \in S : e[2] = v}

ExtractMin(i) ==
    /\ heap[i] # Nil
    /\ elements' = [elements EXCEPT ![i] =
         IF heapKind \in {"pairing", "binomial"} THEN @ \ {<<MinHandle(i), FindMin(i)>>}
         ELSE IF \E e \in @ : e[2] = FindMin(i) THEN Drop(@, FindMin(i)) ELSE @]
    /\ heap' = [heap EXCEPT ![i] =
         CASE heapKind = "leftist" -> LMerge(@[2], @[3])
           [] heapKind = "skew" -> Meld(@[2], @[3])
           [] heapKind = "pairing" -> TwoPass(@[2])
           [] heapKind = "binomial" ->
                BinomialUnion(keyAt, RemoveAt(@, MinRoot(@)), Reverse(@[MinRoot(@)][2]))
           [] heapKind = "minmax" -> WithoutSlot(@, 0)]
    /\ UNCHANGED <<heapKind, keyAt, handleAt, nodeOf, inserts, lowerings>>

ExtractMax(i) ==
    /\ heapKind = "minmax" /\ heap[i] # <<>>
    /\ LET v == Slot(heap[i], MaxIndex(heap[i])) IN
       elements' = [elements EXCEPT ![i] = IF \E e \in @ : e[2] = v THEN Drop(@, v) ELSE @]
    /\ heap' = [heap EXCEPT ![i] = WithoutSlot(@, MaxIndex(@))]
    /\ UNCHANGED <<heapKind, keyAt, handleAt, nodeOf, inserts, lowerings>>

(* decrease_key, of a live handle and to no greater value. *)
Lower(i, e, v) ==
    /\ heapKind \in {"pairing", "binomial"} /\ v <= e[2]
    /\ lowerings < MaxLowerings /\ lowerings' = lowerings + 1
    /\ elements' = [elements EXCEPT ![i] = (@ \ {e}) \cup {<<e[1], v>>}]
    /\ IF heapKind = "pairing"
       THEN LET n == e[1]
                alone == CHOOSE t \in Subtree(heap[i], n) : TRUE
                others == Cut(heap[i], n)
            IN  /\ keyAt' = [keyAt EXCEPT ![n] = v]
                /\ heap' = [heap EXCEPT ![i] =
                     IF heap[i][1] = n THEN @
                     ELSE IF keyAt[others[1]] <= v THEN <<others[1], <<alone>> \o others[2]>>
                     ELSE <<n, <<others>> \o alone[2]>>]
                /\ UNCHANGED <<handleAt, nodeOf>>
       ELSE LET n == nodeOf[e[1]]
                tree0 == CHOOSE r \in 1..Len(heap[i]) : PathTo(heap[i][r], n) # <<>>
                risen == Rise(PathTo(heap[i][tree0], n), [keyAt EXCEPT ![n] = v], handleAt)
            IN  /\ keyAt' = risen[1] /\ handleAt' = risen[2]
                /\ nodeOf' = [h \in DOMAIN nodeOf |->
                     IF \E x \in DOMAIN handleAt : risen[2][x] = h
                     THEN CHOOSE x \in DOMAIN handleAt : risen[2][x] = h ELSE nodeOf[h]]
                /\ UNCHANGED heap
    /\ UNCHANGED <<heapKind, inserts>>

(* merge and meld: the other heap is left empty. *)
MergeHeaps(i) ==
    /\ heapKind \in {"leftist", "skew", "binomial"} /\ heap[3 - i] # Nil
    /\ heap' = [heap EXCEPT ![3 - i] = Nil, ![i] =
         CASE heapKind = "leftist" -> LMerge(@, heap[3 - i])
           [] heapKind = "skew" -> Meld(@, heap[3 - i])
           [] heapKind = "binomial" -> BinomialUnion(keyAt, @, heap[3 - i])]
    /\ elements' = [elements EXCEPT ![3 - i] = {}, ![i] = @ \cup elements[3 - i]]
    /\ UNCHANGED <<heapKind, keyAt, handleAt, nodeOf, inserts, lowerings>>

HeapNext ==
    \E i \in Instances :
        \/ ExtractMin(i) \/ ExtractMax(i) \/ MergeHeaps(i)
        \/ \E v \in HeapValues : Insert(i, v) \/ \E e \in elements[i] : Lower(i, e, v)

HeapSpec == HeapInit /\ [][HeapNext]_heapVars

-----------------------------------------------------------------------------
(* Whatever was inserted, lowered, melded and taken out, in any order, a     *)
(* heap answers with its smallest element, under the handle it was inserted  *)
(* with; a min-max heap with its greatest as well; and it is empty when      *)
(* nothing is left.                                                          *)
HeapsAgree ==
    \A i \in Instances :
        /\ heap[i] = Nil <=> elements[i] = {}
        /\ elements[i] # {} =>
             /\ \E e \in elements[i] : e[2] = FindMin(i)
             /\ \A e \in elements[i] : FindMin(i) <= e[2]
             /\ heapKind \in {"pairing", "binomial"} => <<MinHandle(i), FindMin(i)>> \in elements[i]
             /\ heapKind = "minmax" =>
                  LET most == Slot(heap[i], MaxIndex(heap[i])) IN
                  (\E e \in elements[i] : e[2] = most) /\ \A e \in elements[i] : e[2] <= most
=============================================================================
