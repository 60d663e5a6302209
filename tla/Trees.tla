-------------------------------- MODULE Trees --------------------------------
(* The search trees of core/: avl_tree.py, treap.py, scapegoat_tree.py and   *)
(* splay_tree.py, and below them b_tree.py. Each method runs under the tree's*)
(* lock, so it is one step; one tree stands beside the keys it should hold.  *)
(* A value kept with a key changes nothing here and is left out.             *)
EXTENDS Integers, Sequences, FiniteSets, SequencesExt

CONSTANTS
    TreeKinds, TreeKeys,          \* kind -> the keys its tree is used with
    Priorities,                   \* what a treap draws for a new node
    AlphaOver, AlphaUnder         \* a scapegoat tree's alpha, as a fraction

ASSUME TreeAssumption ==
    /\ TreeKinds \subseteq {"avl", "treap", "scapegoat", "splay"}
    /\ \A k \in TreeKinds : TreeKeys[k] \subseteq Int \ {0}
    /\ Priorities \subseteq Int
    /\ AlphaOver \in Nat /\ AlphaUnder \in Nat
    /\ AlphaUnder < 2 * AlphaOver /\ AlphaOver < AlphaUnder

VARIABLES
    treeKind,
    root,       \* <<>>, or <<key, left, right, what the kind keeps there ...>>
    highWater,  \* scapegoat: _max_n
    keysIn,     \* the keys the tree should hold
    touched     \* splay: the key of the last call, 0 for none

treeVars == <<treeKind, root, highWater, keysIn, touched>>

NoNode == <<>>

-----------------------------------------------------------------------------
(* AVL: <<key, left, right, height>>. *)
Height(t) == IF t = NoNode THEN 0 ELSE t[4]
Balance(t) == Height(t[2]) - Height(t[3])
Updated(k, l, r) ==
    <<k, l, r, 1 + IF Height(l) > Height(r) THEN Height(l) ELSE Height(r)>>

RotateRight(y) == Updated(y[2][1], y[2][2], Updated(y[1], y[2][3], y[3]))
RotateLeft(x) == Updated(x[3][1], Updated(x[1], x[2], x[3][2]), x[3][3])

(* A bug: the inner child is not turned first. *)
MutRebalanced(k, l, r) ==
    LET t == Updated(k, l, r) IN
    IF Balance(t) > 1 THEN RotateRight(t)
    ELSE IF Balance(t) < -1 THEN RotateLeft(t) ELSE t

Rebalanced(k, l, r) ==
    LET t == Updated(k, l, r) IN
    IF Balance(t) > 1 THEN RotateRight(IF Balance(l) < 0 THEN Updated(k, RotateLeft(l), r) ELSE t)
    ELSE IF Balance(t) < -1 THEN RotateLeft(IF Balance(r) > 0 THEN Updated(k, l, RotateRight(r)) ELSE t)
    ELSE t

(* Nothing is rebalanced on the way up when the key was there already. *)
RECURSIVE AvlInsert(_, _)
AvlInsert(t, k) ==
    IF t = NoNode THEN <<k, NoNode, NoNode, 1>>
    ELSE IF k = t[1] THEN t
    ELSE LET l == IF k < t[1] THEN AvlInsert(t[2], k) ELSE t[2]
             r == IF k > t[1] THEN AvlInsert(t[3], k) ELSE t[3]
         IN  IF l = t[2] /\ r = t[3] THEN t ELSE Rebalanced(t[1], l, r)

RECURSIVE Least(_), Greatest(_)
Least(t) == IF t[2] = NoNode THEN t[1] ELSE Least(t[2])
Greatest(t) == IF t[3] = NoNode THEN t[1] ELSE Greatest(t[3])

RECURSIVE AvlDelete(_, _)
AvlDelete(t, k) ==
    IF t = NoNode THEN NoNode
    ELSE IF k = t[1]
    THEN IF t[2] = NoNode THEN t[3]
         ELSE IF t[3] = NoNode THEN t[2]
         ELSE Rebalanced(Least(t[3]), t[2], AvlDelete(t[3], Least(t[3])))
    ELSE LET l == IF k < t[1] THEN AvlDelete(t[2], k) ELSE t[2]
             r == IF k > t[1] THEN AvlDelete(t[3], k) ELSE t[3]
         IN  IF l = t[2] /\ r = t[3] THEN t ELSE Rebalanced(t[1], l, r)

-----------------------------------------------------------------------------
(* Treap: <<key, left, right, size, priority>>. *)
SizeAt(t) == IF t = NoNode THEN 0 ELSE t[4]
Sized(k, l, r, p) == <<k, l, r, 1 + SizeAt(l) + SizeAt(r), p>>
TurnRight(t) == LET x == t[2] IN Sized(x[1], x[2], Sized(t[1], x[3], t[3], t[5]), x[5])
TurnLeft(t) == LET x == t[3] IN Sized(x[1], Sized(t[1], t[2], x[2], t[5]), x[3], x[5])

RECURSIVE TreapInsert(_, _, _)
TreapInsert(t, k, p) ==
    IF t = NoNode THEN <<k, NoNode, NoNode, 1, p>>
    ELSE IF k = t[1] THEN t
    ELSE IF k < t[1]
    THEN LET n == Sized(t[1], TreapInsert(t[2], k, p), t[3], t[5])
         IN  IF n[2][5] > n[5] THEN TurnRight(n) ELSE n
    ELSE LET n == Sized(t[1], t[2], TreapInsert(t[3], k, p), t[5])
         IN  IF n[3][5] > n[5] THEN TurnLeft(n) ELSE n

RECURSIVE Joined(_, _)
Joined(l, r) ==
    IF l = NoNode \/ r = NoNode THEN (IF l = NoNode THEN r ELSE l)
    ELSE IF l[5] > r[5] THEN Sized(l[1], l[2], Joined(l[3], r), l[5])
    ELSE Sized(r[1], Joined(l, r[2]), r[3], r[5])

RECURSIVE TreapDelete(_, _)
TreapDelete(t, k) ==
    IF t = NoNode THEN NoNode
    ELSE IF k = t[1] THEN Joined(t[2], t[3])
    ELSE IF k < t[1] THEN Sized(t[1], TreapDelete(t[2], k), t[3], t[5])
    ELSE Sized(t[1], t[2], TreapDelete(t[3], k), t[5])

(* rank and select go by the sizes. *)
RECURSIVE RankOf(_, _), Select(_, _)
RankOf(t, k) ==
    IF t = NoNode THEN 0
    ELSE IF k > t[1] THEN SizeAt(t[2]) + 1 + RankOf(t[3], k) ELSE RankOf(t[2], k)
Select(t, i) ==
    IF i < SizeAt(t[2]) THEN Select(t[2], i)
    ELSE IF i = SizeAt(t[2]) THEN t[1] ELSE Select(t[3], i - SizeAt(t[2]) - 1)

-----------------------------------------------------------------------------
(* Scapegoat: <<key, left, right>>, and sizes are counted when needed. *)
RECURSIVE InOrder(_)
InOrder(t) == IF t = NoNode THEN <<>> ELSE InOrder(t[2]) \o <<t[1]>> \o InOrder(t[3])
SizeOf(t) == Len(InOrder(t))

RECURSIVE BuildBalanced(_)
BuildBalanced(s) ==
    LET mid == Len(s) \div 2 + 1 IN
    IF s = <<>> THEN NoNode
    ELSE <<s[mid], BuildBalanced(SubSeq(s, 1, mid - 1)), BuildBalanced(SubSeq(s, mid + 1, Len(s)))>>

(* The integer part of the logarithm of n to the base 1/alpha. *)
HeightBound(n) ==
    IF n <= 1 THEN 0
    ELSE CHOOSE h \in 0..(AlphaUnder * n) :
            /\ AlphaUnder ^ h <= n * AlphaOver ^ h
            /\ AlphaUnder ^ (h + 1) > n * AlphaOver ^ (h + 1)

RECURSIVE Hang(_, _), DepthOf(_, _), Rebuilt(_, _), Unlink(_, _)
Hang(t, k) ==
    IF t = NoNode THEN <<k, NoNode, NoNode>>
    ELSE IF k < t[1] THEN <<t[1], Hang(t[2], k), t[3]>> ELSE <<t[1], t[2], Hang(t[3], k)>>
DepthOf(t, k) ==
    IF t[1] = k THEN 0 ELSE 1 + IF k < t[1] THEN DepthOf(t[2], k) ELSE DepthOf(t[3], k)

(* The first ancestor of k, from below, one of whose children is too heavy;  *)
(* rebuilding it always changes it.                                          *)
Rebuilt(t, k) ==
    IF t[1] = k THEN t
    ELSE LET child == IF k < t[1] THEN t[2] ELSE t[3]
             new == Rebuilt(child, k)
         IN  IF new # child
             THEN IF k < t[1] THEN <<t[1], new, t[3]>> ELSE <<t[1], t[2], new>>
             ELSE IF AlphaUnder * SizeOf(child) > AlphaOver * SizeOf(t)
             THEN BuildBalanced(InOrder(t)) ELSE t

Unlink(t, k) ==
    IF k < t[1] THEN <<t[1], Unlink(t[2], k), t[3]>>
    ELSE IF k > t[1] THEN <<t[1], t[2], Unlink(t[3], k)>>
    ELSE IF t[2] # NoNode /\ t[3] # NoNode THEN <<Least(t[3]), t[2], Unlink(t[3], Least(t[3]))>>
    ELSE IF t[2] # NoNode THEN t[2] ELSE t[3]

ScapegoatInsert(t, k) ==
    LET hung == Hang(t, k) IN
    IF DepthOf(hung, k) > HeightBound(SizeOf(hung)) THEN Rebuilt(hung, k) ELSE hung

Shrunk(n) == AlphaUnder * n <= AlphaOver * highWater

-----------------------------------------------------------------------------
(* Splay: <<key, left, right>>. _splay goes down from t; what it passes is   *)
(* hung to a left and a right tree, each where the last one left off.        *)
RECURSIVE SplayOn(_, _, _, _)
SplayOn(t, k, smaller, larger) ==
    LET Assembled(n) ==
            <<n[1],
              FoldRight(LAMBDA x, acc : <<x[1], x[2], acc>>, smaller, n[2]),
              FoldRight(LAMBDA x, acc : <<x[1], acc, x[3]>>, larger, n[3])>>
        y == IF k < t[1] THEN t[2] ELSE t[3]
        turned == IF k < t[1] THEN <<y[1], y[2], <<t[1], y[3], t[3]>>>>
                  ELSE <<y[1], <<t[1], t[2], y[2]>>, y[3]>>
        again == IF k < t[1] THEN k < y[1] ELSE k > y[1]
        n == IF again THEN turned ELSE t
        next == IF k < t[1] THEN n[2] ELSE n[3]
    IN  IF k = t[1] \/ y = NoNode THEN Assembled(t)
        ELSE IF next = NoNode THEN Assembled(n)
        ELSE IF k < t[1] THEN SplayOn(next, k, smaller, Append(larger, n))
        ELSE SplayOn(next, k, Append(smaller, n), larger)

Splay(t, k) == SplayOn(t, k, <<>>, <<>>)

SplayInsert(t, k) ==
    IF t = NoNode THEN <<k, NoNode, NoNode>>
    ELSE LET s == Splay(t, k) IN
         IF s[1] = k THEN s
         ELSE IF k < s[1] THEN <<k, s[2], <<s[1], NoNode, s[3]>>>>
         ELSE <<k, <<s[1], s[2], NoNode>>, s[3]>>

SplayDelete(t, k) ==
    IF t = NoNode THEN NoNode
    ELSE LET s == Splay(t, k) IN
         IF s[1] # k THEN s
         ELSE IF s[2] = NoNode THEN s[3]
         ELSE LET l == Splay(s[2], k) IN <<l[1], l[2], s[3]>>

(* predecessor and successor, of the AVL tree as well; 0 for none. *)
RECURSIVE Predecessor(_, _, _), Successor(_, _, _)
Predecessor(t, k, best) ==
    IF t = NoNode THEN best
    ELSE IF t[1] < k THEN Predecessor(t[3], k, t[1]) ELSE Predecessor(t[2], k, best)
Successor(t, k, best) ==
    IF t = NoNode THEN best
    ELSE IF t[1] > k THEN Successor(t[2], k, t[1]) ELSE Successor(t[3], k, best)

-----------------------------------------------------------------------------
TreeInit ==
    /\ treeKind \in TreeKinds
    /\ root = NoNode /\ highWater = 0 /\ keysIn = {} /\ touched = 0

Keys == TreeKeys[treeKind]

InsertKey(k) ==
    /\ root' \in
         CASE treeKind = "avl" -> {AvlInsert(root, k)}
           [] treeKind = "treap" -> {TreapInsert(root, k, p) : p \in Priorities}
           [] treeKind = "scapegoat" -> {IF k \in keysIn THEN root ELSE ScapegoatInsert(root, k)}
           [] treeKind = "splay" -> {SplayInsert(root, k)}
    /\ keysIn' = keysIn \cup {k}
    /\ highWater' = IF treeKind = "scapegoat" /\ Cardinality(keysIn') > highWater
                    THEN Cardinality(keysIn') ELSE highWater
    /\ touched' = IF treeKind = "splay" THEN k ELSE 0
    /\ UNCHANGED treeKind

DeleteKey(k) ==
    /\ keysIn' = keysIn \ {k}
    /\ LET rebuild == treeKind = "scapegoat" /\ k \in keysIn /\ Shrunk(Cardinality(keysIn')) IN
       /\ root' =
            CASE treeKind = "avl" -> AvlDelete(root, k)
              [] treeKind = "treap" -> TreapDelete(root, k)
              [] treeKind = "scapegoat" ->
                   IF k \notin keysIn THEN root
                   ELSE IF rebuild THEN BuildBalanced(InOrder(Unlink(root, k))) ELSE Unlink(root, k)
              [] treeKind = "splay" -> SplayDelete(root, k)
       /\ highWater' = IF rebuild THEN Cardinality(keysIn') ELSE highWater
    /\ touched' = IF treeKind = "splay" THEN k ELSE 0
    /\ UNCHANGED treeKind

(* find, contains, min, max, predecessor and successor of a splay tree turn  *)
(* it towards what they were asked for, or found.                            *)
LookUpKey(k) ==
    /\ treeKind = "splay" /\ root # NoNode
    /\ \E found \in {k, Least(root), Greatest(root), Predecessor(root, k, 0), Successor(root, k, 0)} \ {0} :
          root' = Splay(root, found) /\ touched' = found
    /\ UNCHANGED <<treeKind, highWater, keysIn>>

ClearTree ==
    /\ root' = NoNode /\ highWater' = 0 /\ keysIn' = {} /\ touched' = 0
    /\ UNCHANGED treeKind

TreeNext == ClearTree \/ \E k \in Keys : InsertKey(k) \/ DeleteKey(k) \/ LookUpKey(k)

TreeSpec == TreeInit /\ [][TreeNext]_treeVars

-----------------------------------------------------------------------------
RECURSIVE NodesOf(_)
NodesOf(t) == IF t = NoNode THEN {} ELSE {t} \cup NodesOf(t[2]) \cup NodesOf(t[3])

Deepest(t) == LET d == {DepthOf(t, n[1]) : n \in NodesOf(t)} IN CHOOSE x \in d : \A y \in d : y <= x

(* Whatever was inserted, deleted and looked up, in any order, a tree holds  *)
(* exactly its keys, in order, and answers by them; and it keeps the shape   *)
(* its kind promises: an AVL tree no two subtrees whose heights differ by    *)
(* more than one, a treap no child above its parent's priority, a scapegoat  *)
(* tree no node more than one below the bound, a splay tree the key last     *)
(* asked for at the root.                                                    *)
TreesAgree ==
    /\ LET s == InOrder(root) IN ToSet(s) = keysIn /\ \A i \in 2..Len(s) : s[i - 1] < s[i]
    /\ treeKind = "avl" =>
         /\ \A n \in NodesOf(root) : Balance(n) \in -1..1 /\ n = Updated(n[1], n[2], n[3])
         /\ \A k \in Keys : Successor(root, k, 0) =
              LET above == {x \in keysIn : x > k} IN
              IF above = {} THEN 0 ELSE CHOOSE x \in above : \A y \in above : x <= y
    /\ treeKind = "treap" =>
         /\ \A n \in NodesOf(root) : \A i \in {2, 3} : n[i] # NoNode => n[i][5] <= n[5]
         /\ \A k \in keysIn : LET r == RankOf(root, k) IN
              r = Cardinality({x \in keysIn : x < k}) /\ Select(root, r) = k
    /\ treeKind = "scapegoat" /\ root # NoNode => Deepest(root) <= HeightBound(Cardinality(keysIn)) + 1
    /\ treeKind = "splay" /\ touched \in keysIn => root[1] = touched

-----------------------------------------------------------------------------
(* The B-tree. A node is <<keys, children>>, a leaf has no children.         *)
CONSTANTS BKeys, MinDegree

ASSUME BTreeAssumption == BKeys \subseteq Int /\ MinDegree \in Nat /\ MinDegree >= 2

VARIABLES
    bRoot,   \* the root node
    bHeld    \* the keys the tree should hold

bVars == <<bRoot, bHeld>>

BKeysOf(x) == x[1]
Children(x) == x[2]
IsLeaf(x) == Children(x) = <<>>
Full(x) == Len(BKeysOf(x)) = 2 * MinDegree - 1
CanGive(x) == Len(BKeysOf(x)) >= MinDegree

(* Where the walk over a node's keys stops: the first that is not smaller. *)
Place(x, k) ==
    CHOOSE i \in 1..(Len(BKeysOf(x)) + 1) :
        /\ \A j \in 1..(i - 1) : BKeysOf(x)[j] < k
        /\ i <= Len(BKeysOf(x)) => BKeysOf(x)[i] >= k

-----------------------------------------------------------------------------
(* _split_child: the middle key goes up, between two halves. *)
SplitChild(x, i) ==
    LET t == MinDegree
        y == Children(x)[i]
        low == <<SubSeq(BKeysOf(y), 1, t - 1),
                 IF IsLeaf(y) THEN <<>> ELSE SubSeq(Children(y), 1, t)>>
        high == <<SubSeq(BKeysOf(y), t + 1, 2 * t - 1),
                  IF IsLeaf(y) THEN <<>> ELSE SubSeq(Children(y), t + 1, 2 * t)>>
    IN  <<InsertAt(BKeysOf(x), i, BKeysOf(y)[t]),
          InsertAt([Children(x) EXCEPT ![i] = low], i + 1, high)>>

RECURSIVE InsertNonfull(_, _)
InsertNonfull(x, k) ==
    LET i == Place(x, k)
        s == IF Full(Children(x)[i]) THEN SplitChild(x, i) ELSE x
        j == IF s # x /\ k > BKeysOf(s)[i] THEN i + 1 ELSE i
    IN  IF IsLeaf(x) THEN <<InsertAt(BKeysOf(x), i, k), <<>>>>
        ELSE <<BKeysOf(s), [Children(s) EXCEPT ![j] = InsertNonfull(@, k)]>>

InsertB(k) ==
    /\ bRoot' = IF k \in bHeld THEN bRoot
                ELSE IF Full(bRoot) THEN InsertNonfull(SplitChild(<<<<>>, <<bRoot>>>>, 1), k)
                ELSE InsertNonfull(bRoot, k)
    /\ bHeld' = bHeld \cup {k}

-----------------------------------------------------------------------------
RECURSIVE SubtreeMin(_), SubtreeMax(_)
SubtreeMin(x) == IF IsLeaf(x) THEN BKeysOf(x)[1] ELSE SubtreeMin(Children(x)[1])
SubtreeMax(x) == IF IsLeaf(x) THEN Last(BKeysOf(x)) ELSE SubtreeMax(Last(Children(x)))

(* _merge: two children and the key between them become one. *)
MergeChildren(x, i) ==
    LET y == Children(x)[i]
        z == Children(x)[i + 1]
    IN  <<RemoveAt(BKeysOf(x), i),
          [RemoveAt(Children(x), i + 1) EXCEPT ![i] =
              <<BKeysOf(y) \o <<BKeysOf(x)[i]>> \o BKeysOf(z), Children(y) \o Children(z)>>]>>

FromLeft(x, i) ==
    LET y == Children(x)[i]
        l == Children(x)[i - 1]
    IN  <<[BKeysOf(x) EXCEPT ![i - 1] = Last(BKeysOf(l))],
          [Children(x) EXCEPT
              ![i - 1] = <<Front(BKeysOf(l)), IF IsLeaf(l) THEN <<>> ELSE Front(Children(l))>>,
              ![i] = <<<<BKeysOf(x)[i - 1]>> \o BKeysOf(y),
                       IF IsLeaf(y) THEN <<>> ELSE <<Last(Children(l))>> \o Children(y)>>]>>

FromRight(x, i) ==
    LET y == Children(x)[i]
        r == Children(x)[i + 1]
    IN  <<[BKeysOf(x) EXCEPT ![i] = BKeysOf(r)[1]],
          [Children(x) EXCEPT
              ![i] = <<Append(BKeysOf(y), BKeysOf(x)[i]),
                       IF IsLeaf(y) THEN <<>> ELSE Append(Children(y), Children(r)[1])>>,
              ![i + 1] = <<Tail(BKeysOf(r)), IF IsLeaf(r) THEN <<>> ELSE Tail(Children(r))>>]>>

(* _ensure_child: the node and the child to go down to, which then has a key *)
(* to spare: borrowed from the left, from the right, or merged.              *)
EnsureChild(x, i) ==
    LET n == Len(Children(x)) IN
    IF CanGive(Children(x)[i]) THEN <<x, i>>
    ELSE IF i > 1 /\ CanGive(Children(x)[i - 1]) THEN <<FromLeft(x, i), i>>
    ELSE IF i < n /\ CanGive(Children(x)[i + 1]) THEN <<FromRight(x, i), i>>
    ELSE IF i < n THEN <<MergeChildren(x, i), i>>
    ELSE <<MergeChildren(x, i - 1), i - 1>>

RECURSIVE DeleteFrom(_, _)
DeleteFrom(x, k) ==
    LET i == Place(x, k)
        here == i <= Len(BKeysOf(x)) /\ BKeysOf(x)[i] = k
        Down(y, j, key) == <<BKeysOf(y), [Children(y) EXCEPT ![j] = DeleteFrom(@, key)]>>
        l == Children(x)[i]
        r == Children(x)[i + 1]
    IN  CASE here /\ IsLeaf(x) -> <<RemoveAt(BKeysOf(x), i), <<>>>>
          [] here /\ ~IsLeaf(x) /\ CanGive(l) ->
               Down(<<[BKeysOf(x) EXCEPT ![i] = SubtreeMax(l)], Children(x)>>, i, SubtreeMax(l))
          [] here /\ ~IsLeaf(x) /\ ~CanGive(l) /\ CanGive(r) ->
               Down(<<[BKeysOf(x) EXCEPT ![i] = SubtreeMin(r)], Children(x)>>, i + 1, SubtreeMin(r))
          [] here /\ ~IsLeaf(x) /\ ~CanGive(l) /\ ~CanGive(r) -> Down(MergeChildren(x, i), i, k)
          [] ~here /\ IsLeaf(x) -> x
          [] OTHER -> LET e == EnsureChild(x, i) IN Down(e[1], e[2], k)

(* A root without keys makes way for its only child. *)
DeleteB(k) ==
    /\ bRoot' = IF k \notin bHeld THEN bRoot
                ELSE LET x == DeleteFrom(bRoot, k) IN
                     IF ~IsLeaf(x) /\ BKeysOf(x) = <<>> THEN Children(x)[1] ELSE x
    /\ bHeld' = bHeld \ {k}

ClearB == bRoot' = <<<<>>, <<>>>> /\ bHeld' = {}

BInit == bRoot = <<<<>>, <<>>>> /\ bHeld = {}
BNext == ClearB \/ \E k \in BKeys : InsertB(k) \/ DeleteB(k)
BSpec == BInit /\ [][BNext]_bVars

-----------------------------------------------------------------------------
RECURSIVE Walk(_), Depths(_), BNodes(_)
Walk(x) ==
    IF IsLeaf(x) THEN BKeysOf(x)
    ELSE FlattenSeq([i \in 1..Len(Children(x)) |->
             Walk(Children(x)[i]) \o (IF i <= Len(BKeysOf(x)) THEN <<BKeysOf(x)[i]>> ELSE <<>>)])
Depths(x) ==
    IF IsLeaf(x) THEN {0} ELSE {d + 1 : d \in UNION {Depths(Children(x)[i]) : i \in 1..Len(Children(x))}}
BNodes(x) == {x} \cup UNION {BNodes(Children(x)[i]) : i \in 1..Len(Children(x))}

(* Whatever was inserted and deleted, in any order, the B-tree holds exactly *)
(* its keys, in order, with one more child than keys in every inner node, no *)
(* node but the root less than half full, and all leaves at one depth.       *)
BTreeAgrees ==
    /\ LET s == Walk(bRoot) IN ToSet(s) = bHeld /\ \A i \in 2..Len(s) : s[i - 1] < s[i]
    /\ Cardinality(Depths(bRoot)) = 1
    /\ \A x \in BNodes(bRoot) :
         /\ ~IsLeaf(x) => Len(Children(x)) = Len(BKeysOf(x)) + 1
         /\ Len(BKeysOf(x)) \in (IF x = bRoot THEN 0 ELSE MinDegree - 1)..(2 * MinDegree - 1)
=============================================================================
