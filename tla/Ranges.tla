-------------------------------- MODULE Ranges --------------------------------
(* The arrays with range queries of core/: fenwick.py, segtree.py,           *)
(* lazy_segment_tree.py, sparse_segment_tree.py and sqrt_decomposition.py.   *)
(* Each method runs under the structure's lock, so it is one step; the       *)
(* structure stands beside the plain array it should answer for. Cells are   *)
(* counted from 0 here, as in the last three. A loop, like a recursion, is a *)
(* function of where it has come to and what it has made so far.             *)
EXTENDS Integers, FiniteSets, FiniteSetsExt

CONSTANTS
    RangeKinds, CellCounts,        \* how many cells, at first and after a resize
    CellValues, Deltas,
    Infinity,                      \* float("inf"): no cell holds more
    MaxRangeCalls                  \* bound

ASSUME RangeAssumption ==
    /\ RangeKinds \subseteq {"fenwick", "sum", "min", "max", "lazy", "sparse", "sqrt"}
    /\ CellCounts \subseteq Nat \ {0} /\ Deltas \subseteq Int /\ MaxRangeCalls \in Nat
    /\ Infinity \in Nat /\ CellValues \subseteq -Infinity..Infinity

VARIABLES
    rangeKind,    \* "sum", "min" and "max" are the modes of segtree.py
    cells,        \* 0..n-1 -> value: what the structure should hold
    structure,    \* the structure
    rangeCalls

rangeVars == <<rangeKind, cells, structure, rangeCalls>>

Size(f) == Cardinality(DOMAIN f)
Smaller(a, b) == IF a < b THEN a ELSE b
Greater(a, b) == IF a > b THEN a ELSE b

(* What a range of a plain array sums to. *)
SumOf(c, lo, hi) ==
    LET from[i \in lo..(hi + 1)] == IF i > hi THEN 0 ELSE c[i] + from[i + 1]
    IN  from[lo]

-----------------------------------------------------------------------------
(* Fenwick tree: 1..n -> partial sum; i & -i is the lowest bit of i. *)
LowBit[i \in Nat \ {0}] == IF i % 2 = 1 THEN 1 ELSE 2 * LowBit[i \div 2]

PrefixSum(t, i) ==
    LET total[j \in 0..i] == IF j = 0 THEN 0 ELSE t[j] + total[j - LowBit[j]]
    IN  total[i]

AddAt(t, i, d) ==
    LET n == Size(t)
        slots[j \in 1..(2 * n)] == IF j > n THEN {} ELSE {j} \cup slots[j + LowBit[j]]
    IN  [j \in 1..n |-> IF j \in slots[i] THEN t[j] + d ELSE t[j]]

(* resize: the values that stay are read off the old tree. *)
FenwickResized(t, n) ==
    LET keep == Smaller(Size(t), n)
        upTo[k \in 0..keep] ==
            IF k = 0 THEN [i \in 1..n |-> 0]
            ELSE AddAt(upTo[k - 1], k, PrefixSum(t, k) - PrefixSum(t, k - 1))
    IN  upTo[keep]

-----------------------------------------------------------------------------
(* Segment tree without recursion: 1..2n-1 -> value, the leaves from n on. *)
Combine(a, b) ==
    CASE rangeKind = "sum" -> a + b
      [] rangeKind = "min" -> IF a < b THEN a ELSE b
      [] rangeKind = "max" -> IF a > b THEN a ELSE b
Identity == CASE rangeKind = "sum" -> 0 [] rangeKind = "min" -> Infinity [] rangeKind = "max" -> -Infinity

Combined(t, x) == [t EXCEPT ![x] = Combine(t[2 * x], t[2 * x + 1])]

Recombined(t, x) ==
    LET up[y \in 0..x] == [u \in [DOMAIN t -> Int] |-> IF y = 0 THEN u ELSE up[y \div 2][Combined(u, y)]]
    IN  up[x][t]

RangeOf(t, lo, hi) ==
    LET n == (Size(t) + 1) \div 2
        ask[v \in (1..(2 * n)) \X (1..(2 * n))] ==
            LET l == v[1]
                r == v[2]
                first(res) == IF l % 2 = 1 THEN Combine(res, t[l]) ELSE res
                both(res) == IF r % 2 = 1 THEN Combine(first(res), t[r - 1]) ELSE first(res)
            IN  [res \in Int |-> IF l >= r THEN res ELSE ask[<<(l + 1) \div 2, r \div 2>>][both(res)]]
    IN  ask[<<lo + n, hi + 1 + n>>][Identity]

SegResized(t, n) ==
    LET old == (Size(t) + 1) \div 2
        down[x \in 1..n] ==
            IF x = n THEN [y \in 1..(2 * n - 1) |-> IF y >= n /\ y - n < old THEN t[y - n + old] ELSE 0]
            ELSE Combined(down[x + 1], x)
    IN  down[1]

-----------------------------------------------------------------------------
(* The two trees over halves of 0..n-1 name a node by the cells <<l, r>> it  *)
(* covers, as every node covers cells of its own.                            *)
Spans(n) == {v \in (0..(n - 1)) \X (0..(n - 1)) : v[1] <= v[2]}
Mid(v) == (v[1] + v[2]) \div 2
LeftHalf(v) == <<v[1], Mid(v)>>
RightHalf(v) == <<Mid(v) + 1, v[2]>>
Width(v) == v[2] - v[1] + 1
Within(v, lo, hi) == lo <= v[1] /\ v[2] <= hi
Apart(v, lo, hi) == hi < v[1] \/ v[2] < lo

(* Lazy segment tree: per node its sum, min and max, and what its children   *)
(* have yet to be told: a value to take, or something to add.                *)
LazyNode == [sum : Int, min : Int, max : Int, add : Int, assigned : BOOLEAN, assign : Int]
LazyTrees(n) == [Spans(n) -> LazyNode]

ApplyAssign(v, len) ==
    [sum |-> v * len, min |-> v, max |-> v, add |-> 0, assigned |-> TRUE, assign |-> v]

(* A bug: a pending assignment is not told of what was added to it. *)
MutApplyAdd(x, d, len) ==
    [sum |-> x.sum + d * len, min |-> x.min + d, max |-> x.max + d,
     add |-> IF x.assigned THEN x.add ELSE x.add + d, assigned |-> x.assigned, assign |-> x.assign]

ApplyAdd(x, d, len) ==
    [sum |-> x.sum + d * len, min |-> x.min + d, max |-> x.max + d,
     add |-> IF x.assigned THEN x.add ELSE x.add + d, assigned |-> x.assigned,
     assign |-> IF x.assigned THEN x.assign + d ELSE x.assign]

Told(parent, x, len) ==
    LET taken == IF parent.assigned THEN ApplyAssign(parent.assign, len) ELSE x
    IN  IF parent.add = 0 THEN taken ELSE ApplyAdd(taken, parent.add, len)

Push(t, v) ==
    [u \in DOMAIN t |->
        IF u = v THEN [t[v] EXCEPT !.add = 0, !.assigned = FALSE, !.assign = 0]
        ELSE IF u \in {LeftHalf(v), RightHalf(v)} THEN Told(t[v], t[u], Width(u))
        ELSE t[u]]

Pulled(x, a, b) ==
    [x EXCEPT !.sum = a.sum + b.sum, !.min = Smaller(a.min, b.min), !.max = Greater(a.max, b.max)]
Pull(t, v) == [t EXCEPT ![v] = Pulled(@, t[LeftHalf(v)], t[RightHalf(v)])]

UpdateLazy(t, n, lo, hi, op, d) ==
    LET update[v \in Spans(n)] == [u \in LazyTrees(n) |->
            IF Apart(v, lo, hi) THEN u
            ELSE IF Within(v, lo, hi)
            THEN [u EXCEPT ![v] = IF op = "assign" THEN ApplyAssign(d, Width(v))
                                  ELSE ApplyAdd(u[v], d, Width(v))]
            ELSE Pull(update[RightHalf(v)][update[LeftHalf(v)][Push(u, v)]], v)]
    IN  update[<<0, n - 1>>][t]

(* _query tells the children on its way as well: the answer, and the tree. *)
AskLazy(t, n, lo, hi) ==
    LET ask[v \in {w \in Spans(n) : ~Apart(w, lo, hi)}] == [u \in LazyTrees(n) |->
            IF Within(v, lo, hi)
            THEN [tree |-> u, sum |-> u[v].sum, min |-> u[v].min, max |-> u[v].max]
            ELSE IF hi <= Mid(v) THEN ask[LeftHalf(v)][Push(u, v)]
            ELSE IF lo > Mid(v) THEN ask[RightHalf(v)][Push(u, v)]
            ELSE LET first == ask[LeftHalf(v)][Push(u, v)]
                     second == ask[RightHalf(v)][first.tree]
                 IN  [tree |-> second.tree, sum |-> first.sum + second.sum,
                      min |-> Smaller(first.min, second.min), max |-> Greater(first.max, second.max)]]
    IN  ask[<<0, n - 1>>][t]

BuildLazy(c) ==
    LET node[v \in Spans(Size(c))] ==
            IF v[1] = v[2]
            THEN [sum |-> c[v[1]], min |-> c[v[1]], max |-> c[v[1]],
                  add |-> 0, assigned |-> FALSE, assign |-> 0]
            ELSE Pulled([add |-> 0, assigned |-> FALSE, assign |-> 0, sum |-> 0, min |-> 0, max |-> 0],
                        node[LeftHalf(v)], node[RightHalf(v)])
    IN  node

-----------------------------------------------------------------------------
(* Sparse segment tree: the sums of the nodes there are. *)
Toward(v, i) == IF i <= Mid(v) THEN LeftHalf(v) ELSE RightHalf(v)

RouteTo(n, i) ==
    LET path[v \in Spans(n)] == IF v[1] = v[2] THEN {v} ELSE {v} \cup path[Toward(v, i)]
    IN  path[<<0, n - 1>>]

SparseAdd(t, n, i, d) ==
    [v \in DOMAIN t \cup RouteTo(n, i) |->
        (IF v \in DOMAIN t THEN t[v] ELSE 0) + (IF v \in RouteTo(n, i) THEN d ELSE 0)]

SparsePoint(t, n, i) ==
    LET at[v \in Spans(n)] ==
            IF v \notin DOMAIN t THEN 0 ELSE IF v[1] = v[2] THEN t[v] ELSE at[Toward(v, i)]
    IN  at[<<0, n - 1>>]

SparseSum(t, n, lo, hi) ==
    LET sum[v \in Spans(n)] ==
            IF v \notin DOMAIN t \/ Apart(v, lo, hi) THEN 0
            ELSE IF Within(v, lo, hi) THEN t[v]
            ELSE sum[LeftHalf(v)] + sum[RightHalf(v)]
    IN  sum[<<0, n - 1>>]

-----------------------------------------------------------------------------
(* Square-root decomposition: the cells, and per block a sum and a tag. *)
BlockSize(n) == CHOOSE b \in 1..n : b * b <= n /\ (b + 1) * (b + 1) > n
BlockOf(n, i) == i \div BlockSize(n)
Blocks(n) == 0..BlockOf(n, n - 1)
BlockEnd(n, b) == Smaller(b * BlockSize(n) + BlockSize(n), n) - 1
WholeBlock(n, i, hi) == i = BlockOf(n, i) * BlockSize(n) /\ BlockEnd(n, BlockOf(n, i)) <= hi

SqrtState(n) == [a : [0..(n - 1) -> Int], sum : [Blocks(n) -> Int], tag : [Blocks(n) -> Int]]

SqrtAdd(s, n, lo, hi, d) ==
    LET add[i \in lo..(hi + 1)] == [u \in SqrtState(n) |->
            LET b == BlockOf(n, i) IN
            IF i > hi THEN u
            ELSE IF WholeBlock(n, i, hi) THEN add[BlockEnd(n, b) + 1][[u EXCEPT !.tag[b] = @ + d]]
            ELSE add[i + 1][[u EXCEPT !.a[i] = @ + d, !.sum[b] = @ + d]]]
    IN  add[lo][s]

SqrtSum(s, n, lo, hi) ==
    LET from[i \in lo..(hi + 1)] ==
            LET b == BlockOf(n, i) IN
            IF i > hi THEN 0
            ELSE IF WholeBlock(n, i, hi)
            THEN s.sum[b] + s.tag[b] * (BlockEnd(n, b) + 1 - i) + from[BlockEnd(n, b) + 1]
            ELSE s.a[i] + s.tag[b] + from[i + 1]
    IN  from[lo]

SqrtSet(s, n, i, v) ==
    LET d == v - (s.a[i] + s.tag[BlockOf(n, i)])
    IN  [s EXCEPT !.a[i] = @ + d, !.sum[BlockOf(n, i)] = @ + d]

SqrtBuilt(c) ==
    LET n == Size(c)
    IN  [a |-> c, tag |-> [b \in Blocks(n) |-> 0],
         sum |-> [b \in Blocks(n) |-> SumOf(c, b * BlockSize(n), BlockEnd(n, b))]]

-----------------------------------------------------------------------------
Length == Size(cells)

RangeInit ==
    /\ rangeKind \in RangeKinds /\ rangeCalls = 0
    /\ \E n \in CellCounts :
          /\ cells = [i \in 0..(n - 1) |-> IF rangeKind \in {"lazy", "sqrt"} THEN i ELSE 0]
          /\ structure =
                CASE rangeKind = "fenwick" -> [i \in 1..n |-> 0]
                  [] rangeKind \in {"sum", "min", "max"} -> [x \in 1..(2 * n - 1) |-> 0]
                  [] rangeKind = "lazy" -> BuildLazy(cells)
                  [] rangeKind = "sparse" -> [v \in {} |-> 0]
                  [] rangeKind = "sqrt" -> SqrtBuilt(cells)

RangeCall == rangeCalls < MaxRangeCalls /\ rangeCalls' = rangeCalls + 1 /\ UNCHANGED rangeKind

(* range_add, and update where it adds to one cell. *)
AddToRange(lo, hi, d) ==
    /\ RangeCall /\ lo <= hi /\ (rangeKind \in {"fenwick", "sparse"} => lo = hi)
    /\ cells' = [i \in DOMAIN cells |-> IF i \in lo..hi THEN cells[i] + d ELSE cells[i]]
    /\ \/ rangeKind = "fenwick" /\ structure' = AddAt(structure, lo + 1, d)
       \/ rangeKind = "sparse" /\ structure' = SparseAdd(structure, Length, lo, d)
       \/ rangeKind = "lazy" /\ structure' = UpdateLazy(structure, Length, lo, hi, "add", d)
       \/ rangeKind = "sqrt" /\ structure' = SqrtAdd(structure, Length, lo, hi, d)

(* range_assign, point_assign, and update where it sets one cell. *)
SetRange(lo, hi, v) ==
    /\ RangeCall /\ lo <= hi /\ (rangeKind # "lazy" => lo = hi)
    /\ cells' = [i \in DOMAIN cells |-> IF i \in lo..hi THEN v ELSE cells[i]]
    /\ \/ rangeKind \in {"sum", "min", "max"}
          /\ structure' = Recombined([structure EXCEPT ![lo + Length] = v], (lo + Length) \div 2)
       \/ rangeKind = "sparse"
          /\ structure' = SparseAdd(structure, Length, lo, v - SparsePoint(structure, Length, lo))
       \/ rangeKind = "lazy" /\ structure' = UpdateLazy(structure, Length, lo, hi, "assign", v)
       \/ rangeKind = "sqrt" /\ structure' = SqrtSet(structure, Length, lo, v)

(* A query of a lazy tree tells nodes what they had yet to be told. *)
QueryRange(lo, hi) ==
    /\ rangeKind = "lazy" /\ RangeCall /\ lo <= hi
    /\ structure' = AskLazy(structure, Length, lo, hi).tree
    /\ UNCHANGED cells

Resize(n) ==
    /\ rangeKind \in {"fenwick", "sum", "min", "max"} /\ RangeCall
    /\ cells' = [i \in 0..(n - 1) |-> IF i \in DOMAIN cells THEN cells[i] ELSE 0]
    /\ structure' = IF rangeKind = "fenwick" THEN FenwickResized(structure, n) ELSE SegResized(structure, n)

RangeNext ==
    \/ \E n \in CellCounts : Resize(n)
    \/ \E lo, hi \in DOMAIN cells :
          \/ QueryRange(lo, hi)
          \/ \E d \in Deltas : AddToRange(lo, hi, d)
          \/ \E v \in CellValues : SetRange(lo, hi, v)

RangeSpec == RangeInit /\ [][RangeNext]_rangeVars

-----------------------------------------------------------------------------
Cells(lo, hi) == {cells[i] : i \in lo..hi}

FenwickAgrees(lo, hi) ==
    PrefixSum(structure, hi + 1) - PrefixSum(structure, lo) = SumOf(cells, lo, hi)

SegmentAgrees(lo, hi) ==
    RangeOf(structure, lo, hi) = CASE rangeKind = "sum" -> SumOf(cells, lo, hi)
                                   [] rangeKind = "min" -> Min(Cells(lo, hi))
                                   [] rangeKind = "max" -> Max(Cells(lo, hi))

LazyAgrees(lo, hi) ==
    LET a == AskLazy(structure, Length, lo, hi) IN
    a.sum = SumOf(cells, lo, hi) /\ a.min = Min(Cells(lo, hi)) /\ a.max = Max(Cells(lo, hi))

SparseAgrees(lo, hi) == SparseSum(structure, Length, lo, hi) = SumOf(cells, lo, hi)

SqrtAgrees(lo, hi) == SqrtSum(structure, Length, lo, hi) = SumOf(cells, lo, hi)

(* Whatever was added, assigned and resized, in any order and however much   *)
(* of it has yet to reach the leaves, every range answers as the plain array.*)
RangesAgree ==
    \A lo, hi \in DOMAIN cells : lo <= hi =>
        /\ rangeKind = "fenwick" => FenwickAgrees(lo, hi)
        /\ rangeKind \in {"sum", "min", "max"} => SegmentAgrees(lo, hi)
        /\ rangeKind = "lazy" => LazyAgrees(lo, hi)
        /\ rangeKind = "sparse" => SparseAgrees(lo, hi)
        /\ rangeKind = "sqrt" => SqrtAgrees(lo, hi)
=============================================================================
