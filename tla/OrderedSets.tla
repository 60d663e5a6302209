----------------------------- MODULE OrderedSets -----------------------------
(* core/van_emde_boas.py, core/skiplist.py and core/interval_tree.py. Each   *)
(* method runs under the structure's lock, so it is one step; one structure  *)
(* stands beside the elements it should hold. A value kept with a key        *)
(* changes nothing here and is left out.                                     *)
EXTENDS Integers, Sequences, FiniteSets, FiniteSetsExt, TLC

CONSTANTS
    SetKinds, ElementsOf,          \* kind -> the elements it is used with
    Universe, MaxLevel,            \* of the van Emde Boas tree, of the skip list
    MaxHeld                        \* bound: intervals at a time

ASSUME OrderedAssumption ==
    /\ SetKinds \subseteq {"veb", "skip", "interval"}
    /\ MaxLevel \in Nat \ {0} /\ MaxHeld \in Nat /\ \E k \in 1..16 : Universe = 2^k

VARIABLES
    setKind,
    shape,      \* the structure
    size,       \* _size
    members     \* element -> how many of it the structure should hold

orderedVars == <<setKind, shape, size, members>>

-----------------------------------------------------------------------------
(* van Emde Boas: the smallest element is kept outside the clusters. A node  *)
(* that was never made is as good as an empty one: None is -1.               *)
None == -1
NoClusters == [h \in {} |-> 0]
EmptyVeb(u) == [u |-> u, min |-> None, max |-> None, summary |-> <<>>, clusters |-> NoClusters]

(* lower = 2^(k / 2) of a universe 2^k: how many values a cluster has. *)
RECURSIVE Log(_)
Log(u) == IF u = 1 THEN 0 ELSE 1 + Log(u \div 2)
SubSize(n) == 2^(Log(n.u) \div 2)
High(n, x) == x \div SubSize(n)
Low(n, x) == x % SubSize(n)
Join(n, h, l) == h * SubSize(n) + l
Cluster(n, h) == IF h \in DOMAIN n.clusters THEN n.clusters[h] ELSE EmptyVeb(SubSize(n))
Summary(n) == IF n.summary = <<>> THEN EmptyVeb(n.u \div SubSize(n)) ELSE n.summary

RECURSIVE VebMember(_, _), VebInsert(_, _), VebDelete(_, _)
VebMember(n, x) ==
    IF x = n.min \/ x = n.max THEN TRUE
    ELSE IF n.u <= 2 \/ High(n, x) \notin DOMAIN n.clusters THEN FALSE
    ELSE VebMember(n.clusters[High(n, x)], Low(n, x))

(* The node, and whether the element is new. *)
VebInsert(n, x0) ==
    LET lower == x0 < n.min
        m == IF lower THEN [n EXCEPT !.min = x0] ELSE n
        x == IF lower THEN n.min ELSE x0              \* the old minimum goes down
        h == High(n, x)
        c == Cluster(n, h)
        sub == IF c.min = None
               THEN [node |-> [c EXCEPT !.min = Low(n, x), !.max = Low(n, x)], new |-> TRUE]
               ELSE VebInsert(c, Low(n, x))
    IN  IF n.min = None THEN [node |-> [n EXCEPT !.min = x0, !.max = x0], new |-> TRUE]
        ELSE IF x0 = n.min \/ (~lower /\ x0 = n.max) THEN [node |-> n, new |-> FALSE]
        ELSE IF n.u = 2
        THEN [node |-> IF n.min # n.max THEN n ELSE IF lower THEN m ELSE [n EXCEPT !.max = x0],
              new |-> n.min = n.max]
        ELSE [node |-> [m EXCEPT !.clusters = (h :> sub.node) @@ @,
                                 !.summary = IF c.min = None THEN VebInsert(Summary(n), h).node ELSE @,
                                 !.max = IF x > @ THEN x ELSE @],
              new |-> sub.new]

(* Of an element that is there. *)
VebDelete(n, x0) ==
    LET fc == n.summary.min
        x == IF x0 = n.min THEN Join(n, fc, n.clusters[fc].min) ELSE x0
        h == High(n, x)
        c == VebDelete(n.clusters[h], Low(n, x))
        summary == IF c.min = None THEN VebDelete(n.summary, h) ELSE n.summary
        clusters == IF c.min = None THEN [i \in DOMAIN n.clusters \ {h} |-> n.clusters[i]]
                    ELSE [n.clusters EXCEPT ![h] = c]
        min == IF x0 = n.min THEN x ELSE n.min
        max == IF x # n.max THEN n.max
               ELSE IF c.min # None THEN Join(n, h, c.max)
               ELSE IF summary.max = None THEN min
               ELSE Join(n, summary.max, clusters[summary.max].max)
    IN  IF n.min = n.max THEN [n EXCEPT !.min = None, !.max = None]
        ELSE IF n.u = 2 THEN [n EXCEPT !.min = 1 - x0, !.max = 1 - x0]
        ELSE [n EXCEPT !.min = min, !.max = max, !.summary = summary, !.clusters = clusters]

RECURSIVE VebSuccessor(_, _), VebPredecessor(_, _)
VebSuccessor(n, x) ==
    LET h == High(n, x)
        c == Cluster(n, h)
        sc == IF n.summary = <<>> THEN None ELSE VebSuccessor(n.summary, h)
    IN  IF n.u = 2 THEN (IF x = 0 /\ n.max = 1 THEN 1 ELSE None)
        ELSE IF n.min # None /\ x < n.min THEN n.min
        ELSE IF c.max # None /\ Low(n, x) < c.max THEN Join(n, h, VebSuccessor(c, Low(n, x)))
        ELSE IF sc = None THEN None ELSE Join(n, sc, n.clusters[sc].min)

VebPredecessor(n, x) ==
    LET h == High(n, x)
        c == Cluster(n, h)
        pc == IF n.summary = <<>> THEN None ELSE VebPredecessor(n.summary, h)
    IN  IF n.u = 2 THEN (IF x = 1 /\ n.min = 0 THEN 0 ELSE None)
        ELSE IF n.max # None /\ x > n.max THEN n.max
        ELSE IF c.min # None /\ Low(n, x) > c.min THEN Join(n, h, VebPredecessor(c, Low(n, x)))
        ELSE IF pc # None THEN Join(n, pc, n.clusters[pc].max)
        ELSE IF n.min # None /\ x > n.min THEN n.min ELSE None

-----------------------------------------------------------------------------
(* Skip list: the levels in use, and node -> its forward pointers by level.  *)
(* The head is key 0, and so is the end.                                     *)
SkipNodes == DOMAIN shape.forward

RECURSIVE WalkTo(_, _, _), PredAt(_, _)
WalkTo(node, i, key) ==
    LET next == shape.forward[node][i] IN
    IF next # 0 /\ next < key THEN WalkTo(next, i, key) ELSE node

(* update[i]: the last node before the key on level i. *)
PredAt(i, key) ==
    IF i > shape.level THEN 0
    ELSE WalkTo(IF i = shape.level THEN 0 ELSE PredAt(i + 1, key), i, key)
Found(key) == shape.forward[PredAt(0, key)][0] = key

SkipInsert(key, level) ==
    LET fresh == [i \in 0..level |-> shape.forward[PredAt(i, key)][i]] IN
    [level |-> Max({level, shape.level}),
     forward |-> (key :> fresh) @@
         [n \in SkipNodes |-> [i \in DOMAIN shape.forward[n] |->
             IF i <= level /\ n = PredAt(i, key) THEN key ELSE shape.forward[n][i]]]]

(* The levels at the top that the key was alone on go with it. *)
SkipDelete(key) ==
    LET Skips(n, i) == i <= shape.level /\ n = PredAt(i, key) /\ shape.forward[n][i] = key
                       /\ \A j \in 0..i : shape.forward[PredAt(j, key)][j] = key
        forward == [n \in SkipNodes \ {key} |-> [i \in DOMAIN shape.forward[n] |->
                       IF Skips(n, i) THEN shape.forward[key][i] ELSE shape.forward[n][i]]]
        used == {i \in 1..shape.level : forward[0][i] # 0}
    IN  [level |-> Max(used \cup {0}), forward |-> forward]

RECURSIVE FromNode(_, _)
FromNode(node, hi) ==
    IF node = 0 \/ node > hi THEN <<>> ELSE <<node>> \o FromNode(shape.forward[node][0], hi)
SkipRange(lo, hi) == FromNode(shape.forward[PredAt(0, lo)][0], hi)

-----------------------------------------------------------------------------
(* Interval tree: <<low, high, the largest high below, left, right>>, ordered*)
(* by low; an interval is <<low, high>>.                                     *)
MaxOf(t) == IF t = <<>> THEN {} ELSE {t[3]}
Recomputed(iv, l, r) == <<iv[1], iv[2], Max({iv[2]} \cup MaxOf(l) \cup MaxOf(r)), l, r>>
IntervalOf(t) == <<t[1], t[2]>>

RECURSIVE IntervalInsert(_, _), Leftmost(_), DropLeftmost(_), IntervalRemove(_, _)
IntervalInsert(t, iv) ==
    IF t = <<>> THEN <<iv[1], iv[2], iv[2], <<>>, <<>>>>
    ELSE IF iv[1] < t[1] THEN Recomputed(IntervalOf(t), IntervalInsert(t[4], iv), t[5])
    ELSE Recomputed(IntervalOf(t), t[4], IntervalInsert(t[5], iv))

Leftmost(t) == IF t[4] = <<>> THEN IntervalOf(t) ELSE Leftmost(t[4])
DropLeftmost(t) ==
    IF t[4] = <<>> THEN t[5] ELSE Recomputed(IntervalOf(t), DropLeftmost(t[4]), t[5])

(* Of two children the successor's interval moves up. *)
IntervalRemove(t, iv) ==
    IF IntervalOf(t) = iv
    THEN IF t[4] # <<>> /\ t[5] # <<>> THEN Recomputed(Leftmost(t[5]), t[4], DropLeftmost(t[5]))
         ELSE IF t[4] # <<>> THEN t[4] ELSE t[5]
    ELSE IF iv[1] < t[1] THEN Recomputed(IntervalOf(t), IntervalRemove(t[4], iv), t[5])
    ELSE Recomputed(IntervalOf(t), t[4], IntervalRemove(t[5], iv))

Overlaps(iv, low, high) == iv[1] <= high /\ low <= iv[2]
RECURSIVE IntervalHolds(_, _), OverlapAny(_, _, _), Overlapping(_, _, _)
IntervalHolds(t, iv) ==
    IF t = <<>> THEN FALSE
    ELSE IF IntervalOf(t) = iv THEN TRUE ELSE IntervalHolds(IF iv[1] < t[1] THEN t[4] ELSE t[5], iv)
OverlapAny(t, low, high) ==
    IF t = <<>> THEN {}
    ELSE IF Overlaps(t, low, high) THEN {IntervalOf(t)}
    ELSE OverlapAny(IF t[4] # <<>> /\ t[4][3] >= low THEN t[4] ELSE t[5], low, high)
Overlapping(t, low, high) ==
    IF t = <<>> THEN <<>>
    ELSE IF t[3] < low THEN <<>>
    ELSE Overlapping(t[4], low, high)
         \o (IF Overlaps(t, low, high) THEN <<IntervalOf(t)>> ELSE <<>>)
         \o (IF t[1] <= high THEN Overlapping(t[5], low, high) ELSE <<>>)

-----------------------------------------------------------------------------
OrderedInit ==
    /\ setKind \in SetKinds /\ size = 0
    /\ members = [e \in ElementsOf[setKind] |-> 0]
    /\ shape = CASE setKind = "veb" -> EmptyVeb(Universe)
                 [] setKind = "skip" -> [level |-> 0, forward |-> 0 :> [i \in 0..(MaxLevel - 1) |-> 0]]
                 [] setKind = "interval" -> <<>>

HeldOf(e) == members[e] > 0

(* An interval may be there more than once; a key that is there already, a   *)
(* skip list gives its new value.                                            *)
InsertElement(e) ==
    \/ /\ setKind = "veb"
       /\ LET r == VebInsert(shape, e) IN
          shape' = r.node /\ size' = size + (IF r.new THEN 1 ELSE 0)
       /\ members' = [members EXCEPT ![e] = 1]
       /\ UNCHANGED setKind
    \/ /\ setKind = "skip" /\ ~Found(e)
       /\ \E level \in 0..(MaxLevel - 1) : shape' = SkipInsert(e, level)
       /\ size' = size + 1 /\ members' = [members EXCEPT ![e] = 1]
       /\ UNCHANGED setKind
    \/ /\ setKind = "interval" /\ size < MaxHeld
       /\ shape' = IntervalInsert(shape, e)
       /\ size' = size + 1 /\ members' = [members EXCEPT ![e] = @ + 1]
       /\ UNCHANGED setKind

DeleteElement(e) ==
    /\ \/ setKind = "veb" /\ VebMember(shape, e) /\ shape' = VebDelete(shape, e)
       \/ setKind = "skip" /\ Found(e) /\ shape' = SkipDelete(e)
       \/ setKind = "interval" /\ IntervalHolds(shape, e) /\ shape' = IntervalRemove(shape, e)
    /\ size' = size - 1 /\ members' = [members EXCEPT ![e] = @ - 1]
    /\ UNCHANGED setKind

OrderedNext == \E e \in ElementsOf[setKind] : InsertElement(e) \/ DeleteElement(e)

OrderedSpec == OrderedInit /\ [][OrderedNext]_orderedVars

-----------------------------------------------------------------------------
Held == {e \in DOMAIN members : HeldOf(e)}
Above(x) == {e \in Held : e > x}
Below(x) == {e \in Held : e < x}
OrNone(S, pick(_)) == IF S = {} THEN None ELSE pick(S)
Times(s, e) == Cardinality({i \in DOMAIN s : s[i] = e})

(* Whatever was inserted and deleted before, the structure counts and holds  *)
(* what it should, and finds the neighbours of a value, the keys of a range  *)
(* in their order, the intervals that overlap another.                       *)
OrderedAgree ==
    /\ size = MapThenSumSet(LAMBDA e : members[e], DOMAIN members)
    /\ setKind = "veb" =>
          /\ shape.min = OrNone(Held, Min) /\ shape.max = OrNone(Held, Max)
          /\ \A x \in 0..(Universe - 1) :
                /\ VebMember(shape, x) = (x \in Held)
                /\ VebSuccessor(shape, x) = OrNone(Above(x), Min)
                /\ VebPredecessor(shape, x) = OrNone(Below(x), Max)
    /\ setKind = "skip" => \A lo, hi \in DOMAIN members :
          LET r == SkipRange(lo, hi) IN
          /\ {r[i] : i \in DOMAIN r} = Held \cap lo..hi
          /\ \A i, j \in DOMAIN r : i < j => r[i] < r[j]
    /\ setKind = "interval" => \A w \in DOMAIN members :
          LET all == Overlapping(shape, w[1], w[2])
              any == OverlapAny(shape, w[1], w[2])
          IN  /\ \A e \in DOMAIN members :
                    Times(all, e) = IF Overlaps(e, w[1], w[2]) THEN members[e] ELSE 0
              /\ any \subseteq {all[i] : i \in DOMAIN all} /\ (any = {}) = (all = <<>>)
              /\ IntervalHolds(shape, w) = HeldOf(w)
=============================================================================
