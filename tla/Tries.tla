-------------------------------- MODULE Tries --------------------------------
(* The prefix trees of core/: trie.py, radix_tree.py, ternary_search_tree.py *)
(* and xor_trie.py. Each method runs under the tree's lock, so it is one     *)
(* step; one tree stands beside the words it should hold. A word is a        *)
(* sequence of numbers, for a xor_trie the bits of a value from the highest. *)
EXTENDS Integers, Sequences, FiniteSets, FiniteSetsExt, SequencesExt, TLC

CONSTANTS
    TrieKinds, WordsOf,            \* kind -> the words its tree is used with
    QueriesOf,                     \* kind -> the words it is asked about
    MaxCopies                      \* bound: of a value in a xor_trie

ASSUME TrieAssumption ==
    /\ TrieKinds \subseteq {"trie", "radix", "ternary", "xor"} /\ MaxCopies \in Nat
    /\ \A k \in TrieKinds : WordsOf[k] \subseteq QueriesOf[k] /\ QueriesOf[k] \subseteq Seq(Nat)

VARIABLES
    trieKind,
    topNode,       \* _root
    counts         \* word -> how many of it the tree should hold

trieVars == <<trieKind, topNode, counts>>

NoKids == [c \in {} |-> 0]
Without(f, c) == [x \in DOMAIN f \ {c} |-> f[x]]
Beyond(w, i) == SubSeq(w, i + 1, Len(w))

-----------------------------------------------------------------------------
(* trie.py: a node has an end mark, and a child for each next letter. *)
RECURSIVE TrieInsert(_, _), TrieDelete(_, _), TrieNode(_, _), TrieWords(_, _)
Fresh == [end |-> FALSE, kids |-> NoKids]
TrieInsert(n, w) ==
    IF w = <<>> THEN [n EXCEPT !.end = TRUE]
    ELSE LET kid == IF w[1] \in DOMAIN n.kids THEN n.kids[w[1]] ELSE Fresh
         IN  [n EXCEPT !.kids = (w[1] :> TrieInsert(kid, Tail(w))) @@ @]

(* From the leaf upwards, what has neither end mark nor child goes. *)
TrieDelete(n, w) ==
    IF w = <<>> THEN [n EXCEPT !.end = FALSE]
    ELSE LET kid == TrieDelete(n.kids[w[1]], Tail(w))
         IN  IF ~kid.end /\ kid.kids = NoKids THEN [n EXCEPT !.kids = Without(@, w[1])]
             ELSE [n EXCEPT !.kids[w[1]] = kid]

(* _find_node, as a set: none, or the node. *)
TrieNode(n, w) ==
    IF w = <<>> THEN {n}
    ELSE IF w[1] \in DOMAIN n.kids THEN TrieNode(n.kids[w[1]], Tail(w)) ELSE {}
TrieWords(n, base) ==
    (IF n.end THEN {base} ELSE {}) \cup UNION {TrieWords(n.kids[c], base \o <<c>>) : c \in DOMAIN n.kids}

RECURSIVE Tidy(_)
Tidy(n) == \A c \in DOMAIN n.kids :
    (n.kids[c].end \/ n.kids[c].kids # NoKids) /\ Tidy(n.kids[c])

-----------------------------------------------------------------------------
(* radix_tree.py: an edge is labelled with as many letters as lead nowhere   *)
(* else, and a node keeps the label of the edge to it.                       *)
Lcp(a, b) == Max({i \in 0..Min({Len(a), Len(b)}) : SubSeq(a, 1, i) = SubSeq(b, 1, i)})
RadixLeaf(label) == [label |-> label, key |-> TRUE, kids |-> NoKids]

RECURSIVE RadixInsert(_, _)
RadixInsert(n, rem) ==
    IF rem = <<>> THEN [n EXCEPT !.key = TRUE]
    ELSE IF rem[1] \notin DOMAIN n.kids
    THEN [n EXCEPT !.kids = (rem[1] :> RadixLeaf(rem)) @@ @]
    ELSE LET child == n.kids[rem[1]]
             l == Lcp(rem, child.label)
             lower == [child EXCEPT !.label = Beyond(@, l)]
             leaf == IF l = Len(rem) THEN NoKids ELSE rem[l + 1] :> RadixLeaf(Beyond(rem, l))
             mid == [label |-> SubSeq(rem, 1, l), key |-> l = Len(rem),
                     kids |-> (lower.label[1] :> lower) @@ leaf]
         IN  [n EXCEPT !.kids[rem[1]] =
                IF l = Len(child.label) THEN RadixInsert(child, Beyond(rem, l)) ELSE mid]

Merged(n) ==
    LET only == n.kids[CHOOSE c \in DOMAIN n.kids : TRUE]
    IN  [only EXCEPT !.label = n.label \o @]
OneKid(n) == Cardinality(DOMAIN n.kids) = 1

(* Of a word that is held, and not empty. *)
RECURSIVE RadixDelete(_, _, _)
RadixDelete(n, rem, atRoot) ==
    LET c == rem[1]
        rest == Beyond(rem, Len(n.kids[c].label))
        y == [n.kids[c] EXCEPT !.key = FALSE]
        m == [n EXCEPT !.kids = Without(@, c)]
    IN  IF rest # <<>> THEN [n EXCEPT !.kids[c] = RadixDelete(@, rest, FALSE)]
        ELSE IF y.kids = NoKids THEN (IF ~atRoot /\ ~m.key /\ OneKid(m) THEN Merged(m) ELSE m)
        ELSE [n EXCEPT !.kids[c] = IF OneKid(y) THEN Merged(y) ELSE y]

RECURSIVE RadixFind(_, _), RadixWords(_, _), RadixUnder(_, _, _), RadixLongest(_, _, _, _)
Follows(n, rem) ==
    rem # <<>> /\ rem[1] \in DOMAIN n.kids /\ IsPrefix(n.kids[rem[1]].label, rem)
RadixFind(n, rem) ==
    IF rem = <<>> THEN n.key
    ELSE Follows(n, rem) /\ LET kid == n.kids[rem[1]] IN RadixFind(kid, Beyond(rem, Len(kid.label)))
RadixWords(n, base) ==
    (IF n.key THEN {base} ELSE {})
    \cup UNION {RadixWords(n.kids[c], base \o n.kids[c].label) : c \in DOMAIN n.kids}
RadixUnder(n, w, i) ==
    LET rem == Beyond(w, i) IN
    IF rem = <<>> THEN RadixWords(n, w)
    ELSE IF Follows(n, rem)
    THEN LET kid == n.kids[rem[1]] IN RadixUnder(kid, w, i + Len(kid.label))
    ELSE IF rem[1] \in DOMAIN n.kids /\ IsPrefix(rem, n.kids[rem[1]].label)
    THEN LET kid == n.kids[rem[1]] IN RadixWords(kid, SubSeq(w, 1, i) \o kid.label)
    ELSE {}
RadixLongest(n, w, i, best) ==
    LET rem == Beyond(w, i) IN
    IF ~Follows(n, rem) THEN best
    ELSE LET kid == n.kids[rem[1]]
             j == i + Len(kid.label)
         IN  RadixLongest(kid, w, j, IF kid.key THEN {SubSeq(w, 1, j)} ELSE best)

(* No node but the root has a single child and no word of its own. *)
RECURSIVE Compressed(_)
Compressed(n) == \A c \in DOMAIN n.kids :
    LET kid == n.kids[c] IN
    kid.label[1] = c /\ (kid.key \/ Cardinality(DOMAIN kid.kids) > 1) /\ Compressed(kid)

-----------------------------------------------------------------------------
(* ternary_search_tree.py: <<>>, or <<letter, lo, eq, hi, is_end>>. *)
RECURSIVE TernaryInsert(_, _), TernaryUnmark(_, _), TernaryNode(_, _), TernaryWords(_, _)
TernaryInsert(t, w) ==
    LET n == IF t = <<>> THEN <<w[1], <<>>, <<>>, <<>>, FALSE>> ELSE t IN
    IF w[1] < n[1] THEN [n EXCEPT ![2] = TernaryInsert(@, w)]
    ELSE IF w[1] > n[1] THEN [n EXCEPT ![4] = TernaryInsert(@, w)]
    ELSE IF Len(w) = 1 THEN [n EXCEPT ![5] = TRUE]
    ELSE [n EXCEPT ![3] = TernaryInsert(@, Tail(w))]
TernaryUnmark(t, w) ==
    IF w[1] < t[1] THEN [t EXCEPT ![2] = TernaryUnmark(@, w)]
    ELSE IF w[1] > t[1] THEN [t EXCEPT ![4] = TernaryUnmark(@, w)]
    ELSE IF Len(w) = 1 THEN [t EXCEPT ![5] = FALSE]
    ELSE [t EXCEPT ![3] = TernaryUnmark(@, Tail(w))]
TernaryNode(t, w) ==
    IF t = <<>> THEN {}
    ELSE IF w[1] < t[1] THEN TernaryNode(t[2], w)
    ELSE IF w[1] > t[1] THEN TernaryNode(t[4], w)
    ELSE IF Len(w) = 1 THEN {t} ELSE TernaryNode(t[3], Tail(w))
TernaryWords(t, base) ==
    IF t = <<>> THEN {}
    ELSE TernaryWords(t[2], base) \cup TernaryWords(t[4], base)
         \cup TernaryWords(t[3], base \o <<t[1]>>) \cup (IF t[5] THEN {base \o <<t[1]>>} ELSE {})

(* keys_with_prefix of a prefix that is not empty, and longest_prefix_of. *)
TernaryUnder(t, w) ==
    UNION {TernaryWords(n[3], w) \cup (IF n[5] THEN {w} ELSE {}) : n \in TernaryNode(t, w)}
RECURSIVE TernaryLongest(_, _, _, _)
TernaryLongest(t, w, i, length) ==
    IF t = <<>> \/ i = Len(w) THEN (IF length = 0 THEN {} ELSE {SubSeq(w, 1, length)})
    ELSE IF w[i + 1] < t[1] THEN TernaryLongest(t[2], w, i, length)
    ELSE IF w[i + 1] > t[1] THEN TernaryLongest(t[4], w, i, length)
    ELSE TernaryLongest(t[3], w, i + 1, IF t[5] THEN i + 1 ELSE length)

-----------------------------------------------------------------------------
(* xor_trie.py: <<count, child for 0, child for 1>>, <<>> for None. *)
Child(t, bit) == t[bit + 2]
ValueOf(w) == FoldLeft(LAMBDA v, bit : 2 * v + bit, 0, w)
XorOf(v, w) == ValueOf([i \in DOMAIN v |-> IF v[i] = w[i] THEN 0 ELSE 1])

RECURSIVE XorInsert(_, _), XorRemove(_, _), XorHolds(_, _)
XorInsert(t, w) ==
    IF w = <<>> THEN t
    ELSE LET kid == IF Child(t, w[1]) = <<>> THEN <<0, <<>>, <<>>>> ELSE Child(t, w[1])
         IN  [t EXCEPT ![w[1] + 2] = XorInsert([kid EXCEPT ![1] = @ + 1], Tail(w))]
XorRemove(t, w) ==
    IF w = <<>> THEN t
    ELSE LET kid == XorRemove([Child(t, w[1]) EXCEPT ![1] = @ - 1], Tail(w))
         IN  [t EXCEPT ![w[1] + 2] = IF kid[1] = 0 THEN <<>> ELSE kid]
XorHolds(t, w) ==
    IF w = <<>> THEN TRUE ELSE Child(t, w[1]) # <<>> /\ XorHolds(Child(t, w[1]), Tail(w))

(* max_xor goes against the bits of the query while it can, min_xor along. *)
RECURSIVE ExtremeXor(_, _, _), CountXorLess(_, _, _)
ExtremeXor(t, near, against) ==
    IF near = <<>> THEN 0
    ELSE LET wanted == IF against THEN 1 - near[1] ELSE near[1]
             bit == IF Child(t, wanted) # <<>> THEN wanted ELSE 1 - wanted
         IN  (IF bit = near[1] THEN 0 ELSE 2^(Len(near) - 1)) + ExtremeXor(Child(t, bit), Tail(near), against)
CountXorLess(t, near, k) ==
    IF t = <<>> \/ near = <<>> THEN 0
    ELSE LET same == Child(t, near[1]) IN
         IF k[1] = 0 THEN CountXorLess(same, Tail(near), Tail(k))
         ELSE (IF same = <<>> THEN 0 ELSE same[1]) + CountXorLess(Child(t, 1 - near[1]), Tail(near), Tail(k))

-----------------------------------------------------------------------------
Words == {w \in DOMAIN counts : counts[w] > 0}

TrieInit ==
    /\ trieKind \in TrieKinds
    /\ counts = [w \in WordsOf[trieKind] |-> 0]
    /\ topNode = CASE trieKind = "trie" -> Fresh
                   [] trieKind = "radix" -> [label |-> <<>>, key |-> FALSE, kids |-> NoKids]
                   [] trieKind = "ternary" -> <<>>
                   [] trieKind = "xor" -> <<0, <<>>, <<>>>>

(* A word the tree holds is inserted once more; of a xor_trie then are two. *)
InsertWord(w) ==
    /\ IF trieKind = "xor" THEN counts[w] < MaxCopies /\ counts' = [counts EXCEPT ![w] = @ + 1]
       ELSE counts' = [counts EXCEPT ![w] = 1]
    /\ topNode' = CASE trieKind = "trie" -> TrieInsert(topNode, w)
                    [] trieKind = "radix" -> RadixInsert(topNode, w)
                    [] trieKind = "ternary" -> TernaryInsert(topNode, w)
                    [] trieKind = "xor" -> XorInsert(topNode, w)
    /\ UNCHANGED trieKind

(* delete and remove: of a word that is not there they say so. *)
DeleteWord(w) ==
    /\ \/ trieKind = "trie" /\ (\E n \in TrieNode(topNode, w) : n.end)
          /\ topNode' = TrieDelete(topNode, w)
       \/ trieKind = "radix" /\ RadixFind(topNode, w)
          /\ topNode' = IF w = <<>> THEN [topNode EXCEPT !.key = FALSE] ELSE RadixDelete(topNode, w, TRUE)
       \/ trieKind = "ternary" /\ (\E n \in TernaryNode(topNode, w) : n[5])
          /\ topNode' = TernaryUnmark(topNode, w)
       \/ trieKind = "xor" /\ XorHolds(topNode, w)
          /\ topNode' = XorRemove(topNode, w)
    /\ counts' = [counts EXCEPT ![w] = @ - 1]
    /\ UNCHANGED trieKind

TrieNext == \E w \in WordsOf[trieKind] : InsertWord(w) \/ DeleteWord(w)

TrieSpec == TrieInit /\ [][TrieNext]_trieVars

-----------------------------------------------------------------------------
LongestOf(S) == {w \in S : \A x \in S : Len(x) <= Len(w)}
HeldUnder(w) == {x \in Words : IsPrefix(w, x)}
HeldAlong(w) == {x \in Words : IsPrefix(x, w)}
XorsWith(near) == {XorOf(w, near) : w \in Words}

(* Whatever was inserted and deleted before, a tree holds a word, has words  *)
(* under a prefix, has a longest one along a text, just when they are there; *)
(* and its nodes are those the words need. A xor_trie knows the nearest, the *)
(* farthest and how many are nearer.                                         *)
WordsAgree ==
    /\ CASE trieKind = "trie" -> Tidy(topNode) [] trieKind = "radix" -> Compressed(topNode) [] OTHER -> TRUE
    /\ \A w \in QueriesOf[trieKind] :
          CASE trieKind = "trie" ->
                 /\ (w \in Words) = \E n \in TrieNode(topNode, w) : n.end
                 /\ UNION {TrieWords(n, w) : n \in TrieNode(topNode, w)} = HeldUnder(w)
            [] trieKind = "radix" ->
                 /\ (w \in Words) = RadixFind(topNode, w)
                 /\ RadixUnder(topNode, w, 0) = HeldUnder(w)
                 /\ RadixLongest(topNode, w, 0, IF topNode.key THEN {<<>>} ELSE {}) = LongestOf(HeldAlong(w))
            [] trieKind = "ternary" ->
                 /\ (w \in Words) = \E n \in TernaryNode(topNode, w) : n[5]
                 /\ TernaryUnder(topNode, w) = HeldUnder(w)
                 /\ TernaryLongest(topNode, w, 0, 0) = LongestOf(HeldAlong(w))
            [] trieKind = "xor" ->
                 /\ (w \in Words) = XorHolds(topNode, w)
                 /\ Words # {} => ExtremeXor(topNode, w, TRUE) = Max(XorsWith(w))
                                  /\ ExtremeXor(topNode, w, FALSE) = Min(XorsWith(w))
                 /\ \A k \in QueriesOf[trieKind] :
                       CountXorLess(topNode, w, k)
                           = MapThenSumSet(LAMBDA x : counts[x], {x \in Words : XorOf(x, w) < ValueOf(k)})
=============================================================================
