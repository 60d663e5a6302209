------------------------------ MODULE HashTables ------------------------------
(* The hashed sets of core/ that give elements back: quotient.py, cuckoo.py, *)
(* vacuum_filter.py, counting_bloom.py and cuckoo_hashtable.py. Each method  *)
(* runs under the structure's lock, so it is one step; one structure stands  *)
(* beside what was put into it and not taken out. What an element hashes to  *)
(* is a constant, or chosen where the code draws it anew. A loop is a        *)
(* function of where it is, or of how many rounds it has made.               *)
EXTENDS Integers, Sequences, FiniteSets, FiniteSetsExt, SequencesExt

CONSTANTS
    HashKinds, Elements,
    Quotient, Remainder, Slots,    \* quotient filter: element -> its fingerprint; 2^q
    FingerprintOf, HomeOf,         \* cuckoo and vacuum filter: element -> fp, i1
    OffsetOf, Buckets, BucketSize, \* kind -> fp -> what i1 and i2 differ in; kind -> how many
    MaxKicks,
    CountersOf, MaxCounter,        \* counting Bloom filter: element -> indices; saturation
    TableKeys, TableSizes,         \* cuckoo hash table: its keys; slots a table, at first and grown
    MaxEach                        \* bound: how many times an element is put

ASSUME HashAssumption ==
    /\ HashKinds \subseteq {"quotient", "cuckoo", "vacuum", "counting", "table"}
    /\ Elements \subseteq Nat \ {0} /\ TableKeys \subseteq Elements
    /\ {Slots, BucketSize, MaxKicks, MaxCounter, MaxEach} \subseteq Nat \ {0}
    /\ \A e \in Elements :
          /\ Quotient[e] \in 0..(Slots - 1) /\ Remainder[e] \in Nat
          /\ FingerprintOf[e] \in Nat /\ HomeOf[e] \in Nat /\ CountersOf[e] \in Seq(Nat)
    /\ TableSizes \subseteq Nat \ {0} /\ TableSizes # {}

(* Exclusive or, bit by bit. *)
Xor[v \in Nat \X Nat] ==
    IF v = <<0, 0>> THEN 0
    ELSE (IF v[1] % 2 = v[2] % 2 THEN 0 ELSE 1) + 2 * Xor[<<v[1] \div 2, v[2] \div 2>>]

(* The number of buckets is a power of two, or a multiple of one that what   *)
(* the two buckets differ in stays under: the other of a bucket is one.      *)
ASSUME BucketAssumption ==
    \A k \in HashKinds \cap {"cuckoo", "vacuum"} :
       /\ Buckets[k] \in Nat \ {0}
       /\ \A e \in Elements : OffsetOf[k][FingerprintOf[e]] \in Nat
       /\ \A e \in Elements, i \in 0..(Buckets[k] - 1) :
             Xor[<<i, OffsetOf[k][FingerprintOf[e]]>>] \in 0..(Buckets[k] - 1)

VARIABLES
    hashKind,
    body,       \* the structure
    used,       \* quotient filter: _used
    hashes,     \* cuckoo hash table: <<h1, h2>>, drawn anew by a rebuild
    putCount,   \* element -> how many times it was put and not taken out
    refused     \* an insert found the structure full

hashVars == <<hashKind, body, used, hashes, putCount, refused>>

-----------------------------------------------------------------------------
(* quotient.py: a slot has three bits, a remainder and a count. *)
Places == 0..(Slots - 1)
Incr(i) == (i + 1) % Slots
Decr(i) == (i + Slots - 1) % Slots
EmptySlot == [occ |-> FALSE, cont |-> FALSE, shift |-> FALSE, rem |-> 0, cnt |-> 0]
IsVacant(f, i) == ~(f[i].occ \/ f[i].cont \/ f[i].shift)

ClusterStart(f, fq) == LET back[b \in Places] == IF f[b].shift THEN back[Decr(b)] ELSE b IN back[fq]
PastRun(f, from) == LET on[s \in Places] == IF f[s].cont THEN on[Incr(s)] ELSE s IN on[from]
NextOccupied(f, from) == LET on[b \in Places] == IF f[b].occ THEN b ELSE on[Incr(b)] IN on[from]
RunStart(f, fq) ==
    LET start[b \in Places] == [s \in Places |->
            IF b = fq THEN s ELSE start[NextOccupied(f, Incr(b))][PastRun(f, Incr(s))]]
        b0 == ClusterStart(f, fq)
    IN  start[b0][b0]

LastOfRun(f, s) == IsVacant(f, Incr(s)) \/ ~f[Incr(s)].cont

(* Along a sorted run, to its first remainder that is no less, if any. *)
NotLess(f, from, fr) ==
    LET on[s \in Places] == IF f[s].rem >= fr \/ LastOfRun(f, s) THEN s ELSE on[Incr(s)] IN on[from]

(* The slot of a fingerprint: none, or one. *)
SlotOf(f, fq, fr) ==
    IF f[fq].occ THEN {s \in {NotLess(f, RunStart(f, fq), fr)} : f[s].rem = fr} ELSE {}

(* From s to the first vacant slot everything moves up by one. *)
ShiftInsert(f, s, new, fq, headMoves) ==
    LET way[i \in Places] == IF IsVacant(f, i) THEN {i} ELSE {i} \cup way[Incr(i)]
    IN  [i \in Places |->
            IF i = s THEN [new EXCEPT !.occ = f[i].occ, !.shift = s # fq]
            ELSE IF i \in way[s]
            THEN [f[Decr(i)] EXCEPT !.occ = f[i].occ, !.shift = TRUE, !.cont = @ \/ (headMoves /\ Decr(i) = s)]
            ELSE f[i]]

(* _insert_fp: the slots, and whether there was room. *)
QuotientInsert(f, fq, fr, count) ==
    LET newRun == ~f[fq].occ
        marked == [f EXCEPT ![fq].occ = TRUE]
        start == RunStart(marked, fq)
        found == NotLess(f, start, fr)
        s == IF newRun THEN start ELSE IF f[found].rem >= fr THEN found ELSE Incr(found)
        new == [EmptySlot EXCEPT !.rem = fr, !.cnt = count, !.cont = ~newRun /\ s # start]
    IN  IF IsVacant(f, fq)
        THEN [to |-> [f EXCEPT ![fq] = [EmptySlot EXCEPT !.occ = TRUE, !.rem = fr, !.cnt = count]],
              ok |-> TRUE, takes |-> 1]
        ELSE IF ~newRun /\ f[found].rem = fr
        THEN [to |-> [f EXCEPT ![found].cnt = @ + count], ok |-> TRUE, takes |-> 0]
        ELSE IF used >= Slots THEN [to |-> marked, ok |-> FALSE, takes |-> 0]
        ELSE [to |-> ShiftInsert(marked, s, new, fq, ~newRun /\ s = start), ok |-> TRUE, takes |-> 1]

(* What is shifted behind s moves down by one. Whether it is in its own slot *)
(* then, the next occupied quotients tell.                                   *)
Contract(f, s, fq) ==
    LET stays(i) == IsVacant(f, i) \/ ~f[i].shift
        way[i \in Places] == IF stays(Incr(i)) THEN {i} ELSE {i} \cup way[Incr(i)]
        quotient[i \in Places] ==
            IF i = s THEN fq
            ELSE IF f[i].cont THEN quotient[Decr(i)] ELSE NextOccupied(f, Incr(quotient[Decr(i)]))
        next(i) == f[Incr(i)]
    IN  [i \in Places |->
            IF i \notin way[s] THEN f[i]
            ELSE IF stays(Incr(i)) THEN [EmptySlot EXCEPT !.occ = f[i].occ]
            ELSE [next(i) EXCEPT !.occ = f[i].occ, !.cont = @ /\ (i = s => f[s].cont),
                                 !.shift = i # quotient[Incr(i)]]]

(* A bug: the mark of a run that becomes empty stays. *)
MutRemoveSlot(f, fq, s) == Contract(f, s, fq)

RemoveSlot(f, fq, s) ==
    LET g == Contract(f, s, fq)
    IN  IF ~f[s].cont /\ LastOfRun(f, s) THEN [g EXCEPT ![fq].occ = FALSE] ELSE g

QuotientDelete(f, fq, s) ==
    IF f[s].cnt > 1 THEN [f EXCEPT ![s].cnt = @ - 1] ELSE RemoveSlot(f, fq, s)

-----------------------------------------------------------------------------
(* cuckoo.py and vacuum_filter.py: bucket -> the fingerprints in it. The two *)
(* buckets of one lie an exclusive or apart, in a vacuum filter that of a few*)
(* low bits.                                                                 *)
AltIndex(i, fp) == Xor[<<i, OffsetOf[hashKind][fp]>>]
BucketRoom(t, i) == Len(t[i]) < BucketSize

(* After n kicks: the buckets, what is to go into which, whether it found    *)
(* room, and what each kick found.                                           *)
Kicks(t, i, fp) ==
    LET kick[n \in 0..MaxKicks] ==
            IF n = 0 THEN [to |-> t, at |-> i, moving |-> fp, ok |-> FALSE, changes |-> <<>>]
            ELSE LET r == kick[n - 1]
                     slot == ((n - 1) % BucketSize) + 1
                     evicted == r.to[r.at][slot]
                     next == AltIndex(r.at, evicted)
                     kicked == [r.to EXCEPT ![r.at][slot] = r.moving]
                 IN  IF r.ok THEN r
                     ELSE [to |-> IF BucketRoom(kicked, next)
                                  THEN [kicked EXCEPT ![next] = Append(@, evicted)] ELSE kicked,
                           at |-> next, moving |-> evicted, ok |-> BucketRoom(kicked, next),
                           changes |-> Append(r.changes, [at |-> r.at, slot |-> slot, old |-> evicted])]
    IN  kick[MaxKicks]

(* What the kicks found put back, the last first. *)
PutBack(t, changes) ==
    LET back[k \in 0..Len(changes)] ==
            IF k = Len(changes) THEN t
            ELSE LET c == changes[k + 1] IN [back[k + 1] EXCEPT ![c.at][c.slot] = c.old]
    IN  back[0]

Homes(e) == LET i1 == HomeOf[e] % Buckets[hashKind] IN <<i1, AltIndex(i1, FingerprintOf[e])>>

BucketInsert(t, e) ==
    LET fp == FingerprintOf[e]
        i == IF BucketRoom(t, Homes(e)[1]) THEN Homes(e)[1] ELSE Homes(e)[2]
        r == Kicks(t, Homes(e)[1], fp)
    IN  IF BucketRoom(t, i) THEN [to |-> [t EXCEPT ![i] = Append(@, fp)], ok |-> TRUE]
        ELSE [to |-> IF r.ok THEN r.to ELSE PutBack(r.to, r.changes), ok |-> r.ok]

BucketHolds(t, e) == \E i \in {1, 2} : FingerprintOf[e] \in Range(t[Homes(e)[i]])

LessFirst(s, fp) ==
    LET i == CHOOSE k \in DOMAIN s : s[k] = fp /\ \A j \in 1..(k - 1) : s[j] # fp
    IN  [k \in 1..(Len(s) - 1) |-> IF k < i THEN s[k] ELSE s[k + 1]]

BucketDelete(t, e) ==
    LET fp == FingerprintOf[e]
        i == IF fp \in Range(t[Homes(e)[1]]) THEN Homes(e)[1] ELSE Homes(e)[2]
    IN  [t EXCEPT ![i] = LessFirst(@, fp)]

-----------------------------------------------------------------------------
(* counting_bloom.py: a counter that is full is never lowered. *)
Stepped(c, e, by) ==
    LET upTo[k \in 0..Len(CountersOf[e])] ==
            IF k = 0 THEN c
            ELSE [upTo[k - 1] EXCEPT ![CountersOf[e][k]] = IF @ < MaxCounter THEN @ + by ELSE @]
    IN  upTo[Len(CountersOf[e])]
BloomAdd(c, e) == Stepped(c, e, 1)
BloomRemove(c, e) == Stepped(c, e, -1)
BloomHolds(c, e) == \A i \in Range(CountersOf[e]) : c[i] >= 1

-----------------------------------------------------------------------------
(* cuckoo_hashtable.py: <<t1, t2>>, slot -> the key there, or NoKey. *)
NoKey == 0
EmptyTable(n) == <<[i \in 0..(n - 1) |-> NoKey], [i \in 0..(n - 1) |-> NoKey]>>
HashesTo(n) == [{1, 2} -> [TableKeys -> 0..(n - 1)]]
TableSize == Cardinality(DOMAIN body[1])

(* _seat: into the first table and out of it into the second, and so on; the *)
(* key that has no place yet, or NoKey.                                      *)
Seat(t, h, key) ==
    LET seat[n \in 0..(2 * MaxKicks)] ==
            IF n = 0 THEN [to |-> t, homeless |-> key]
            ELSE LET r == seat[n - 1]
                     k == ((n - 1) % 2) + 1
                     i == h[k][r.homeless]
                 IN  IF r.homeless = NoKey THEN r
                     ELSE [to |-> [r.to EXCEPT ![k][i] = r.homeless], homeless |-> r.to[k][i]]
    IN  seat[2 * MaxKicks]

(* _rebuild: all that is in the first table, in the second, and the homeless.*)
SeatAll(t, m, key, n, h) ==
    LET item(k) == IF k <= m THEN t[1][k - 1] ELSE IF k <= 2 * m THEN t[2][k - m - 1] ELSE key
        upTo[k \in 0..(2 * m + 1)] ==
            IF k = 0 THEN [to |-> EmptyTable(n), homeless |-> NoKey]
            ELSE LET r == upTo[k - 1]
                 IN  IF r.homeless # NoKey \/ item(k) = NoKey THEN r ELSE Seat(r.to, h, item(k))
    IN  upTo[2 * m + 1]
TableHolds(t, e) == \E k \in {1, 2} : t[k][hashes[k][e]] = e

-----------------------------------------------------------------------------
HashInit ==
    /\ hashKind \in HashKinds
    /\ putCount = [e \in Elements |-> 0] /\ used = 0 /\ refused = FALSE
    /\ \/ hashKind = "quotient" /\ body = [i \in 0..(Slots - 1) |-> EmptySlot]
       \/ hashKind \in {"cuckoo", "vacuum"} /\ body = [i \in 0..(Buckets[hashKind] - 1) |-> <<>>]
       \/ hashKind = "counting" /\ body = [i \in UNION {Range(CountersOf[e]) : e \in Elements} |-> 0]
       \/ hashKind = "table" /\ body = EmptyTable(Min(TableSizes))
    /\ hashes \in IF hashKind = "table" THEN HashesTo(Min(TableSizes)) ELSE {<<>>}

Counted(e, ok) ==
    /\ putCount' = [putCount EXCEPT ![e] = @ + (IF ok THEN 1 ELSE 0)]
    /\ refused' = (refused \/ ~ok)

(* A quotient filter that refused an element keeps the mark it set for it.   *)
(* A delete may follow the marks for ever then: none of one.                 *)
InsertHashed(e) ==
    /\ putCount[e] < MaxEach /\ UNCHANGED hashKind
    /\ \/ /\ hashKind = "quotient"
          /\ LET r == QuotientInsert(body, Quotient[e], Remainder[e], 1) IN
             body' = r.to /\ used' = used + r.takes /\ Counted(e, r.ok)
          /\ UNCHANGED hashes
       \/ /\ hashKind \in {"cuckoo", "vacuum"}
          /\ LET r == BucketInsert(body, e) IN body' = r.to /\ Counted(e, r.ok)
          /\ UNCHANGED <<used, hashes>>
       \/ /\ hashKind = "counting" /\ body' = BloomAdd(body, e) /\ Counted(e, TRUE)
          /\ UNCHANGED <<used, hashes>>

(* put of a key that is not there; of one that is there, its value changes. *)
PutKey(e) ==
    /\ hashKind = "table" /\ e \in TableKeys /\ ~TableHolds(body, e)
    /\ LET r == Seat(body, hashes, e) IN
       \/ r.homeless = NoKey /\ body' = r.to /\ UNCHANGED hashes
       \/ /\ r.homeless # NoKey
          /\ \E n \in {TableSize, 2 * TableSize} \cap TableSizes :
             \E h \in HashesTo(n) :
                LET all == SeatAll(r.to, TableSize, r.homeless, n, h) IN
                all.homeless = NoKey /\ body' = all.to /\ hashes' = h
    /\ Counted(e, TRUE) /\ UNCHANGED <<hashKind, used>>

(* delete and remove, of what was put: of anything else a filter might well  *)
(* have a copy that is another's.                                            *)
DeleteHashed(e) ==
    /\ putCount[e] > 0 /\ putCount' = [putCount EXCEPT ![e] = @ - 1]
    /\ \/ /\ hashKind = "quotient" /\ ~refused
          /\ \E s \in SlotOf(body, Quotient[e], Remainder[e]) :
                /\ body' = QuotientDelete(body, Quotient[e], s)
                /\ used' = used - (IF body[s].cnt > 1 THEN 0 ELSE 1)
       \/ /\ hashKind \in {"cuckoo", "vacuum"} /\ BucketHolds(body, e)
          /\ body' = BucketDelete(body, e) /\ UNCHANGED used
       \/ /\ hashKind = "counting" /\ BloomHolds(body, e)
          /\ body' = BloomRemove(body, e) /\ UNCHANGED used
       \/ /\ hashKind = "table" /\ e \in TableKeys /\ TableHolds(body, e)
          /\ LET k == IF body[1][hashes[1][e]] = e THEN 1 ELSE 2
             IN  body' = [body EXCEPT ![k][hashes[k][e]] = NoKey]
          /\ UNCHANGED used
    /\ UNCHANGED <<hashKind, hashes, refused>>

HashNext == \E e \in Elements : InsertHashed(e) \/ PutKey(e) \/ DeleteHashed(e)

HashSpec == HashInit /\ [][HashNext]_hashVars

-----------------------------------------------------------------------------
Present(e) ==
    CASE hashKind = "quotient" -> SlotOf(body, Quotient[e], Remainder[e]) # {}
      [] hashKind \in {"cuckoo", "vacuum"} -> BucketHolds(body, e)
      [] hashKind = "counting" -> BloomHolds(body, e)
      [] hashKind = "table" -> TableHolds(body, e)

(* What a quotient filter that was full says after it refused an element is  *)
(* not reliable: the mark it set for it stays.                               *)
Reliable == hashKind = "quotient" => ~refused
SameFingerprint(e) == {x \in Elements : Quotient[x] = Quotient[e] /\ Remainder[x] = Remainder[e]}

(* What was put is found until it is taken out, whatever was shifted, kicked,*)
(* rolled back or rehashed meanwhile; a quotient filter counts it as well,   *)
(* and a hash table finds nothing else, and once.                            *)
NothingForgotten ==
    Reliable => \A e \in Elements :
        /\ putCount[e] > 0 => Present(e)
        /\ hashKind = "quotient" =>
              LET copies == MapThenSumSet(LAMBDA x : putCount[x], SameFingerprint(e))
              IN  IF copies = 0 THEN ~Present(e)
                  ELSE \A s \in SlotOf(body, Quotient[e], Remainder[e]) : body[s].cnt = copies
        /\ hashKind = "table" => Cardinality({p \in {1, 2} \X DOMAIN body[1] : body[p[1]][p[2]] = e}) = putCount[e]
=============================================================================
