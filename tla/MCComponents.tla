---------------------------- MODULE MCComponents ----------------------------
(* Small instances of the components around the kernel and the campaigns.    *)
(* They share no state, so one behaviour is a behaviour of one of them:      *)
(* part, which never changes, says which, and the others stand still.        *)
EXTENDS Promises, TitanOps, TitanRollback, CampaignBridge, CircuitBreakers,
        SlidingWindows, Incidents, Leases, SemaphoreGate, WorkQueue, JobScheduler,
        RedisBus, StateSync, DependencyGraph, CallSlots, ConfigReload,
        Heaps, Trees, Ranges, Tries, OrderedSets, HashTables

CONSTANTS Parts, a1, a2, a3, p, q

VARIABLE part

(* A command with a hook, one that is gated, one whose binary is missing,    *)
(* and three that never get so far: malformed, a chmod without a mode, a     *)
(* kill without a target.                                                    *)
Command1 == [wellFormed |-> TRUE, kind |-> "shell", target |-> TRUE, manager |-> "none",
             op |-> "none", detail |-> FALSE, gated |-> FALSE, starts |-> TRUE, hook |-> TRUE]
SomeInstructions ==
    {Command1, [Command1 EXCEPT !.gated = TRUE], [Command1 EXCEPT !.starts = FALSE],
     [Command1 EXCEPT !.wellFormed = FALSE],
     [Command1 EXCEPT !.kind = "file", !.op = "chmod"],
     [Command1 EXCEPT !.kind = "process", !.op = "kill", !.target = FALSE],
     [Command1 EXCEPT !.kind = "service", !.op = "restart", !.hook = FALSE],
     [Command1 EXCEPT !.kind = "package", !.manager = "apt"]}

(* A write with a hook, a removal and a reading, all of the same file. *)
Commands == [i \in Undoables |->
    CASE i = a1 -> [op |-> "write", path |-> p, content |-> "new", hook |-> TRUE]
      [] i = a2 -> [op |-> "remove", path |-> p, content |-> "none", hook |-> FALSE]
      [] i = a3 -> [op |-> "read", path |-> p, content |-> "none", hook |-> FALSE]]

EveryTwoOrThree == [s \in Schedules |-> IF s = a1 THEN 1 ELSE 2]

(* Of the jobs that repeat one is due again at once, of the tasks one ranks  *)
(* behind the sentinels, and of the subscribers one listens to everything.   *)
Repeats == [j \in TimedJobs |-> IF j = a1 THEN 1 ELSE 0]
Urgency == [t \in Works |-> IF t = a3 THEN 3 ELSE 2]
ListensTo == [h \in Handlers |-> IF h = a3 THEN "*" ELSE "topic"]

(* A call of add_task names one or two parents, in either order. *)
OneOrTwo == {s \in UNION {[1..k -> Tasks] : k \in 1..2} : Len(s) = 2 => s[1] # s[2]}

(* One module by more than one name. *)
ResolvesTo == [s \in Spellings |-> p]

(* Two texts of a module: one that could be better, and a longer one with    *)
(* more to it, of which taking away would be a loss.                         *)
SomeFacts == [v \in Versions |->
    IF v = a1 THEN [parses |-> TRUE, surface |-> {"f"}, tests |-> {"test_f"}, risk |-> 1, long |-> FALSE]
    ELSE [parses |-> TRUE, surface |-> {"f", "g"}, tests |-> {"test_f"}, risk |-> 0, long |-> TRUE]]

OneOrTwoCalls == [b \in Backends |-> IF b = p THEN 1 ELSE 2]

(* Two sessions join the same brokers, and a third makes a detour possible. *)
Joins == <<<<a1, a2>>, <<a1, a2>>, <<a2, a3>>>>

(* The keys each kind of tree is used with: what it does with more of them   *)
(* it has done with fewer.                                                   *)
KeysOf == [k \in TreeKinds |-> CASE k = "treap" -> 1..4 [] k = "splay" -> 1..6 [] OTHER -> 1..7]

(* Words that share beginnings, part ways and end inside one another; the    *)
(* questions are all words that short, for a xor_trie all values of three    *)
(* bits.                                                                     *)
SomeWords == {<<1>>, <<1, 2>>, <<1, 2, 1>>, <<1, 2, 3>>, <<1, 3>>, <<2, 1, 1>>, <<2, 1, 2>>}
SomeValues == {<<0, 0, 0>>, <<0, 0, 1>>, <<0, 1, 1>>, <<1, 0, 1>>, <<1, 1, 0>>}
WordsUsed == [k \in TrieKinds |->
    CASE k = "xor" -> SomeValues [] k = "radix" -> SomeWords \cup {<<>>} [] OTHER -> SomeWords]
WordsAsked == [k \in TrieKinds |->
    CASE k = "xor" -> [1..3 -> 0..1]
      [] k = "radix" -> UNION {[1..n -> 1..3] : n \in 0..3}
      [] OTHER -> UNION {[1..n -> 1..3] : n \in 1..3}]

(* Values in several clusters, keys, and intervals that lie apart, inside    *)
(* one another and beside one another.                                       *)
ElementsUsed == [k \in SetKinds |->
    CASE k = "veb" -> {0, 1, 2, 6, 7, 9, 12, 15}
      [] k = "skip" -> 1..4
      [] OTHER -> {<<1, 1>>, <<1, 4>>, <<2, 2>>, <<2, 3>>, <<3, 3>>, <<4, 4>>}]

(* What six elements hash to: two share a quotient, two a fingerprint, two   *)
(* have the same buckets, one raises a counter twice.                        *)
QuotientOf == [e \in Elements |-> <<0, 0, 1, 2, 3, 3>>[e]]
RemainderOf == [e \in Elements |-> <<0, 1, 0, 1, 0, 2>>[e]]
PrintOf == [e \in Elements |-> <<1, 2, 3, 1, 2, 3>>[e]]
BucketOf == [e \in Elements |-> <<0, 0, 0, 1, 2, 5>>[e]]
ApartBy == [k \in HashKinds |-> IF k = "cuckoo" THEN <<1, 2, 3>> ELSE <<1, 0, 1>>]
HowManyBuckets == [k \in HashKinds |-> IF k = "cuckoo" THEN 4 ELSE 6]
IndicesOf == [e \in Elements |->
    <<<<0, 1>>, <<1, 2>>, <<2, 2>>, <<3, 1>>, <<0, 3>>, <<1, 1>>>>[e]]

-----------------------------------------------------------------------------
componentsVars ==
    <<part,
      titanVars, rollbackVars, storeVars, scheduleVars, cronVars, bridgeVars,
      breakerVars, windowVars, quarantineVars, incidentVars, leaseVars,
      gateVars, workVars, jobVars, busVars, dagVars,
      ascentVars, driveVars, poolVars, routerVars, syncVars, eventVars,
      watchVars, approvalVars, heapVars, treeVars, bVars, rangeVars,
      trieVars, orderedVars, hashVars>>

(* Only the part that moves may begin in more than one way. *)
OneBeginning ==
    /\ part # "titan" => order = [j \in Jobs |-> Command1]
    /\ part # "rollback" => files = [x \in Paths |-> Absent]
    /\ part # "bridge" => kernel = "mock"
    /\ part # "breaker" => kind = "core"
    /\ part # "window" => limiter = "policy"
    /\ part # "heap" => heapKind = "skew"
    /\ part # "tree" => treeKind = "avl"
    /\ part # "range" => rangeKind = "sum" /\ cells = [i \in 0..1 |-> 0]
    /\ part # "trie" => trieKind = "trie"
    /\ part # "ordered" => setKind = "skip"
    /\ part # "hash" => hashKind = "counting"
    /\ part # "config" => watcherKind = "toml"
    /\ tree = [m \in SourceFiles |-> a1]

ComponentsInit ==
    /\ part \in Parts /\ OneBeginning
    /\ TitanInit /\ RollbackInit /\ StoreInit /\ ScheduleInit /\ CronInit
    /\ BridgeInit /\ BreakerInit /\ WindowInit /\ QuarantineInit /\ IncidentInit
    /\ LeaseInit /\ GateInit /\ WorkInit /\ JobInit /\ BusInit
    /\ DagInit /\ AscentInit /\ DriveInit /\ SlotsInit /\ SyncInit /\ EventInit
    /\ WatchInit /\ ApprovalInit /\ HeapInit /\ TreeInit /\ BInit /\ RangeInit
    /\ TrieInit /\ OrderedInit /\ HashInit

(* All parts but this one, which is the one of this behaviour, stand still. *)
Only(this) ==
    /\ part = this /\ UNCHANGED part
    /\ IF this = "titan" THEN TRUE ELSE UNCHANGED titanVars
    /\ IF this = "rollback" THEN TRUE ELSE UNCHANGED rollbackVars
    /\ IF this = "store" THEN TRUE ELSE UNCHANGED storeVars
    /\ IF this = "schedule" THEN TRUE ELSE UNCHANGED scheduleVars
    /\ IF this = "cron" THEN TRUE ELSE UNCHANGED cronVars
    /\ IF this = "bridge" THEN TRUE ELSE UNCHANGED bridgeVars
    /\ IF this = "breaker" THEN TRUE ELSE UNCHANGED breakerVars
    /\ IF this = "window" THEN TRUE ELSE UNCHANGED windowVars
    /\ IF this = "quarantine" THEN TRUE ELSE UNCHANGED quarantineVars
    /\ IF this = "incident" THEN TRUE ELSE UNCHANGED incidentVars
    /\ IF this = "lease" THEN TRUE ELSE UNCHANGED leaseVars
    /\ IF this = "gate" THEN TRUE ELSE UNCHANGED gateVars
    /\ IF this = "work" THEN TRUE ELSE UNCHANGED workVars
    /\ IF this = "job" THEN TRUE ELSE UNCHANGED jobVars
    /\ IF this = "redis" THEN TRUE ELSE UNCHANGED busVars
    /\ IF this = "dag" THEN TRUE ELSE UNCHANGED dagVars
    /\ IF this = "ascent" THEN TRUE ELSE UNCHANGED ascentVars
    /\ IF this = "drive" THEN TRUE ELSE UNCHANGED driveVars
    /\ IF this = "pool" THEN TRUE ELSE UNCHANGED poolVars
    /\ IF this = "router" THEN TRUE ELSE UNCHANGED routerVars
    /\ IF this = "sync" THEN TRUE ELSE UNCHANGED syncVars
    /\ IF this = "events" THEN TRUE ELSE UNCHANGED eventVars
    /\ IF this = "config" THEN TRUE ELSE UNCHANGED watchVars
    /\ IF this = "approval" THEN TRUE ELSE UNCHANGED approvalVars
    /\ IF this = "heap" THEN TRUE ELSE UNCHANGED heapVars
    /\ IF this = "tree" THEN TRUE ELSE UNCHANGED treeVars
    /\ IF this = "btree" THEN TRUE ELSE UNCHANGED bVars
    /\ IF this = "range" THEN TRUE ELSE UNCHANGED rangeVars
    /\ IF this = "trie" THEN TRUE ELSE UNCHANGED trieVars
    /\ IF this = "ordered" THEN TRUE ELSE UNCHANGED orderedVars
    /\ IF this = "hash" THEN TRUE ELSE UNCHANGED hashVars

ComponentsNext ==
    \/ Only("titan") /\ TitanNext
    \/ Only("rollback") /\ RollbackNext
    \/ Only("store") /\ StoreNext
    \/ Only("schedule") /\ ScheduleNext
    \/ Only("cron") /\ CronNext
    \/ Only("bridge") /\ BridgeNext
    \/ Only("breaker") /\ BreakerNext
    \/ Only("window") /\ WindowNext
    \/ Only("quarantine") /\ QuarantineNext
    \/ Only("incident") /\ IncidentNext
    \/ Only("lease") /\ LeaseNext
    \/ Only("gate") /\ GateNext
    \/ Only("work") /\ WorkNext
    \/ Only("job") /\ JobNext
    \/ Only("redis") /\ BusNext
    \/ Only("dag") /\ DagNext
    \/ Only("ascent") /\ AscentNext
    \/ Only("drive") /\ DriveNext
    \/ Only("pool") /\ PoolNext
    \/ Only("router") /\ RouterNext
    \/ Only("sync") /\ SyncNext
    \/ Only("events") /\ EventNext
    \/ Only("config") /\ WatchNext
    \/ Only("approval") /\ ApprovalNext
    \/ Only("heap") /\ HeapNext
    \/ Only("tree") /\ TreeNext
    \/ Only("btree") /\ BNext
    \/ Only("range") /\ RangeNext
    \/ Only("trie") /\ TrieNext
    \/ Only("ordered") /\ OrderedNext
    \/ Only("hash") /\ HashNext

ComponentsSpec == ComponentsInit /\ [][ComponentsNext]_componentsVars /\ TitanFairness

-----------------------------------------------------------------------------
(* However keys, words and intervals come and go, the ordered structures     *)
(* hold what they should, keep their shape and answer by it.                 *)
LookupsAgree ==
    /\ part = "tree" => TreesAgree
    /\ part = "btree" => BTreeAgrees
    /\ part = "ordered" => OrderedAgree
    /\ part = "trie" => WordsAgree
=============================================================================
