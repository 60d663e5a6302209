--------------------------- MODULE CampaignProofs ---------------------------
(***************************************************************************)
(* A node of a campaign is dispatched once at most and after what it         *)
(* depends on; the file only moves forward; the first run leaves nothing     *)
(* unsettled; and a rollback goes in reverse.  For every graph, every plan,  *)
(* with or without a guard, and whatever crashes and second runs there are.  *)
(***************************************************************************)
EXTENDS Campaign, SequenceTheorems, TLAPS

(* The part of the type invariant the argument needs. *)
StatesOK ==
    /\ node \in [Nodes -> NodeStatus]
    /\ file.node \in [Nodes -> NodeStatus]
    /\ step \in [Nodes -> {"none", "start", "planning", "stall", "stub", "titan",
                           "record", "done"}]
    /\ dispatched \in [Nodes -> Nat]

(* Where _execute_node is tells the status of its node: the guard's thread   *)
(* touches nodes that have SUCCEEDED only.                                   *)
StepTellsStatus ==
    \A n \in Nodes :
        /\ step[n] = "start" => node[n] = "pending"
        /\ step[n] = "planning" => node[n] = "planning"
        /\ step[n] = "stall" => node[n] = "awaiting_approval"
        /\ step[n] \in {"stub", "titan"} => node[n] = "running"

(* Between two layers no coroutine is left. *)
RestsBetween == run.pc # "gather" => step = Resting

(* A node about to start was ready. *)
StartsReady ==
    \A n \in Nodes : step[n] = "start" =>
        \A d \in DependsOn[n] : node[d] \in {"succeeded", "rolled_back"}

(* What was dispatched is neither PENDING nor PLANNING, and the file knows. *)
DispatchIsKnown ==
    \A n \in Nodes : dispatched[n] # 0 =>
        /\ node[n] \notin {"pending", "planning"}
        /\ file.node[n] \notin {"pending", "planning"}

CampaignInv ==
    /\ StatesOK /\ StepTellsStatus /\ RestsBetween /\ StartsReady
    /\ DispatchIsKnown /\ DispatchedOnce /\ DependenciesRan

LEMMA InvInit == CampaignInit => CampaignInv
BY NodesAssumption DEF CampaignInit, CampaignInv, StatesOK, StepTellsStatus, RestsBetween,
   StartsReady, DispatchIsKnown, DispatchedOnce, DependenciesRan, NodeStatus, Resting, NoRun

(***************************************************************************)
(* Most steps start nothing: a node may be rolled back, or skipped if no     *)
(* coroutine runs it, and what is saved is what is in memory.                *)
(***************************************************************************)
StartsNothing ==
    /\ node' \in [Nodes -> NodeStatus]
    /\ \A n \in Nodes :
        \/ node'[n] = node[n]
        \/ node[n] = "succeeded" /\ node'[n] = "rolled_back"
        \/ node[n] = "pending" /\ node'[n] = "skipped" /\ step'[n] = "none"
    /\ step' = step \/ step' = Resting \/ \E n \in Nodes : StepTo(n, "done")
    /\ run'.pc # "gather" => step' = Resting
    /\ file'.node = file.node \/ file'.node = node'
    /\ UNCHANGED dispatched

LEMMA QuietKeeps ==
    ASSUME CampaignInv, StartsNothing
    PROVE  CampaignInv'
<1>1. \A n \in Nodes : step'[n] \in {step[n], "none", "done"}
  BY DEF StartsNothing, Resting, StepTo, CampaignInv, StatesOK
<1>2. StatesOK'
  BY DEF StartsNothing, Resting, StepTo, CampaignInv, StatesOK
<1>3. StepTellsStatus'
  BY <1>1 DEF StartsNothing, CampaignInv, StepTellsStatus
<1>4. RestsBetween'
  BY DEF StartsNothing, RestsBetween, Resting
<1>5. StartsReady'
  BY <1>1, NodesAssumption DEF StartsNothing, CampaignInv, StartsReady
<1>6. DispatchIsKnown' /\ DispatchedOnce'
  BY DEF StartsNothing, CampaignInv, DispatchIsKnown, DispatchedOnce
<1>7. DependenciesRan'
  <2>1. \A n \in Nodes : node'[n] \notin {"pending", "skipped"} =>
           \A d \in DependsOn[n] : node'[d] \in {"succeeded", "rolled_back"}
    BY NodesAssumption DEF StartsNothing, CampaignInv, DependenciesRan
  <2> QED
    BY <2>1 DEF StartsNothing, CampaignInv, DependenciesRan
<1> QED
  BY <1>2, <1>3, <1>4, <1>5, <1>6, <1>7 DEF CampaignInv

LEMMA SkipIsQuiet ==
    ASSUME StatesOK, NEW some, node' = Skip(some) \/ node' = node, step' = Resting
    PROVE  /\ node' \in [Nodes -> NodeStatus]
           /\ \A n \in Nodes :
                \/ node'[n] = node[n]
                \/ node[n] = "pending" /\ node'[n] = "skipped" /\ step'[n] = "none"
BY DEF StatesOK, Skip, NodeStatus, Resting

LEMMA RollBackIsQuiet ==
    ASSUME StatesOK, NEW n, RollBack(n)
    PROVE  /\ node' \in [Nodes -> NodeStatus]
           /\ \A m \in Nodes :
                \/ node'[m] = node[m]
                \/ node[m] = "succeeded" /\ node'[m] = "rolled_back"
BY DEF StatesOK, RollBack, Becomes, NodeStatus

LEMMA RunIsQuiet ==
    ASSUME CampaignInv, StartRun \/ LoopEnds \/ LayerEnds \/ Settle \/ Verdict
                        \/ RunRollsBack \/ Finish
    PROVE  StartsNothing
<1> USE DEF CampaignInv
<1>1. CASE StartRun
  BY <1>1 DEF StartRun, StartsNothing, Save, StatesOK, RestsBetween, Resting, NoRun
<1>2. CASE LoopEnds
  <2>1. step' = Resting
    BY <1>2 DEF LoopEnds, RestsBetween
  <2> QED
    BY <1>2, <2>1, SkipIsQuiet DEF LoopEnds, StartsNothing
<1>3. CASE LayerEnds
  <2>1. \E some : node' = Skip(some) \/ node' = node
    BY <1>3 DEF LayerEnds
  <2> QED
    BY <1>3, <2>1, SkipIsQuiet DEF LayerEnds, StartsNothing
<1>4. CASE Settle \/ Verdict \/ Finish
  BY <1>4 DEF Settle, Verdict, Finish, StartsNothing, Save, StatesOK, RestsBetween,
     Resting, NoRun
<1>5. CASE RunRollsBack
  <2>1. node' = node \/ RollBack(Last(run.order))
    BY <1>5 DEF RunRollsBack
  <2> QED
    BY <1>5, <2>1, RollBackIsQuiet DEF RunRollsBack, StartsNothing, StatesOK, RestsBetween
<1> QED
  BY <1>1, <1>2, <1>3, <1>4, <1>5

LEMMA UndoIsQuiet ==
    ASSUME CampaignInv, UndoNext
    PROVE  StartsNothing
<1> USE DEF CampaignInv
<1>1. CASE UndoStarts \/ UndoFinishes
  BY <1>1 DEF UndoStarts, UndoFinishes, StartsNothing, Save, StatesOK, RestsBetween
<1>2. CASE UndoRollsBack
  <2>1. node' = node \/ RollBack(Last(undo.order))
    BY <1>2 DEF UndoRollsBack
  <2> QED
    BY <1>2, <2>1, RollBackIsQuiet DEF UndoRollsBack, StartsNothing, StatesOK, RestsBetween
<1> QED
  BY <1>1, <1>2 DEF UndoNext

LEMMA StartLayerKeeps ==
    ASSUME CampaignInv, StartLayer
    PROVE  CampaignInv'
<1> USE DEF CampaignInv, StartLayer
<1>1. StatesOK'
  BY DEF StatesOK
<1>2. StepTellsStatus' /\ StartsReady'
  BY NodesAssumption DEF StepTellsStatus, StartsReady, Ready, NodesIn
<1>3. RestsBetween'
  BY DEF RestsBetween, Resting
<1>4. DispatchIsKnown' /\ DispatchedOnce' /\ DependenciesRan'
  BY DEF DispatchIsKnown, DispatchedOnce, DependenciesRan
<1> QED
  BY <1>1, <1>2, <1>3, <1>4

(***************************************************************************)
(* One node moves on, before it has succeeded: nothing that needs it has     *)
(* started yet.                                                              *)
(***************************************************************************)
MovesTo(n, s, pc) ==
    /\ Becomes(n, s) /\ StepTo(n, pc) /\ run'.pc = run.pc /\ run.pc = "gather"
    /\ pc = "planning" <=> s = "planning"
    /\ pc = "stall" => s = "awaiting_approval"
    /\ pc \in {"stub", "titan"} => s = "running"
    /\ node[n] \in {"pending", "planning", "awaiting_approval", "running"}
    /\ node[n] = "pending" => step[n] = "start"
    /\ s = "planning" => node[n] = "pending"
    /\ s \in {"awaiting_approval", "running"} => node[n] = "planning"
    /\ file'.node = file.node \/ file'.node = node'
    /\ \/ UNCHANGED dispatched
       \/ /\ dispatched' = [dispatched EXCEPT ![n] = @ + 1]
          /\ node[n] = "planning" /\ s = "running" /\ file'.node = node'

MovesOn(n) ==
    \E s \in {"planning", "awaiting_approval", "running", "succeeded", "failed"},
       pc \in {"planning", "stall", "stub", "titan", "record", "done"} : MovesTo(n, s, pc)

LEMMA NodeMoves ==
    ASSUME CampaignInv,
           NEW n \in Nodes,
           NEW s \in {"planning", "awaiting_approval", "running", "succeeded", "failed"},
           NEW pc \in {"planning", "stall", "stub", "titan", "record", "done"},
           MovesTo(n, s, pc)
    PROVE  CampaignInv'
<1> USE DEF CampaignInv, MovesTo, Becomes, StepTo
<1>1. StatesOK'
  <2>0. /\ node \in [Nodes -> NodeStatus] /\ file.node \in [Nodes -> NodeStatus]
        /\ node' = [node EXCEPT ![n] = s] /\ file'.node \in {file.node, node'} /\ s \in NodeStatus
    BY DEF StatesOK, NodeStatus
  <2>1. node' \in [Nodes -> NodeStatus] /\ file'.node \in [Nodes -> NodeStatus]
    <3> HIDE DEF CampaignInv, MovesTo, Becomes, StepTo
    <3> QED
      BY <2>0
  <2>2. dispatched' \in [Nodes -> Nat]
    BY DEF StatesOK
  <2>3. step' \in [Nodes -> {"none", "start", "planning", "stall", "stub", "titan",
                             "record", "done"}]
    BY DEF StatesOK
  <2> QED
    BY <2>1, <2>2, <2>3 DEF StatesOK
<1>2. StepTellsStatus'
  BY DEF StatesOK, StepTellsStatus
<1>3. RestsBetween'
  BY DEF RestsBetween
<1>4. \A m \in Nodes : step[m] = "start" \/ node[m] \notin {"pending", "skipped"} =>
         n \notin DependsOn[m]
  BY DEF StartsReady, DependenciesRan
<1>5. \A d \in DependsOn[n] : node[d] \in {"succeeded", "rolled_back"}
  BY DEF StartsReady, DependenciesRan
<1>6. \A m \in Nodes : m # n => node'[m] = node[m] /\ step'[m] = step[m]
  BY DEF StatesOK
<1>7. StartsReady'
  BY <1>4, <1>5, <1>6, NodesAssumption DEF StartsReady, StatesOK
<1>8. DispatchIsKnown' /\ DispatchedOnce'
  <2>1. \A m \in Nodes : m # n => dispatched'[m] = dispatched[m]
    BY DEF StatesOK
  <2>2. node'[n] = s /\ (dispatched'[n] = dispatched[n]
                            \/ /\ dispatched'[n] = dispatched[n] + 1
                               /\ node[n] = "planning" /\ s = "running" /\ file'.node = node')
    BY DEF StatesOK
  <2>3. node[n] \in {"pending", "planning"} => dispatched[n] = 0
    BY DEF DispatchIsKnown
  <2>4. s = "planning" => dispatched'[n] = 0
    BY <2>2, <2>3
  <2>5. dispatched[n] \in Nat /\ dispatched[n] <= 1
    BY DEF StatesOK, DispatchedOnce
  <2>6. DispatchedOnce'
    BY <2>1, <2>2, <2>3, <2>5 DEF DispatchedOnce
  <2>7. DispatchIsKnown'
    BY <1>6, <2>1, <2>2, <2>4 DEF DispatchIsKnown
  <2> QED
    BY <2>6, <2>7
<1>9. DependenciesRan'
  <2>1. \A m \in Nodes : node'[m] \notin {"pending", "skipped"} =>
           \A d \in DependsOn[m] : node'[d] \in {"succeeded", "rolled_back"}
    BY <1>4, <1>5, <1>6, NodesAssumption DEF DependenciesRan, StatesOK
  <2> QED
    BY <2>1 DEF DependenciesRan
<1> QED
  BY <1>1, <1>2, <1>3, <1>7, <1>8, <1>9

LEMMA NodeStep ==
    ASSUME CampaignInv, NEW n \in Nodes, NodeNext(n)
    PROVE  StartsNothing \/ MovesOn(n)
<1> USE DEF NodeAt, CampaignInv, StepTellsStatus, MovesOn, MovesTo
<1>1. CASE AskPlan(n)
  BY <1>1 DEF AskPlan, Save
<1>2. CASE Dispatch(n)
  <2>1. \E pc \in {"stub", "titan"} : StepTo(n, pc)
    BY <1>2 DEF Dispatch
  <2> QED
    BY <1>2, <2>1 DEF Dispatch, Save
<1>3. CASE NeedApproval(n)
  BY <1>3 DEF NeedApproval, Save
<1>4. CASE Stall(n) \/ TitanAnswers(n)
  <2>1. NodeFails(n) /\ run.pc = "gather"
           /\ node[n] \in {"awaiting_approval", "running"}
    BY <1>4 DEF Stall, TitanAnswers, RestsBetween, Resting
  <2> QED
    BY <2>1 DEF NodeFails, Save
<1>5. CASE NodeSucceeds(n)
  <2>1. run'.pc = run.pc
    BY <1>5 DEF NodeSucceeds
  <2> QED
    BY <1>5, <2>1 DEF NodeSucceeds
<1>6. CASE RecordSuccess(n)
  BY <1>6 DEF RecordSuccess, StartsNothing, Save, StatesOK
<1> QED
  BY <1>1, <1>2, <1>3, <1>4, <1>5, <1>6 DEF NodeNext

LEMMA NodeKeeps ==
    ASSUME CampaignInv, NEW n \in Nodes, NodeNext(n)
    PROVE  CampaignInv'
BY NodeStep, NodeMoves, QuietKeeps DEF MovesOn

(* A crash takes memory back to the file, which kept the same promises. *)
LEMMA CrashKeeps ==
    ASSUME CampaignInv, CrashAndReload
    PROVE  CampaignInv'
<1> USE DEF CampaignInv, CrashAndReload, Loaded
<1>1. StatesOK' /\ StepTellsStatus' /\ RestsBetween' /\ StartsReady'
  BY DEF StatesOK, Resting, StepTellsStatus, RestsBetween, StartsReady
<1>2. DispatchIsKnown' /\ DispatchedOnce'
  BY DEF DispatchIsKnown, DispatchedOnce
<1>3. DependenciesRan'
  BY DEF DependenciesRan
<1> QED
  BY <1>1, <1>2, <1>3

LEMMA StutterKeeps ==
    ASSUME CampaignInv, UNCHANGED campaignVars
    PROVE  CampaignInv'
BY DEF campaignVars, CampaignInv, StatesOK, StepTellsStatus, RestsBetween, Resting,
   StartsReady, DispatchIsKnown, DispatchedOnce, DependenciesRan

(* The invariant of the argument: see its conjuncts above. *)
THEOREM CampaignInvariant == CampaignSpec => []CampaignInv
<1>1. CampaignInit => CampaignInv
  BY InvInit
<1>2. CampaignInv /\ [CampaignNext]_campaignVars => CampaignInv'
  BY RunIsQuiet, UndoIsQuiet, QuietKeeps, StartLayerKeeps, NodeKeeps, CrashKeeps, StutterKeeps
     DEF CampaignNext, RunGoesOn
<1> QED
  BY <1>1, <1>2, PTL DEF CampaignSpec

(* No node of a campaign is dispatched twice, whatever crashes between its   *)
(* saves and however often run_campaign is called again.                     *)
THEOREM NodesDispatchedOnce == CampaignSpec => []DispatchedOnce
BY CampaignInvariant, PTL DEF CampaignInv

(* A node that has started, in memory and in the file, stands on             *)
(* dependencies that all succeeded.                                          *)
THEOREM NodesAfterDependencies == CampaignSpec => []DependenciesRan
BY CampaignInvariant, PTL DEF CampaignInv

-----------------------------------------------------------------------------
(***************************************************************************)
(* Shapes: the other half of the type invariant. (Of the guard's order       *)
(* nothing is needed.)                                                       *)
(***************************************************************************)
RunKind ==
    [pc : {"idle", "loop", "gather", "settle", "verdict", "rollback", "finish"},
     pending : SUBSET Nodes, layer : SUBSET Nodes, order : Seq(Nodes)]

ShapesOK ==
    /\ status \in CampaignStatus
    /\ run \in RunKind
    /\ guard \in [attached : BOOLEAN, fails : Nat, triggered : BOOLEAN]
    /\ file.status \in CampaignStatus
    /\ calls \in [run : Nat, crash : Nat]

LEMMA FrontAndLast ==
    ASSUME NEW s \in Seq(Nodes), s # <<>>
    PROVE  /\ Len(s) \in Nat \ {0} /\ Last(s) = s[Len(s)] /\ Last(s) \in Nodes
           /\ Front(s) \in Seq(Nodes) /\ Len(Front(s)) = Len(s) - 1
           /\ \A i \in 1..Len(s) - 1 : Front(s)[i] = s[i]
<1>1. Len(s) \in Nat \ {0}
  BY EmptySeq
<1> DEFINE k == Len(s) - 1
<1>2. k \in Nat /\ k <= Len(s) /\ 1 - 1 <= k /\ k - 1 + 1 = k
  BY <1>1
<1>3. /\ SubSeq(s, 1, k) \in Seq(Nodes)
      /\ Len(SubSeq(s, 1, k)) = IF 1 <= k THEN k - 1 + 1 ELSE 0
      /\ \A i \in 1..k - 1 + 1 : SubSeq(s, 1, k)[i] = s[1 + i - 1]
  BY <1>1, <1>2, SubSeqProperties
<1> QED
  BY <1>1, <1>2, <1>3 DEF Front, Last

LEMMA ShapesInit == CampaignInit => ShapesOK
<1>1. <<>> \in Seq(Nodes)
  BY EmptySeq
<1> QED
  BY <1>1, CampaignBoundAssumption
     DEF CampaignInit, ShapesOK, CampaignStatus, NoRun, RunKind

LEMMA ShapesStep ==
    ASSUME ShapesOK, [CampaignNext]_campaignVars
    PROVE  ShapesOK'
<1> USE DEF ShapesOK
<1>0. NoRun \in RunKind
  BY EmptySeq DEF NoRun, RunKind
<1>1. CASE StartRun
  <2>1. run' \in RunKind
    BY <1>0, <1>1 DEF StartRun, RunKind
  <2> QED
    BY <1>1, <2>1 DEF StartRun, Save, CampaignStatus
<1>2. CASE StartLayer \/ LoopEnds \/ LayerEnds
  <2>1. Ready \in SUBSET Nodes
    BY DEF Ready, RunKind
  <2>2. CASE StartLayer
    BY <2>1, <2>2 DEF StartLayer, RunKind
  <2>3. CASE LoopEnds
    BY <2>3 DEF LoopEnds, RunKind
  <2>4. CASE LayerEnds
    BY <2>4 DEF LayerEnds, RunKind
  <2> QED
    BY <1>2, <2>2, <2>3, <2>4
<1>3. CASE Settle \/ Verdict \/ Finish
  <2>1. run' \in RunKind
    BY <1>0, <1>3 DEF Settle, Verdict, Finish, RunKind
  <2> QED
    BY <1>3, <2>1 DEF Settle, Verdict, Finish, Save, CampaignStatus
<1>4. CASE RunRollsBack
  <2>1. run.order # <<>> => Front(run.order) \in Seq(Nodes)
    BY FrontAndLast DEF RunKind
  <2>2. run' \in RunKind
    BY <1>4, <2>1 DEF RunRollsBack, RunKind
  <2> QED
    BY <1>4, <2>2 DEF RunRollsBack, CampaignStatus
<1>5. ASSUME NEW n \in Nodes, NodeNext(n) PROVE ShapesOK'
  <2>1. CASE AskPlan(n) \/ Dispatch(n) \/ NeedApproval(n) \/ RecordSuccess(n)
    BY <2>1 DEF AskPlan, Dispatch, NeedApproval, RecordSuccess, Save
  <2>2. CASE Stall(n) \/ TitanAnswers(n)
    <3>1. NodeFails(n)
      BY <2>2 DEF Stall, TitanAnswers
    <3>2. NodeFailedEvent /\ UNCHANGED <<run, status, calls>> /\ Save
      BY <3>1 DEF NodeFails
    <3>3. guard' \in [attached : BOOLEAN, fails : Nat, triggered : BOOLEAN]
      <4>1. CASE UNCHANGED guard
        BY <4>1
      <4>2. CASE ~UNCHANGED guard
        <5>1. PICK recent \in 1..(guard.fails + 1) :
                guard' = [guard EXCEPT !.fails = recent, !.triggered = recent >= Threshold]
          BY <3>2, <4>2 DEF NodeFailedEvent
        <5>2. recent \in Nat /\ (recent >= Threshold) \in BOOLEAN
          BY CampaignBoundAssumption
        <5> QED
          BY <5>1, <5>2
      <4> QED
        BY <4>1, <4>2
    <3> QED
      BY <3>2, <3>3 DEF Save
  <2>3. CASE NodeSucceeds(n)
    <3>1. run.order \in Seq(Nodes)
      BY DEF RunKind
    <3>2. Append(run.order, n) \in Seq(Nodes)
      BY <3>1, AppendProperties
    <3> QED
      BY <2>3, <3>2 DEF NodeSucceeds, RunKind
  <2> QED
    BY <1>5, <2>1, <2>2, <2>3 DEF NodeNext
<1>6. CASE UndoNext
  <2>1. CASE UndoStarts
    BY <2>1 DEF UndoStarts
  <2>2. CASE UndoRollsBack
    BY <2>2 DEF UndoRollsBack, CampaignStatus
  <2>3. CASE UndoFinishes
    BY <2>3 DEF UndoFinishes, Save
  <2> QED
    BY <1>6, <2>1, <2>2, <2>3 DEF UndoNext
<1>7. CASE CrashAndReload
  <2>1. guard' \in [attached : BOOLEAN, fails : Nat, triggered : BOOLEAN]
    BY <1>7 DEF CrashAndReload
  <2> QED
    BY <1>0, <1>7, <2>1 DEF CrashAndReload
<1>8. CASE UNCHANGED campaignVars
  BY <1>8 DEF campaignVars
<1> QED
  BY <1>1, <1>2, <1>3, <1>4, <1>5, <1>6, <1>7, <1>8 DEF CampaignNext, RunGoesOn

-----------------------------------------------------------------------------
(***************************************************************************)
(* The file only moves forward: memory is never behind it, no step of the    *)
(* program takes a node back, and a crash does not write.                    *)
(***************************************************************************)
MemoryAhead == \A n \in Nodes : Rank(file.node[n]) <= Rank(node[n])

NodesForward == \A n \in Nodes : Rank(node[n]) <= Rank(node'[n])
FileForward == \A n \in Nodes : Rank(file'.node[n]) >= Rank(file.node[n])

LEMMA RankIsNat == \A s \in NodeStatus : Rank(s) \in Nat
BY DEF NodeStatus, Rank

LEMMA StartsNothingForward ==
    ASSUME CampaignInv, StartsNothing
    PROVE  NodesForward
<1>1. ASSUME NEW n \in Nodes PROVE Rank(node[n]) <= Rank(node'[n])
  <2>1. CASE node'[n] = node[n]
    BY <2>1, RankIsNat DEF CampaignInv, StatesOK
  <2>2. CASE node'[n] # node[n]
    BY <2>2 DEF StartsNothing, Rank
  <2> QED
    BY <2>1, <2>2
<1> QED
  BY <1>1 DEF NodesForward

LEMMA MovesOnForward ==
    ASSUME CampaignInv, NEW n \in Nodes, MovesOn(n)
    PROVE  NodesForward /\ (file'.node = file.node \/ file'.node = node')
<1>1. PICK s \in {"planning", "awaiting_approval", "running", "succeeded", "failed"},
           pc \in {"planning", "stall", "stub", "titan", "record", "done"} : MovesTo(n, s, pc)
  BY DEF MovesOn
<1>2. \A m \in Nodes : node'[m] = IF m = n THEN s ELSE node[m]
  BY <1>1 DEF MovesTo, Becomes, CampaignInv, StatesOK
<1>3. Rank(node[n]) <= Rank(s)
  BY <1>1 DEF MovesTo, Rank
<1>4. \A m \in Nodes : Rank(node[m]) <= Rank(node[m])
  BY RankIsNat DEF CampaignInv, StatesOK
<1> QED
  BY <1>1, <1>2, <1>3, <1>4 DEF MovesTo, NodesForward

LEMMA FileStep ==
    ASSUME CampaignInv, CampaignInv', MemoryAhead, [CampaignNext]_campaignVars
    PROVE  MemoryAhead' /\ FileForward
<1>1. \/ NodesForward /\ (file'.node = file.node \/ file'.node = node')
      \/ UNCHANGED file /\ node' = file.node
  <2>1. StartsNothing => NodesForward /\ (file'.node = file.node \/ file'.node = node')
    BY StartsNothingForward DEF StartsNothing
  <2>2. CASE StartLayer \/ UNCHANGED campaignVars
    BY <2>2, RankIsNat DEF StartLayer, campaignVars, NodesForward, CampaignInv, StatesOK
  <2>3. CASE \E n \in Nodes : NodeNext(n)
    BY <2>1, <2>3, NodeStep, MovesOnForward
  <2>4. CASE CrashAndReload
    BY <2>4 DEF CrashAndReload, Loaded
  <2> QED
    BY <2>1, <2>2, <2>3, <2>4, RunIsQuiet, UndoIsQuiet DEF CampaignNext, RunGoesOn
<1>2. \A n \in Nodes : /\ Rank(node[n]) \in Nat /\ Rank(node'[n]) \in Nat
                       /\ Rank(file.node[n]) \in Nat /\ Rank(file'.node[n]) \in Nat
  BY RankIsNat DEF CampaignInv, StatesOK
<1> QED
  BY <1>1, <1>2 DEF MemoryAhead, NodesForward, FileForward

(* Whoever saves, and whatever it had read before, the file never takes a    *)
(* node back to an earlier state.                                            *)
THEOREM FileOnlyForward == CampaignSpec => FileMovesForward
<1>1. CampaignInit => MemoryAhead
  BY RankIsNat DEF CampaignInit, MemoryAhead, NodeStatus
<1>2. CampaignInv /\ CampaignInv' /\ MemoryAhead /\ [CampaignNext]_campaignVars =>
         MemoryAhead' /\ [FileForward]_campaignVars
  BY FileStep
<1>3. CampaignSpec => []MemoryAhead
  BY <1>1, <1>2, CampaignInvariant, PTL DEF CampaignSpec
<1> QED
  BY <1>2, <1>3, CampaignInvariant, PTL DEF CampaignSpec, FileMovesForward, FileForward

-----------------------------------------------------------------------------
(***************************************************************************)
(* What holds of the first run of a campaign, if the graph is acyclic, as    *)
(* campaign/__init__.py says a campaign is (the engine does not check it: of *)
(* a cycle every node is skipped, and the campaign SUCCEEDED).               *)
(***************************************************************************)
Acyclic == \A S \in SUBSET Nodes : S # {} => \E n \in S : DependsOn[n] \cap S = {}

FirstRun == calls.crash = 0 /\ calls.run <= 1
Failed == NodesIn({"failed"}) # {}

(* Before it, nothing has happened. *)
NothingBefore ==
    calls.run = 0 => /\ run.pc = "idle" /\ status = "pending"
                     /\ \A n \in Nodes : node[n] = "pending"

(* Nobody rolls back, and nobody says so, unless a node failed. *)
TroubleHasCause ==
    \/ status \in {"failed", "rolled_back"} \/ run.pc = "rollback"
    \/ guard.triggered \/ undo.pc # "idle" \/ NodesIn({"rolled_back"}) # {}
    => Failed

(* At the head of the loop all that is not pending has succeeded. *)
LoopInv ==
    run.pc = "loop" =>
        \A n \in Nodes : node[n] = IF n \in run.pending THEN "pending" ELSE "succeeded"

(* The nodes of a layer, and they only, are somewhere in _execute_node. *)
GatherInv ==
    run.pc = "gather" =>
        /\ run.layer \subseteq run.pending
        /\ \A n \in Nodes :
             /\ n \in run.layer <=> step[n] # "none"
             /\ n \notin run.pending => node[n] \in {"succeeded", "rolled_back"}
             /\ n \in run.pending \ run.layer => node[n] = "pending"
             /\ step[n] \in {"record", "done"} =>
                    node[n] \in {"succeeded", "failed", "rolled_back"}

(* After the loop every node is in a final state. *)
EndInv ==
    calls.run = 1 /\ run.pc \notin {"loop", "gather"} =>
        /\ \A n \in Nodes : node[n] \in {"succeeded", "failed", "rolled_back", "skipped"}
        /\ ~Failed => \A n \in Nodes : node[n] = "succeeded"

(* After Settle the campaign is SUCCEEDED if and only if no node failed. *)
StatusInv ==
    calls.run = 1 /\ run.pc \in {"verdict", "rollback", "finish", "idle"} =>
        (status = "succeeded" <=> ~Failed)

Outcome == NothingBefore /\ TroubleHasCause /\ LoopInv /\ GatherInv /\ EndInv /\ StatusInv
OutcomeInv == FirstRun => Outcome

LEMMA OutcomeInit == CampaignInit => OutcomeInv
BY DEF CampaignInit, OutcomeInv, Outcome, FirstRun, NothingBefore, TroubleHasCause, LoopInv,
   GatherInv, EndInv, StatusInv, Failed, NodesIn, NoRun, NoUndo

(* At the head of the loop nobody has failed. *)
LEMMA NoneFailedAtHead ==
    ASSUME run.pc = "loop", LoopInv
    PROVE  ~Failed
BY DEF LoopInv, Failed, NodesIn

(* A node that has FAILED stays FAILED while others go on. *)
LEMMA FailedStays ==
    ASSUME CampaignInv,
           \/ StartsNothing
           \/ \E n \in Nodes : MovesOn(n)
    PROVE  Failed => Failed'
<1> SUFFICES ASSUME Failed PROVE Failed'
  OBVIOUS
<1>1. PICK f \in Nodes : node[f] = "failed"
  BY DEF Failed, NodesIn
<1>2. node'[f] = "failed"
  <2>1. CASE StartsNothing
    BY <1>1, <2>1 DEF StartsNothing
  <2>2. ASSUME NEW n \in Nodes, MovesOn(n) PROVE node'[f] = "failed"
    BY <1>1, <2>2 DEF MovesOn, MovesTo, Becomes, CampaignInv, StatesOK
  <2> QED
    BY <2>1, <2>2
<1> QED
  BY <1>2 DEF Failed, NodesIn

LEMMA OutcomeOfStart ==
    ASSUME ShapesOK, FirstRun, FirstRun', Outcome, StartRun
    PROVE  Outcome'
<1>1. calls.run = 0 /\ calls'.run = 1
  BY DEF StartRun, FirstRun, ShapesOK
<1>2. /\ \A n \in Nodes : node[n] = "pending"
      /\ run'.pc = "loop" /\ run'.pending = Nodes /\ status' = "running"
  BY <1>1 DEF StartRun, Outcome, NothingBefore, NoRun
<1>3. TroubleHasCause'
  BY <1>2 DEF StartRun, Outcome, TroubleHasCause, Failed, NodesIn
<1>4. LoopInv'
  BY <1>2 DEF StartRun, LoopInv
<1> QED
  BY <1>1, <1>2, <1>3, <1>4 DEF Outcome, NothingBefore, GatherInv, EndInv, StatusInv

LEMMA OutcomeOfLayer ==
    ASSUME ShapesOK, CampaignInv, Outcome, StartLayer
    PROVE  Outcome'
<1>1. run.pc = "loop" /\ run'.pc = "gather" /\ run'.pending = run.pending
         /\ run'.layer = Ready /\ Ready \subseteq run.pending
  BY DEF StartLayer, ShapesOK, RunKind, Ready
<1>2. TroubleHasCause' /\ NothingBefore'
  BY <1>1 DEF StartLayer, Outcome, TroubleHasCause, NothingBefore, Failed, NodesIn
<1>3. GatherInv'
  BY <1>1 DEF StartLayer, Outcome, LoopInv, GatherInv
<1> QED
  BY <1>1, <1>2, <1>3 DEF Outcome, LoopInv, EndInv, StatusInv

(* Of an acyclic graph something is always ready, unless nothing is pending. *)
LEMMA SomethingIsReady ==
    ASSUME Acyclic, ShapesOK, run.pc = "loop", LoopInv, Ready = {}
    PROVE  run.pending = {}
<1> SUFFICES ASSUME run.pending # {} PROVE FALSE
  OBVIOUS
<1>1. run.pending \in SUBSET Nodes
  BY DEF ShapesOK, RunKind
<1>2. PICK n \in run.pending : DependsOn[n] \cap run.pending = {}
  BY <1>1 DEF Acyclic
<1>3. \A d \in DependsOn[n] : d \in Nodes /\ node[d] = "succeeded"
  BY <1>1, <1>2, NodesAssumption DEF LoopInv
<1>4. n \in Ready
  BY <1>1, <1>2, <1>3 DEF LoopInv, Ready, NodesIn
<1> QED
  BY <1>4

LEMMA OutcomeOfLoopEnd ==
    ASSUME Acyclic, ShapesOK, CampaignInv, Outcome, LoopEnds
    PROVE  Outcome'
<1>1. run.pc = "loop" /\ run'.pc = "settle"
  BY DEF LoopEnds, ShapesOK, RunKind
<1>2. run.pending = {}
  BY <1>1, SomethingIsReady DEF LoopEnds, Outcome
<1>3. node' = node /\ \A n \in Nodes : node[n] = "succeeded"
  BY <1>1, <1>2 DEF LoopEnds, Skip, CampaignInv, StatesOK, Outcome, LoopInv
<1>4. TroubleHasCause' /\ NothingBefore'
  BY <1>1, <1>3 DEF LoopEnds, Outcome, TroubleHasCause, NothingBefore, Failed, NodesIn
<1> QED
  BY <1>1, <1>3, <1>4 DEF Outcome, LoopInv, GatherInv, EndInv, StatusInv

LEMMA OutcomeOfLayerEnd ==
    ASSUME ShapesOK, CampaignInv, Outcome, LayerEnds
    PROVE  Outcome'
<1>0. Failed => Failed'
  BY RunIsQuiet, FailedStays
<1>1. /\ run.pc = "gather" /\ run'.pending = run.pending \ run.layer
      /\ run'.pc = IF Failed THEN "settle" ELSE "loop"
      /\ node' = IF Failed THEN Skip(run.pending \ run.layer) ELSE node
  BY DEF LayerEnds, ShapesOK, RunKind, Failed
<1>2. CASE Failed
  <2>1. \A n \in Nodes : node'[n] \in {"succeeded", "failed", "rolled_back", "skipped"}
    BY <1>1, <1>2 DEF LayerEnds, Skip, Outcome, GatherInv
  <2> QED
    BY <1>0, <1>1, <1>2, <2>1 DEF LayerEnds, Outcome, NothingBefore, TroubleHasCause,
       LoopInv, GatherInv, EndInv, StatusInv
<1>3. CASE ~Failed
  <2>1. \A n \in Nodes : node[n] \notin {"failed", "rolled_back"}
    BY <1>3 DEF Outcome, TroubleHasCause, Failed, NodesIn
  <2>2. LoopInv'
    BY <1>1, <1>3, <2>1 DEF LayerEnds, Outcome, GatherInv, LoopInv
  <2>3. TroubleHasCause' /\ NothingBefore'
    BY <1>1, <1>3 DEF LayerEnds, Outcome, TroubleHasCause, NothingBefore, Failed, NodesIn
  <2> QED
    BY <1>1, <1>3, <2>2, <2>3 DEF Outcome, GatherInv, EndInv, StatusInv
<1> QED
  BY <1>2, <1>3

LEMMA OutcomeOfEnd ==
    ASSUME ShapesOK, CampaignInv, FirstRun, Outcome, Settle \/ Verdict \/ RunRollsBack \/ Finish
    PROVE  Outcome'
<1>0. Failed => Failed'
  BY RunIsQuiet, FailedStays
<1>1. calls' = calls /\ calls.run = 1 /\ run.pc \in {"settle", "verdict", "rollback", "finish"}
  BY DEF ShapesOK, FirstRun, Outcome, NothingBefore, Settle, Verdict, RunRollsBack, Finish
<1>2. run'.pc \in {"verdict", "rollback", "finish", "idle"}
  BY DEF ShapesOK, RunKind, Settle, Verdict, RunRollsBack, Finish, NoRun
<1>3. CASE Settle \/ Verdict \/ Finish
  <2>1. node' = node /\ guard' = guard /\ undo' = undo
    BY <1>3 DEF Settle, Verdict, Finish
  <2>2. status' \in {"failed", "rolled_back"} => Failed
    BY <1>3 DEF Settle, Verdict, Finish, Outcome, TroubleHasCause, Failed
  <2>3. run'.pc = "rollback" => Failed
    BY <1>3 DEF Settle, Verdict, Finish, Outcome, TroubleHasCause, NoRun, ShapesOK, RunKind
  <2>4. status' = "succeeded" <=> ~Failed
    BY <1>1, <1>3 DEF Settle, Verdict, Finish, Outcome, StatusInv, Failed
  <2> QED
    BY <1>1, <1>2, <2>1, <2>2, <2>3, <2>4 DEF Outcome, NothingBefore, TroubleHasCause,
       LoopInv, GatherInv, EndInv, StatusInv, Failed, NodesIn
<1>4. CASE RunRollsBack
  <2>1. Failed /\ Failed'
    BY <1>0, <1>4 DEF RunRollsBack, Outcome, TroubleHasCause
  <2>2. status' = status \/ status' = "rolled_back"
    BY <1>4 DEF RunRollsBack
  <2>3. status # "succeeded"
    BY <1>1, <1>4, <2>1 DEF RunRollsBack, Outcome, StatusInv
  <2>4. \A n \in Nodes : node'[n] \in {"succeeded", "failed", "rolled_back", "skipped"}
    <3>1. node' = node \/ RollBack(Last(run.order))
      BY <1>4 DEF RunRollsBack
    <3>2. \A n \in Nodes : node'[n] = node[n] \/ node'[n] = "rolled_back"
      BY <3>1, RollBackIsQuiet DEF CampaignInv
    <3> QED
      BY <1>1, <3>2 DEF Outcome, EndInv
  <2> QED
    BY <1>1, <1>2, <2>1, <2>2, <2>3, <2>4 DEF Outcome, NothingBefore, TroubleHasCause,
       LoopInv, GatherInv, EndInv, StatusInv
<1> QED
  BY <1>3, <1>4

LEMMA OutcomeOfUndo ==
    ASSUME ShapesOK, CampaignInv, Outcome, UndoNext
    PROVE  Outcome'
<1>1. Failed /\ Failed'
  <2>1. Failed
    BY DEF UndoNext, UndoStarts, UndoRollsBack, UndoFinishes, Outcome, TroubleHasCause
  <2> QED
    BY <2>1, UndoIsQuiet, FailedStays
<1>2. \A n \in Nodes : \/ node'[n] = node[n]
                       \/ node[n] = "succeeded" /\ node'[n] = "rolled_back"
  <2>1. node' = node \/ RollBack(Last(undo.order))
    BY DEF UndoNext, UndoStarts, UndoRollsBack, UndoFinishes
  <2> QED
    BY <2>1, RollBackIsQuiet DEF CampaignInv
<1>3. run.pc # "loop"
  BY <1>1, NoneFailedAtHead DEF Outcome
<1>4. UNCHANGED <<run, step, guard, calls>> /\ (status' = status \/ status' = "rolled_back")
  BY DEF UndoNext, UndoStarts, UndoRollsBack, UndoFinishes
<1>5. NothingBefore'
  BY <1>1, <1>4 DEF Outcome, NothingBefore, Failed, NodesIn
<1>6. GatherInv'
  BY <1>2, <1>4 DEF Outcome, GatherInv
<1> QED
  BY <1>1, <1>2, <1>3, <1>4, <1>5, <1>6 DEF Outcome, TroubleHasCause, LoopInv,
     EndInv, StatusInv

LEMMA OutcomeOfNode ==
    ASSUME ShapesOK, CampaignInv, Outcome, NEW n \in Nodes, NodeNext(n)
    PROVE  Outcome'
<1>0. Failed => Failed'
  BY NodeStep, FailedStays
<1>1. run.pc = "gather" /\ n \in run.layer /\ step[n] \notin {"none", "done"}
  BY DEF NodeNext, AskPlan, Dispatch, NeedApproval, Stall, TitanAnswers, NodeSucceeds,
     RecordSuccess, NodeAt, CampaignInv, RestsBetween, Resting, Outcome, GatherInv
<1>2. /\ run'.pc = run.pc /\ run'.pending = run.pending /\ run'.layer = run.layer
      /\ UNCHANGED <<status, calls>>
  BY DEF NodeNext, AskPlan, Dispatch, NeedApproval, Stall, TitanAnswers, NodeFails,
     NodeSucceeds, RecordSuccess, ShapesOK, RunKind
<1>3. /\ \A m \in Nodes \ {n} : node'[m] = node[m] /\ step'[m] = step[m]
      /\ step'[n] # "none"
      /\ step'[n] \in {"record", "done"} => node'[n] \in {"succeeded", "failed", "rolled_back"}
      /\ node'[n] = node[n] \/ node'[n] # "rolled_back"
  <2>1. CASE AskPlan(n) \/ Dispatch(n) \/ NeedApproval(n) \/ NodeSucceeds(n)
    BY <2>1 DEF AskPlan, Dispatch, NeedApproval, NodeSucceeds, Becomes, StepTo,
       CampaignInv, StatesOK
  <2>2. CASE Stall(n) \/ TitanAnswers(n)
    BY <2>2 DEF Stall, TitanAnswers, NodeFails, Becomes, StepTo, CampaignInv, StatesOK
  <2>3. CASE RecordSuccess(n)
    BY <1>1, <2>3 DEF RecordSuccess, NodeAt, StepTo, CampaignInv, StatesOK, Outcome, GatherInv
  <2> QED
    BY <2>1, <2>2, <2>3 DEF NodeNext
<1>4. GatherInv'
  <2>1. n \in run.pending
    BY <1>1 DEF Outcome, GatherInv
  <2> QED
    BY <1>1, <1>2, <1>3, <2>1 DEF Outcome, GatherInv
<1>5. TroubleHasCause'
  <2>1. CASE Stall(n) \/ TitanAnswers(n)
    <3>1. node'[n] = "failed"
      BY <2>1 DEF Stall, TitanAnswers, NodeFails, Becomes, CampaignInv, StatesOK
    <3> QED
      BY <3>1 DEF TroubleHasCause, Failed, NodesIn
  <2>2. CASE UNCHANGED <<guard, undo>>
    BY <1>0, <1>2, <1>3, <2>2 DEF Outcome, TroubleHasCause, NodesIn
  <2> QED
    BY <2>1, <2>2 DEF NodeNext, AskPlan, Dispatch, NeedApproval, NodeSucceeds, RecordSuccess
<1> QED
  BY <1>1, <1>2, <1>4, <1>5 DEF Outcome, NothingBefore, LoopInv, EndInv, StatusInv

(* While the first run lasts there was no crash. *)
LEMMA OutcomeFirst ==
    ASSUME ShapesOK, [CampaignNext]_campaignVars, FirstRun'
    PROVE  FirstRun /\ ~CrashAndReload
BY DEF FirstRun, ShapesOK, CampaignNext, StartRun, RunGoesOn, StartLayer, LoopEnds, LayerEnds,
   Settle, Verdict, RunRollsBack, Finish, NodeNext, AskPlan, Dispatch, NeedApproval, Stall,
   TitanAnswers, NodeFails, NodeSucceeds, RecordSuccess, UndoNext, UndoStarts, UndoRollsBack,
   UndoFinishes, CrashAndReload, campaignVars

LEMMA OutcomeStep ==
    ASSUME Acyclic, ShapesOK, CampaignInv, OutcomeInv, [CampaignNext]_campaignVars
    PROVE  OutcomeInv'
<1> SUFFICES ASSUME FirstRun' PROVE Outcome'
  BY DEF OutcomeInv
<1>1. FirstRun /\ ~CrashAndReload
  BY OutcomeFirst
<1>2. Outcome
  BY <1>1 DEF OutcomeInv
<1>3. CASE UNCHANGED campaignVars
  BY <1>2, <1>3 DEF campaignVars, Outcome, NothingBefore, TroubleHasCause, LoopInv, GatherInv,
     EndInv, StatusInv, Failed, NodesIn
<1> QED
  BY <1>1, <1>2, <1>3, OutcomeOfStart, OutcomeOfLayer, OutcomeOfLoopEnd, OutcomeOfLayerEnd,
     OutcomeOfEnd, OutcomeOfNode, OutcomeOfUndo DEF CampaignNext, RunGoesOn

(* The shapes, for every graph. *)
THEOREM CampaignShapes == CampaignSpec => []ShapesOK
BY ShapesInit, ShapesStep, PTL DEF CampaignSpec

(* When the only run of an acyclic campaign is over every node is in a final *)
(* state, and the campaign SUCCEEDED if and only if all its nodes did.       *)
THEOREM RunSettlesAll == Acyclic /\ CampaignSpec => []SuccessIsComplete
<1> SUFFICES ASSUME Acyclic PROVE CampaignSpec => []SuccessIsComplete
  OBVIOUS
<1>1. CampaignSpec => []OutcomeInv
  BY OutcomeInit, OutcomeStep, CampaignShapes, CampaignInvariant, PTL DEF CampaignSpec
<1>2. ShapesOK /\ OutcomeInv => SuccessIsComplete
  BY DEF OutcomeInv, Outcome, FirstRun, EndInv, StatusInv, SuccessIsComplete, Over, Fresh,
     Failed, NodesIn, ShapesOK
<1> QED
  BY <1>1, <1>2, CampaignShapes, PTL

-----------------------------------------------------------------------------
(***************************************************************************)
(* The rollback of a campaign that no guard watches, through every run and   *)
(* every crash.                                                              *)
(***************************************************************************)

(* Only the nodes of the layer are somewhere in _execute_node. *)
WorkInLayer == \A n \in Nodes : step[n] # "none" => n \in run.layer

(* run.order holds nodes this run has seen succeed, each once. *)
OrderInv ==
    /\ \A i \in 1..Len(run.order) : node[run.order[i]] = "succeeded"
    /\ \A i, j \in 1..Len(run.order) : run.order[i] = run.order[j] => i = j

(* What depends on a node of the order is behind it, or still at work. *)
LaterInOrder ==
    \A i \in 1..Len(run.order) : \A n \in Nodes :
        run.order[i] \in DependsOn[n] /\ node[n] \in {"running", "succeeded"} =>
            \/ \E j \in (i + 1)..Len(run.order) : run.order[j] = n
            \/ step[n] \in {"stub", "titan"}

(* Nothing is rolled back under a node that is at work. *)
StandsOnSuccess ==
    \A n \in Nodes : step[n] \in {"start", "planning", "stub", "titan"} =>
        \A d \in DependsOn[n] : node[d] = "succeeded"

NobodyLeftStanding(states) ==
    \A n \in Nodes : \A d \in DependsOn[n] :
        states[d] = "rolled_back" => states[n] \notin {"running", "succeeded"}

Rollback ==
    /\ undo.pc = "idle" /\ WorkInLayer /\ OrderInv /\ LaterInOrder /\ StandsOnSuccess
    /\ NobodyLeftStanding(node) /\ NobodyLeftStanding(file.node)
RollbackInv == ~guard.attached => Rollback

LEMMA RollbackInit == CampaignInit => RollbackInv
BY DEF CampaignInit, RollbackInv, Rollback, WorkInLayer, OrderInv, LaterInOrder,
   StandsOnSuccess, NobodyLeftStanding, NoRun, NoUndo, Resting

LEMMA GuardStaysOrNot ==
    ASSUME ShapesOK, [CampaignNext]_campaignVars
    PROVE  /\ guard'.attached = guard.attached
           /\ ~guard.attached /\ undo.pc = "idle" => undo'.pc = "idle"
<1>1. ASSUME NEW n \in Nodes, NodeFails(n)
      PROVE  guard'.attached = guard.attached /\ (~guard.attached => UNCHANGED undo)
  BY <1>1 DEF NodeFails, NodeFailedEvent, ShapesOK
<1>2. ASSUME NEW n \in Nodes, NodeNext(n)
      PROVE  guard'.attached = guard.attached /\ (~guard.attached => UNCHANGED undo)
  BY <1>1, <1>2 DEF NodeNext, AskPlan, Dispatch, NeedApproval, Stall, TitanAnswers,
     NodeSucceeds, RecordSuccess
<1>3. CASE CrashAndReload
  BY <1>3 DEF CrashAndReload, NoUndo, ShapesOK
<1>4. CASE UndoNext
  <2>1. UNCHANGED guard /\ undo.pc # "idle"
    BY <1>4 DEF UndoNext, UndoStarts, UndoRollsBack, UndoFinishes
  <2> QED
    BY <2>1
<1>5. CASE StartRun \/ RunGoesOn \/ UNCHANGED campaignVars
  <2>1. UNCHANGED <<guard, undo>>
    BY <1>5 DEF StartRun, RunGoesOn, StartLayer, LoopEnds, LayerEnds, Settle, Verdict,
       RunRollsBack, Finish, campaignVars
  <2> QED
    BY <2>1
<1> QED
  BY <1>2, <1>3, <1>4, <1>5 DEF CampaignNext

(***************************************************************************)
(* Steps that leave the order, and what has run, as they are.                *)
(***************************************************************************)
LEMMA OrderKept ==
    ASSUME CampaignInv, Rollback,
           run'.order = run.order, undo'.pc = "idle", WorkInLayer', StandsOnSuccess',
           file'.node = file.node \/ file'.node = node',
           \A n \in Nodes :
             /\ node'[n] \in {"running", "succeeded", "rolled_back"} => node'[n] = node[n]
             /\ node[n] = "succeeded" => node'[n] = "succeeded"
             /\ node'[n] \in {"running", "succeeded"} /\ step[n] \in {"stub", "titan"}
                  => step'[n] \in {"stub", "titan"},
           run.order \in Seq(Nodes)
    PROVE  Rollback'
<1>0. \A i \in 1..Len(run.order) : run.order[i] \in Nodes
  BY ElementOfSeq
<1>1. OrderInv'
  BY <1>0 DEF Rollback, OrderInv
<1>2. LaterInOrder'
  BY DEF Rollback, LaterInOrder
<1>3. NobodyLeftStanding(node') /\ NobodyLeftStanding(file'.node)
  <2>1. NobodyLeftStanding(node')
    <3> SUFFICES ASSUME NEW n \in Nodes, NEW d \in DependsOn[n], node'[d] = "rolled_back",
                        node'[n] \in {"running", "succeeded"}
                 PROVE  FALSE
      BY DEF NobodyLeftStanding
    <3>1. d \in Nodes
      BY NodesAssumption
    <3>2. node[d] = "rolled_back" /\ node[n] \in {"running", "succeeded"}
      BY <3>1
    <3> QED
      BY <3>2 DEF Rollback, NobodyLeftStanding
  <2>2. NobodyLeftStanding(file.node)
    BY DEF Rollback
  <2> QED
    BY <2>1, <2>2
<1> QED
  BY <1>1, <1>2, <1>3 DEF Rollback, NobodyLeftStanding

(* Between two runs, and after a crash, there is no order. *)
LEMMA OrderEmpty ==
    ASSUME run'.order = <<>>, undo'.pc = "idle", step' = Resting,
           NobodyLeftStanding(node'), NobodyLeftStanding(file'.node)
    PROVE  Rollback'
BY DEF Rollback, WorkInLayer, OrderInv, LaterInOrder, StandsOnSuccess, NobodyLeftStanding, Resting

LEMMA RollbackOfRun ==
    ASSUME ShapesOK, CampaignInv, Rollback, undo'.pc = "idle",
           StartRun \/ StartLayer \/ LoopEnds \/ LayerEnds \/ Settle \/ Verdict \/ Finish
    PROVE  Rollback'
<1>0. run \in RunKind /\ run.order \in Seq(Nodes)
  BY DEF ShapesOK, RunKind
<1>1. CASE StartRun
  <2>1. /\ run'.order = <<>> /\ step' = Resting /\ node' = node /\ file'.node = node
    BY <1>1 DEF StartRun, NoRun, Save, CampaignInv, RestsBetween
  <2> QED
    BY <2>1, OrderEmpty DEF Rollback
<1>2. CASE StartLayer
  <2>1. run'.order = run.order /\ run'.layer = Ready /\ run.pc = "loop"
    BY <1>0, <1>2 DEF StartLayer, RunKind
  <2>2. WorkInLayer' /\ StandsOnSuccess'
    BY <1>2, <2>1 DEF StartLayer, WorkInLayer, StandsOnSuccess, Ready, NodesIn
  <2>3. \A n \in Nodes : step[n] = "none"
    BY <2>1 DEF CampaignInv, RestsBetween, Resting
  <2> QED
    BY <1>0, <1>2, <2>1, <2>2, <2>3, OrderKept DEF StartLayer
<1>3. CASE LoopEnds \/ LayerEnds
  <2>1. run'.order = run.order /\ step' = Resting
    BY <1>0, <1>3 DEF LoopEnds, LayerEnds, RunKind, CampaignInv, RestsBetween
  <2>2. WorkInLayer' /\ StandsOnSuccess'
    BY <2>1 DEF WorkInLayer, StandsOnSuccess, Resting
  <2>3. \A n \in Nodes : step[n] \notin {"stub", "titan"}
    BY <1>3 DEF LoopEnds, LayerEnds, CampaignInv, RestsBetween, Resting, Rollback, WorkInLayer
  <2>4. file' = file /\ \E some : node' = Skip(some) \/ node' = node
    BY <1>3 DEF LoopEnds, LayerEnds
  <2>5. \A n \in Nodes : \/ node'[n] = node[n]
                         \/ node[n] = "pending" /\ node'[n] = "skipped"
    BY <2>1, <2>4, SkipIsQuiet DEF CampaignInv
  <2> QED
    BY <1>0, <2>1, <2>2, <2>3, <2>4, <2>5, OrderKept
<1>4. CASE Settle \/ Verdict
  <2>1. run'.order = run.order /\ run'.layer = run.layer
    BY <1>0, <1>4 DEF Settle, Verdict, RunKind
  <2>2. UNCHANGED <<node, file, step>>
    BY <1>4 DEF Settle, Verdict
  <2>3. WorkInLayer' /\ StandsOnSuccess'
    BY <2>1, <2>2 DEF Rollback, WorkInLayer, StandsOnSuccess
  <2> QED
    BY <1>0, <2>1, <2>2, <2>3, OrderKept
<1>5. CASE Finish
  <2>1. /\ run'.order = <<>> /\ step' = Resting /\ node' = node /\ file'.node = node
    BY <1>5 DEF Finish, NoRun, Save, CampaignInv, RestsBetween
  <2> QED
    BY <2>1, OrderEmpty DEF Rollback
<1> QED
  BY <1>1, <1>2, <1>3, <1>4, <1>5

(* The last node of the order is rolled back: what depends on it is not      *)
(* standing, for it would be behind it.                                      *)
LEMMA RollbackOfTurn ==
    ASSUME ShapesOK, CampaignInv, Rollback, undo'.pc = "idle", RunRollsBack
    PROVE  Rollback'
<1>0. run \in RunKind /\ run.order \in Seq(Nodes) /\ run.pc = "rollback" /\ step' = step
         /\ file' = file /\ run'.layer = run.layer
  BY DEF ShapesOK, RunKind, RunRollsBack
<1>1. \A n \in Nodes : step[n] = "none"
  BY <1>0 DEF CampaignInv, RestsBetween, Resting
<1>2. WorkInLayer' /\ StandsOnSuccess'
  BY <1>0, <1>1 DEF WorkInLayer, StandsOnSuccess
<1>3. CASE run.order = <<>>
  <2>1. run'.order = run.order /\ node' = node
    BY <1>0, <1>3 DEF RunRollsBack, RunKind
  <2> QED
    BY <1>0, <1>2, <2>1, OrderKept
<1>4. CASE run.order # <<>>
  <2> DEFINE k == Len(run.order)
             d == run.order[k]
  <2>1. /\ k \in Nat \ {0} /\ d \in Nodes /\ Last(run.order) = d
        /\ Len(Front(run.order)) = k - 1
        /\ \A i \in 1..k - 1 : Front(run.order)[i] = run.order[i]
    BY <1>0, <1>4, FrontAndLast
  <2>2. node[d] = "succeeded"
    BY <2>1 DEF Rollback, OrderInv
  <2>3. run'.order = Front(run.order) /\ RollBack(d)
    BY <1>0, <1>4, <2>1 DEF RunRollsBack, RunKind
  <2>4. \A n \in Nodes : node'[n] = IF n = d THEN "rolled_back" ELSE node[n]
    BY <2>1, <2>2, <2>3 DEF RollBack, Becomes, CampaignInv, StatesOK
  <2>5. \A i \in 1..k - 1 : run.order[i] \in Nodes /\ run.order[i] # d
    BY <1>0, <2>1, ElementOfSeq DEF Rollback, OrderInv
  <2> HIDE DEF k, d
  <2>6. OrderInv'
    <3>1. Len(run'.order) = k - 1 /\ \A i \in 1..k - 1 : run'.order[i] = run.order[i]
      BY <2>1, <2>3
    <3>2. \A i \in 1..k - 1 : i \in 1..Len(run.order)
      BY <2>1 DEF k
    <3> QED
      BY <2>4, <2>5, <3>1, <3>2 DEF Rollback, OrderInv
  <2>7. \A n \in Nodes : d \in DependsOn[n] => node[n] \notin {"running", "succeeded"}
    <3>1. k \in 1..Len(run.order) /\ (k + 1)..Len(run.order) = {}
      BY <2>1 DEF k
    <3> QED
      BY <1>1, <3>1 DEF Rollback, LaterInOrder, d
  <2>8. LaterInOrder'
    <3> SUFFICES ASSUME NEW i \in 1..k - 1, NEW n \in Nodes,
                        run.order[i] \in DependsOn[n], node'[n] \in {"running", "succeeded"}
                 PROVE  \E j \in (i + 1)..(k - 1) : run'.order[j] = n
      BY <2>1, <2>3 DEF LaterInOrder
    <3>1. node[n] \in {"running", "succeeded"} /\ n # d
      BY <2>4
    <3>2. PICK j \in (i + 1)..Len(run.order) : run.order[j] = n
      BY <1>1, <2>1, <3>1 DEF Rollback, LaterInOrder, k
    <3>3. j # k
      BY <3>1, <3>2 DEF d
    <3>4. j \in (i + 1)..(k - 1) /\ j \in 1..k - 1
      BY <2>1, <3>3 DEF k
    <3> QED
      BY <2>1, <2>3, <3>2, <3>4
  <2>9. NobodyLeftStanding(node') /\ NobodyLeftStanding(file'.node)
    BY <1>0, <2>4, <2>7, NodesAssumption DEF Rollback, NobodyLeftStanding
  <2> QED
    BY <1>2, <2>6, <2>8, <2>9 DEF Rollback, NobodyLeftStanding
<1> QED
  BY <1>3, <1>4

LEMMA RollbackOfNode ==
    ASSUME ShapesOK, CampaignInv, Rollback, undo'.pc = "idle", NEW n \in Nodes, NodeNext(n)
    PROVE  Rollback'
<1>0. run \in RunKind /\ run.order \in Seq(Nodes)
  BY DEF ShapesOK, RunKind
<1>1. n \in run.layer
  BY DEF NodeNext, AskPlan, Dispatch, NeedApproval, Stall, TitanAnswers, NodeSucceeds,
     RecordSuccess, NodeAt, Rollback, WorkInLayer
<1>2. CASE AskPlan(n) \/ NeedApproval(n) \/ RecordSuccess(n) \/ Stall(n) \/ TitanAnswers(n)
  <2>1. UNCHANGED run /\ file'.node = node'
    BY <1>2 DEF AskPlan, NeedApproval, RecordSuccess, Stall, TitanAnswers, NodeFails, Save
  <2>2. \A m \in Nodes \ {n} : step'[m] = step[m] /\ node'[m] = node[m]
    BY <1>2 DEF AskPlan, NeedApproval, RecordSuccess, Stall, TitanAnswers, NodeFails,
       Becomes, StepTo, CampaignInv, StatesOK
  <2>3. /\ step'[n] \notin {"start", "stub", "titan"}
        /\ step'[n] = "planning" => step[n] = "start"
        /\ step[n] \in {"stub", "titan"} => node'[n] = "failed"
        /\ node'[n] = node[n] \/ node'[n] \in {"planning", "awaiting_approval", "failed"}
        /\ node[n] = "succeeded" => node'[n] = "succeeded"
    BY <1>2 DEF AskPlan, NeedApproval, RecordSuccess, Stall, TitanAnswers, NodeFails,
       Becomes, StepTo, CampaignInv, StatesOK, StepTellsStatus, NodeAt
  <2>4. WorkInLayer'
    BY <1>1, <2>1, <2>2 DEF Rollback, WorkInLayer
  <2>5. StandsOnSuccess'
    BY <2>2, <2>3, NodesAssumption DEF Rollback, StandsOnSuccess
  <2> QED
    BY <1>0, <2>1, <2>2, <2>3, <2>4, <2>5, OrderKept
<1>3. CASE Dispatch(n)
  <2>1. UNCHANGED run /\ file'.node = node' /\ step[n] = "planning" /\ node[n] = "planning"
    BY <1>3 DEF Dispatch, Save, NodeAt, CampaignInv, StepTellsStatus
  <2>2. /\ \A m \in Nodes \ {n} : step'[m] = step[m] /\ node'[m] = node[m]
        /\ step'[n] \in {"stub", "titan"} /\ node'[n] = "running"
    BY <1>3 DEF Dispatch, Becomes, StepTo, CampaignInv, StatesOK
  <2>3. WorkInLayer'
    BY <1>1, <2>1, <2>2 DEF Rollback, WorkInLayer
  <2>4. \A d \in DependsOn[n] : node[d] = "succeeded"
    BY <2>1 DEF Rollback, StandsOnSuccess
  <2>5. StandsOnSuccess'
    BY <2>1, <2>2, <2>4, NodesAssumption DEF Rollback, StandsOnSuccess
  <2>6. OrderInv'
    <3>1. \A i \in 1..Len(run.order) : run.order[i] \in Nodes /\ run.order[i] # n
      BY <1>0, <2>1, ElementOfSeq DEF Rollback, OrderInv
    <3> QED
      BY <2>1, <2>2, <3>1 DEF Rollback, OrderInv
  <2>7. LaterInOrder'
    BY <2>1, <2>2 DEF Rollback, LaterInOrder
  <2>8. NobodyLeftStanding(node')
    BY <2>2, <2>4, NodesAssumption DEF Rollback, NobodyLeftStanding
  <2> QED
    BY <2>1, <2>3, <2>5, <2>6, <2>7, <2>8, undo'.pc = "idle" DEF Rollback, NobodyLeftStanding
<1>4. CASE NodeSucceeds(n)
  <2> DEFINE k == Len(run.order)
  <2>1. /\ file' = file /\ step[n] = "stub" /\ node[n] = "running"
        /\ run'.order = Append(run.order, n) /\ run'.layer = run.layer
    BY <1>0, <1>4 DEF NodeSucceeds, NodeAt, CampaignInv, StepTellsStatus, RunKind
  <2>2. /\ \A m \in Nodes \ {n} : step'[m] = step[m] /\ node'[m] = node[m]
        /\ step'[n] = "record" /\ node'[n] = "succeeded"
    BY <1>4 DEF NodeSucceeds, Becomes, StepTo, CampaignInv, StatesOK
  <2>3. /\ k \in Nat /\ Len(run'.order) = k + 1 /\ run'.order[k + 1] = n
        /\ \A i \in 1..k : run'.order[i] = run.order[i] /\ run.order[i] \in Nodes
    BY <1>0, <2>1, AppendProperties, ElementOfSeq, LenProperties
  <2>4. WorkInLayer' /\ StandsOnSuccess'
    BY <1>1, <2>1, <2>2, NodesAssumption DEF Rollback, WorkInLayer, StandsOnSuccess
  <2>5. \A i \in 1..k : node[run.order[i]] = "succeeded" /\ run.order[i] # n
    BY <2>1 DEF Rollback, OrderInv
  <2>6. \A i, j \in 1..k : run.order[i] = run.order[j] => i = j
    BY DEF Rollback, OrderInv
  <2>7. \A m \in Nodes : n \in DependsOn[m] => node[m] \notin {"running", "succeeded"}
    BY <2>1 DEF CampaignInv, DependenciesRan
  <2>8. \A i \in 1..k : \A m \in Nodes :
           run.order[i] \in DependsOn[m] /\ node[m] \in {"running", "succeeded"} =>
               \/ \E j \in (i + 1)..k : run.order[j] = m
               \/ step[m] \in {"stub", "titan"}
    BY DEF Rollback, LaterInOrder
  <2> HIDE DEF k
  <2>9. OrderInv'
    <3>1. \A i \in 1..(k + 1) : i \in 1..k \/ i = k + 1
      BY <2>3
    <3> QED
      BY <2>2, <2>3, <2>5, <2>6, <3>1 DEF OrderInv
  <2>10. LaterInOrder'
    <3> SUFFICES ASSUME NEW i \in 1..(k + 1), NEW m \in Nodes,
                        run'.order[i] \in DependsOn[m], node'[m] \in {"running", "succeeded"}
                 PROVE  \/ \E j \in (i + 1)..(k + 1) : run'.order[j] = m
                        \/ step'[m] \in {"stub", "titan"}
      BY <2>3 DEF LaterInOrder
    <3>1. CASE i = k + 1
      <4>1. n \in DependsOn[m] /\ m # n
        BY <2>1, <2>3, <2>7, <3>1
      <4> QED
        BY <2>2, <2>7, <4>1
    <3>2. CASE i \in 1..k /\ m = n
      <4>1. k + 1 \in (i + 1)..(k + 1)
        BY <2>3, <3>2
      <4> QED
        BY <2>3, <3>2, <4>1
    <3>3. CASE i \in 1..k /\ m # n
      <4>1. node[m] \in {"running", "succeeded"} /\ step'[m] = step[m]
        BY <2>2, <3>3
      <4>2. \/ \E j \in (i + 1)..k : run.order[j] = m
            \/ step[m] \in {"stub", "titan"}
        BY <2>3, <2>8, <3>3, <4>1
      <4>3. \A j \in (i + 1)..k : j \in (i + 1)..(k + 1) /\ j \in 1..k
        BY <2>3, <3>3
      <4> QED
        BY <2>3, <4>1, <4>2, <4>3
    <3> QED
      BY <2>3, <3>1, <3>2, <3>3
  <2>11. NobodyLeftStanding(node')
    BY <2>1, <2>2, NodesAssumption DEF Rollback, NobodyLeftStanding
  <2> QED
    BY <2>1, <2>4, <2>9, <2>10, <2>11 DEF Rollback, NobodyLeftStanding
<1> QED
  BY <1>2, <1>3, <1>4 DEF NodeNext

LEMMA RollbackStep ==
    ASSUME ShapesOK, CampaignInv, RollbackInv, [CampaignNext]_campaignVars
    PROVE  RollbackInv'
<1> SUFFICES ASSUME ~guard'.attached PROVE Rollback'
  BY DEF RollbackInv
<1>1. ~guard.attached /\ Rollback /\ undo'.pc = "idle"
  BY GuardStaysOrNot DEF RollbackInv, Rollback
<1>2. CASE UNCHANGED campaignVars
  BY <1>1, <1>2 DEF campaignVars, Rollback, WorkInLayer, OrderInv, LaterInOrder,
     StandsOnSuccess, NobodyLeftStanding
<1>3. CASE CrashAndReload
  BY <1>1, <1>3, OrderEmpty DEF CrashAndReload, Loaded, NoRun, Rollback
<1>4. ~UndoNext
  BY <1>1 DEF Rollback, UndoNext, UndoStarts, UndoRollsBack, UndoFinishes
<1> QED
  BY <1>1, <1>2, <1>3, <1>4, RollbackOfRun, RollbackOfTurn, RollbackOfNode
     DEF CampaignNext, RunGoesOn

(***************************************************************************)
(* Of the first run the order is complete, and it is empty when the campaign *)
(* says ROLLED_BACK.                                                         *)
(***************************************************************************)
OrderComplete ==
    FirstRun =>
        /\ NothingBefore
        /\ run.pc \notin {"finish", "idle"} =>
              /\ status # "rolled_back"
              /\ \A n \in Nodes : node[n] = "succeeded" =>
                    \E i \in 1..Len(run.order) : run.order[i] = n
        /\ status = "rolled_back" => \A n \in Nodes : node[n] # "succeeded"
OrderCompleteInv == ~guard.attached => OrderComplete

LEMMA CompleteInit == CampaignInit => OrderCompleteInv
BY DEF CampaignInit, OrderCompleteInv, OrderComplete, NothingBefore, NoRun

LEMMA CompleteStep ==
    ASSUME ShapesOK, CampaignInv, RollbackInv, OrderCompleteInv, [CampaignNext]_campaignVars
    PROVE  OrderCompleteInv'
<1> SUFFICES ASSUME ~guard'.attached, FirstRun' PROVE OrderComplete'
  BY DEF OrderCompleteInv, OrderComplete
<1>1. ~guard.attached /\ Rollback /\ undo'.pc = "idle"
  BY GuardStaysOrNot DEF RollbackInv, Rollback
<1>2. FirstRun /\ ~CrashAndReload
  BY OutcomeFirst
<1>3. OrderComplete /\ NothingBefore
  BY <1>1, <1>2 DEF OrderCompleteInv, OrderComplete
<1>4. run \in RunKind /\ run.order \in Seq(Nodes) /\ Len(run.order) \in Nat
         /\ node \in [Nodes -> NodeStatus]
  BY LenProperties DEF ShapesOK, RunKind, CampaignInv, StatesOK
<1>5. CASE UNCHANGED campaignVars
  BY <1>3, <1>5 DEF campaignVars, OrderComplete, FirstRun, NothingBefore
<1>6. CASE StartRun
  <2>1. calls.run = 0 /\ calls'.run = 1
    BY <1>6 DEF StartRun, FirstRun, ShapesOK
  <2> QED
    BY <1>3, <1>6, <2>1 DEF StartRun, OrderComplete, NothingBefore
<1>7. CASE StartLayer \/ LoopEnds \/ LayerEnds
  <2>1. /\ run'.order = run.order /\ UNCHANGED <<status, calls>>
        /\ run.pc \notin {"finish", "idle"} /\ run'.pc \notin {"finish", "idle"}
    BY <1>4, <1>7 DEF StartLayer, LoopEnds, LayerEnds, RunKind
  <2>2. \A n \in Nodes : node'[n] = "succeeded" => node[n] = "succeeded"
    BY <1>4, <1>7 DEF StartLayer, LoopEnds, LayerEnds, Skip
  <2> QED
    BY <1>2, <1>3, <2>1, <2>2 DEF OrderComplete, NothingBefore
<1>8. CASE Settle \/ Verdict \/ Finish
  <2>1. UNCHANGED <<node, calls>> /\ run.pc # "idle"
    BY <1>8 DEF Settle, Verdict, Finish
  <2>2. CASE Settle \/ Verdict
    <3>1. run'.order = run.order /\ run.pc \notin {"finish", "idle"}
             /\ status' # "rolled_back"
      BY <1>2, <1>3, <1>4, <2>2 DEF Settle, Verdict, RunKind, OrderComplete
    <3> QED
      BY <1>2, <1>3, <2>1, <3>1 DEF OrderComplete, NothingBefore
  <2>3. CASE Finish
    <3>1. run'.pc = "idle" /\ status' = status
      BY <2>3 DEF Finish, NoRun
    <3> QED
      BY <1>2, <1>3, <2>1, <3>1 DEF OrderComplete, NothingBefore
  <2> QED
    BY <1>8, <2>2, <2>3
<1>9. CASE RunRollsBack
  <2>1. calls' = calls /\ run.pc = "rollback" /\ calls.run # 0
    BY <1>3, <1>9 DEF RunRollsBack, NothingBefore
  <2>2. CASE run.order = <<>>
    <3>1. run'.pc = "finish" /\ node' = node
      BY <1>4, <1>9, <2>2 DEF RunRollsBack, RunKind
    <3>2. 1..Len(run.order) = {}
      BY <2>2
    <3>3. \A n \in Nodes : node[n] # "succeeded"
      BY <1>2, <1>3, <2>1, <3>2 DEF OrderComplete
    <3> QED
      BY <2>1, <3>1, <3>3 DEF OrderComplete, NothingBefore
  <2>3. CASE run.order # <<>>
    <3> DEFINE k == Len(run.order)
               d == run.order[k]
    <3>1. /\ k \in Nat \ {0} /\ d \in Nodes /\ Last(run.order) = d
          /\ Len(Front(run.order)) = k - 1
          /\ \A i \in 1..k - 1 : Front(run.order)[i] = run.order[i]
      BY <1>4, <2>3, FrontAndLast
    <3>2. node[d] = "succeeded"
      BY <1>1, <3>1 DEF Rollback, OrderInv
    <3>3. run'.order = Front(run.order) /\ RollBack(d) /\ status' = status
      BY <1>4, <1>9, <2>3, <3>1 DEF RunRollsBack, RunKind
    <3>4. \A n \in Nodes : node'[n] = IF n = d THEN "rolled_back" ELSE node[n]
      BY <1>4, <3>1, <3>2, <3>3 DEF RollBack, Becomes
    <3>5. \A n \in Nodes : node'[n] = "succeeded" =>
             \E i \in 1..k - 1 : run'.order[i] = n
      <4> SUFFICES ASSUME NEW n \in Nodes, node'[n] = "succeeded"
                   PROVE  \E i \in 1..k - 1 : run'.order[i] = n
        OBVIOUS
      <4>1. node[n] = "succeeded" /\ n # d
        BY <3>4
      <4>2. PICK i \in 1..k : run.order[i] = n
        BY <1>2, <1>3, <2>1, <4>1 DEF OrderComplete
      <4>3. i \in 1..k - 1
        BY <3>1, <4>1, <4>2
      <4> QED
        BY <3>1, <3>3, <4>2, <4>3
    <3>6. status # "rolled_back"
      BY <1>2, <1>3, <2>1 DEF OrderComplete
    <3> QED
      BY <2>1, <3>1, <3>3, <3>5, <3>6 DEF OrderComplete, NothingBefore
  <2> QED
    BY <2>2, <2>3
<1>10. ASSUME NEW n \in Nodes, NodeNext(n) PROVE OrderComplete'
  <2>1. run.pc = "gather" /\ UNCHANGED <<status, calls>>
    BY <1>10 DEF NodeNext, AskPlan, Dispatch, NeedApproval, Stall, TitanAnswers, NodeFails,
       NodeSucceeds, RecordSuccess, NodeAt, CampaignInv, RestsBetween, Resting
  <2>2. NothingBefore' /\ status' # "rolled_back"
    BY <1>2, <1>3, <2>1 DEF OrderComplete, NothingBefore
  <2>3. CASE ~NodeSucceeds(n)
    <3>1. run' = run /\ \A m \in Nodes : node'[m] = "succeeded" => node[m] = "succeeded"
      BY <1>4, <1>10, <2>3 DEF NodeNext, AskPlan, Dispatch, NeedApproval, Stall, TitanAnswers,
         NodeFails, RecordSuccess, Becomes
    <3> QED
      BY <1>2, <1>3, <2>1, <2>2, <3>1 DEF OrderComplete
  <2>4. CASE NodeSucceeds(n)
    <3> DEFINE k == Len(run.order)
    <3>1. run'.order = Append(run.order, n)
      BY <1>4, <2>4 DEF NodeSucceeds, RunKind
    <3>2. /\ Len(run'.order) = k + 1 /\ run'.order[k + 1] = n
          /\ \A i \in 1..k : run'.order[i] = run.order[i]
      BY <1>4, <3>1, AppendProperties
    <3>3. \A m \in Nodes \ {n} : node'[m] = node[m]
      BY <1>4, <2>4 DEF NodeSucceeds, Becomes
    <3>4. \A m \in Nodes : node'[m] = "succeeded" =>
             \E i \in 1..(k + 1) : run'.order[i] = m
      <4> SUFFICES ASSUME NEW m \in Nodes, node'[m] = "succeeded"
                   PROVE  \E i \in 1..(k + 1) : run'.order[i] = m
        OBVIOUS
      <4>1. CASE m = n
        BY <1>4, <3>2, <4>1
      <4>2. CASE m # n
        <5>1. PICK i \in 1..k : run.order[i] = m
          BY <1>2, <1>3, <2>1, <3>3, <4>2 DEF OrderComplete
        <5>2. i \in 1..(k + 1)
          BY <1>4, <5>1
        <5> QED
          BY <3>2, <5>1, <5>2
      <4> QED
        BY <4>1, <4>2
    <3> QED
      BY <2>2, <3>2, <3>4 DEF OrderComplete
  <2> QED
    BY <2>3, <2>4
<1>11. ~UndoNext
  BY <1>1 DEF Rollback, UndoNext, UndoStarts, UndoRollsBack, UndoFinishes
<1> QED
  BY <1>2, <1>5, <1>6, <1>7, <1>8, <1>9, <1>10, <1>11 DEF CampaignNext, RunGoesOn

(* Of a campaign that no guard watches: when its only run ends ROLLED_BACK   *)
(* no node of it is left SUCCEEDED; and in any run, and after any crash,     *)
(* what depends on a rolled back node is not standing.                       *)
THEOREM RollbackInOrder == CampaignSpec => []UndoneInOrder
<1>1. CampaignSpec => [](ShapesOK /\ CampaignInv /\ RollbackInv /\ OrderCompleteInv)
  BY RollbackInit, RollbackStep, CompleteInit, CompleteStep, CampaignShapes,
     CampaignInvariant, PTL DEF CampaignSpec
<1>2. ShapesOK /\ RollbackInv /\ OrderCompleteInv => UndoneInOrder
  <2> SUFFICES ASSUME ShapesOK, RollbackInv, OrderCompleteInv PROVE UndoneInOrder
    OBVIOUS
  <2>1. FailureIsUndone
    BY DEF FailureIsUndone, Over, Fresh, NodesIn, OrderCompleteInv, OrderComplete, FirstRun,
       ShapesOK
  <2>2. DependentsFirst
    BY DEF DependentsFirst, RollbackInv, Rollback, NobodyLeftStanding
  <2> QED
    BY <2>1, <2>2 DEF UndoneInOrder
<1> QED
  BY <1>1, <1>2, PTL
=============================================================================
