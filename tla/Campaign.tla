------------------------------ MODULE Campaign ------------------------------
(***************************************************************************)
(* One campaign of pradyos/campaign: run_campaign executes the nodes of a    *)
(* DAG layer by layer, the nodes of a layer concurrently in one event        *)
(* loop, and rolls back on failure; a WardenCampaignGuard may roll back      *)
(* from a thread of its own; the registry keeps the campaign in a file       *)
(* that survives a crash, and an interrupted campaign can be run again.      *)
(***************************************************************************)
EXTENDS Naturals, Sequences, SequencesExt

CONSTANTS
    Nodes,        \* the nodes of the campaign
    DependsOn,    \* [Nodes -> SUBSET Nodes], node.depends_on
    Created,      \* the nodes in order of creation, as campaign.nodes has them
    Plans,        \* [Nodes -> SUBSET PlanKinds], the plans ORACLE may make
    Attached,     \* SUBSET BOOLEAN, whether a WardenCampaignGuard is attached
    Threshold,    \* node failures that make the guard roll back
    MaxRuns,      \* bound: calls of run_campaign
    MaxCrashes    \* bound: crashes of the process

PlanKinds == {"none", "steps", "approval"}

ASSUME NodesAssumption ==
    /\ DependsOn \in [Nodes -> SUBSET Nodes]
    /\ Created \in Seq(Nodes)
    /\ Plans \in [Nodes -> SUBSET PlanKinds]
ASSUME CampaignBoundAssumption ==
    /\ Attached \subseteq BOOLEAN /\ Threshold \in Nat \ {0}
    /\ MaxRuns \in Nat /\ MaxCrashes \in Nat

VARIABLES
    status,      \* campaign.status
    node,        \* node.status of every node
    file,        \* the campaign's line in campaigns.jsonl: status and nodes
    run,         \* run_campaign and _execute_dag: pc, pending, layer, order
    step,        \* where every node's _execute_node is
    guard,       \* the guard: attached, fails in its window, triggered
    undo,        \* the thread of _do_rollback: pc and the order it works on
    hooks,       \* nodes with a hook in the RollbackRegistry
    undone,      \* history: nodes whose hook was executed
    dispatched,  \* history: how often each node was dispatched
    calls        \* how often run_campaign was called and the process crashed

campaignVars ==
    <<status, node, file, run, step, guard, undo, hooks, undone, dispatched, calls>>

CampaignStatus == {"pending", "running", "succeeded", "failed", "rolled_back"}
NodeStatus == {"pending", "planning", "awaiting_approval", "running",
               "succeeded", "failed", "rolled_back", "skipped"}

NodesIn(states) == {n \in Nodes : node[n] \in states}
NoRun == [pc |-> "idle", pending |-> {}, layer |-> {}, order |-> <<>>]
NoUndo == [pc |-> "idle", order |-> <<>>]
Resting == [n \in Nodes |-> "none"]

(* registry.save: the whole campaign, as it is in memory now. *)
Save == file' = [status |-> status', node |-> node']

CampaignInit ==
    /\ status = "pending"
    /\ node = [n \in Nodes |-> "pending"]
    /\ file = [status |-> status, node |-> node]
    /\ run = NoRun /\ step = Resting
    /\ \E a \in Attached : guard = [attached |-> a, fails |-> 0, triggered |-> FALSE]
    /\ undo = NoUndo
    /\ hooks = {} /\ undone = {}
    /\ dispatched = [n \in Nodes |-> 0]
    /\ calls = [run |-> 0, crash |-> 0]

-----------------------------------------------------------------------------
(* The loop of _execute_dag.  No node of the loop moves between the two      *)
(* assignments of a node that needs approval: there is no await there.       *)
LoopFree == \A n \in Nodes : step[n] # "stall"

StartRun ==
    /\ run.pc = "idle" /\ calls.run < MaxRuns
    /\ status' = "running"
    /\ run' = [NoRun EXCEPT !.pc = "loop", !.pending = Nodes]
    /\ calls' = [calls EXCEPT !.run = @ + 1]
    /\ UNCHANGED node /\ Save
    /\ UNCHANGED <<step, guard, undo, hooks, undone, dispatched>>

(* Mutant: a node another run left half way is taken up again. *)
MutReady == {n \in run.pending :
               /\ node[n] \in {"pending", "planning", "running"}
               /\ DependsOn[n] \subseteq NodesIn({"succeeded"})}

(* Mutant: one dependency that has succeeded is enough. *)
MutReadyAny == {n \in run.pending :
                  /\ node[n] = "pending"
                  /\ DependsOn[n] = {} \/ DependsOn[n] \cap NodesIn({"succeeded"}) # {}}

(* get_ready_nodes, of those still pending. *)
Ready == {n \in run.pending :
            node[n] = "pending" /\ DependsOn[n] \subseteq NodesIn({"succeeded"})}

StartLayer ==
    /\ run.pc = "loop" /\ Ready # {}
    /\ run' = [run EXCEPT !.pc = "gather", !.layer = Ready]
    /\ step' = [n \in Nodes |-> IF n \in Ready THEN "start" ELSE "none"]
    /\ UNCHANGED <<status, node, file, guard, undo, hooks, undone, dispatched, calls>>

(* Mutant: what cannot run stays as it is. *)
MutSkip(some) == node

Skip(some) == [n \in Nodes |->
                 IF n \in some /\ node[n] = "pending" THEN "skipped" ELSE node[n]]

(* Mutant: the loop goes on until nothing is pending. *)
MutLoopEnds ==
    /\ run.pc = "loop" /\ Ready = {}
    /\ node' = Skip(run.pending)
    /\ LET left == {n \in run.pending : node[n] # "pending"} IN
         run' = [run EXCEPT !.pending = left, !.pc = IF left = {} THEN "settle" ELSE "loop"]
    /\ UNCHANGED <<status, file, step, guard, undo, hooks, undone, dispatched, calls>>

(* Nothing pending, or nothing of it ready: the rest is skipped. *)
LoopEnds ==
    /\ run.pc = "loop" /\ Ready = {}
    /\ node' = Skip(run.pending)
    /\ run' = [run EXCEPT !.pc = "settle"]
    /\ UNCHANGED <<status, file, step, guard, undo, hooks, undone, dispatched, calls>>

(* The gather returns when every node of the layer has.  A failure ends      *)
(* the loop and skips what has not started.                                  *)
LayerEnds ==
    /\ run.pc = "gather" /\ \A n \in run.layer : step[n] = "done"
    /\ LET left == run.pending \ run.layer
           failed == NodesIn({"failed"}) # {}
       IN  /\ run' = [run EXCEPT !.pending = left, !.layer = {},
                                 !.pc = IF failed THEN "settle" ELSE "loop"]
           /\ node' = IF failed THEN Skip(left) ELSE node
    /\ step' = Resting
    /\ UNCHANGED <<status, file, guard, undo, hooks, undone, dispatched, calls>>

-----------------------------------------------------------------------------
(* _execute_node, from one await to the next. *)
NodeAt(n, pc) == LoopFree /\ run.pc = "gather" /\ n \in run.layer /\ step[n] = pc
Becomes(n, s) == node' = [node EXCEPT ![n] = s]
StepTo(n, pc) == step' = [step EXCEPT ![n] = pc]

(* The node asks ORACLE for a plan. *)
AskPlan(n) ==
    /\ NodeAt(n, "start") /\ StepTo(n, "planning")
    /\ Becomes(n, "planning") /\ UNCHANGED status /\ Save
    /\ UNCHANGED <<run, guard, undo, hooks, undone, dispatched, calls>>

(* The plan may be carried out: the node is dispatched. *)
Dispatch(n) ==
    /\ NodeAt(n, "planning")
    /\ \/ "none" \in Plans[n] /\ StepTo(n, "stub")
       \/ "steps" \in Plans[n] /\ StepTo(n, "titan")
    /\ Becomes(n, "running") /\ UNCHANGED status /\ Save
    /\ dispatched' = [dispatched EXCEPT ![n] = @ + 1]
    /\ UNCHANGED <<run, guard, undo, hooks, undone, calls>>

(* The plan needs approval: the node waits for nobody and fails at once. *)
NeedApproval(n) ==
    /\ NodeAt(n, "planning") /\ "approval" \in Plans[n]
    /\ StepTo(n, "stall")
    /\ Becomes(n, "awaiting_approval") /\ UNCHANGED status /\ Save
    /\ UNCHANGED <<run, guard, undo, hooks, undone, dispatched, calls>>

(* campaign.node.failed as the guard sees it, on the publishing thread:      *)
(* failures older than its window no longer count.                           *)
NodeFailedEvent ==
    IF guard.attached /\ ~guard.triggered
    THEN \E recent \in 1..(guard.fails + 1) :
           LET breach == recent >= Threshold IN
             /\ guard' = [guard EXCEPT !.fails = recent, !.triggered = breach]
             /\ undo' = IF breach THEN [NoUndo EXCEPT !.pc = "start"] ELSE undo
    ELSE UNCHANGED <<guard, undo>>

NodeFails(n) ==
    /\ StepTo(n, "done")
    /\ Becomes(n, "failed") /\ UNCHANGED status /\ Save
    /\ NodeFailedEvent
    /\ UNCHANGED <<run, undone, dispatched, calls>>

Stall(n) ==
    /\ step[n] = "stall"
    /\ NodeFails(n) /\ UNCHANGED hooks

(* The first instruction has run, or raised; a hook it names is put in the   *)
(* registry; then the result is asked for .get, which an ExecutionResult     *)
(* does not have: the node fails whatever the instruction did.               *)
TitanAnswers(n) ==
    /\ NodeAt(n, "titan")
    /\ hooks' \in {hooks, hooks \cup {n}}
    /\ NodeFails(n)

(* Mutant: the node is put in front of the nodes that ran before it. *)
MutNodeSucceeds(n) ==
    /\ NodeAt(n, "stub") /\ StepTo(n, "record")
    /\ Becomes(n, "succeeded")
    /\ run' = [run EXCEPT !.order = <<n>> \o @]
    /\ UNCHANGED <<status, file, guard, undo, hooks, undone, dispatched, calls>>

(* The stub answers ok: nothing was executed. *)
NodeSucceeds(n) ==
    /\ NodeAt(n, "stub") /\ StepTo(n, "record")
    /\ Becomes(n, "succeeded")
    /\ run' = [run EXCEPT !.order = Append(@, n)]
    /\ UNCHANGED <<status, file, guard, undo, hooks, undone, dispatched, calls>>

(* record_outcome was awaited; now the success is saved. *)
RecordSuccess(n) ==
    /\ NodeAt(n, "record") /\ StepTo(n, "done")
    /\ UNCHANGED <<status, node>> /\ Save
    /\ UNCHANGED <<run, guard, undo, hooks, undone, dispatched, calls>>

-----------------------------------------------------------------------------
(* The end of run_campaign. *)
Settle ==
    /\ run.pc = "settle"
    /\ status' = IF NodesIn({"failed"}) # {} THEN "failed" ELSE "succeeded"
    /\ run' = [run EXCEPT !.pc = "verdict"]
    /\ UNCHANGED <<node, file, step, guard, undo, hooks, undone, dispatched, calls>>

(* campaign.status is read again: the guard's thread may have written it. *)
Verdict ==
    /\ run.pc = "verdict"
    /\ run' = [run EXCEPT !.pc = IF status = "failed" THEN "rollback" ELSE "finish"]
    /\ UNCHANGED <<status, node, file, step, guard, undo, hooks, undone, dispatched, calls>>

Finish ==
    /\ run.pc = "finish"
    /\ run' = NoRun
    /\ UNCHANGED <<status, node>> /\ Save
    /\ UNCHANGED <<step, guard, undo, hooks, undone, dispatched, calls>>

(* One turn of the loop of _rollback_campaign, for node n: its hooks are     *)
(* executed if it succeeded.                                                 *)
RollBack(n) ==
    IF node[n] = "succeeded"
    THEN Becomes(n, "rolled_back") /\ undone' = undone \cup (hooks \cap {n})
    ELSE UNCHANGED <<node, undone>>

RunRollsBack ==
    /\ run.pc = "rollback"
    /\ IF run.order = <<>>
       THEN /\ status' = "rolled_back"
            /\ run' = [run EXCEPT !.pc = "finish"]
            /\ UNCHANGED <<node, undone>>
       ELSE /\ RollBack(Last(run.order))
            /\ run' = [run EXCEPT !.order = Front(@)]
            /\ UNCHANGED status
    /\ UNCHANGED <<file, step, guard, undo, hooks, dispatched, calls>>

-----------------------------------------------------------------------------
(* rollback_campaign on the guard's thread. *)
UndoStarts ==
    /\ undo.pc = "start"
    /\ undo' = [pc |-> "rollback",
                order |-> SelectSeq(Created,
                                    LAMBDA n : node[n] \in {"succeeded", "running"})]
    /\ UNCHANGED <<status, node, file, run, step, guard, hooks, undone, dispatched, calls>>

UndoRollsBack ==
    /\ undo.pc = "rollback"
    /\ IF undo.order = <<>>
       THEN /\ status' = "rolled_back"
            /\ undo' = [undo EXCEPT !.pc = "finish"]
            /\ UNCHANGED <<node, undone>>
       ELSE /\ RollBack(Last(undo.order))
            /\ undo' = [undo EXCEPT !.order = Front(@)]
            /\ UNCHANGED status
    /\ UNCHANGED <<file, run, step, guard, hooks, dispatched, calls>>

UndoFinishes ==
    /\ undo.pc = "finish"
    /\ undo' = NoUndo
    /\ UNCHANGED <<status, node>> /\ Save
    /\ UNCHANGED <<run, step, guard, hooks, undone, dispatched, calls>>

-----------------------------------------------------------------------------
(* Mutant: a node that was under way is made pending again. *)
MutLoaded == [n \in Nodes |-> IF file.node[n] \in {"planning", "running"}
                              THEN "pending" ELSE file.node[n]]

(* What the registry of the next process has read: from_dict. *)
Loaded == file.node

(* The process dies, or is interrupted (CANCELLED is assigned then and       *)
(* never saved); the next one reads the file.  The RollbackRegistry of the   *)
(* engine is in memory only.                                                 *)
CrashAndReload ==
    /\ calls.crash < MaxCrashes
    /\ calls' = [calls EXCEPT !.crash = @ + 1]
    /\ status' = file.status /\ node' = Loaded /\ UNCHANGED file
    /\ run' = NoRun /\ step' = Resting /\ undo' = NoUndo
    /\ guard' = [guard EXCEPT !.fails = 0, !.triggered = FALSE]
    /\ hooks' = {}
    /\ UNCHANGED <<undone, dispatched>>

RunGoesOn == \/ StartLayer \/ LoopEnds \/ LayerEnds
             \/ Settle \/ Verdict \/ RunRollsBack \/ Finish
NodeNext(n) == \/ AskPlan(n) \/ Dispatch(n) \/ NeedApproval(n) \/ Stall(n)
               \/ TitanAnswers(n) \/ NodeSucceeds(n) \/ RecordSuccess(n)
UndoNext == UndoStarts \/ UndoRollsBack \/ UndoFinishes

CampaignNext ==
    \/ StartRun \/ RunGoesOn
    \/ \E n \in Nodes : NodeNext(n)
    \/ UndoNext
    \/ CrashAndReload

CampaignSpec == CampaignInit /\ [][CampaignNext]_campaignVars

(* ORACLE and TITAN answer every call, with a timeout at the latest; the     *)
(* event loop goes on.  Nothing has to start or crash.                       *)
CampaignFairness ==
    /\ WF_campaignVars(RunGoesOn)
    /\ \A n \in Nodes : WF_campaignVars(NodeNext(n))
    /\ WF_campaignVars(UndoNext)

FairCampaignSpec == CampaignSpec /\ CampaignFairness

-----------------------------------------------------------------------------
(* Every variable holds a value of its kind. *)
CampaignTypeOK ==
    /\ status \in CampaignStatus
    /\ node \in [Nodes -> NodeStatus]
    /\ file \in [status : CampaignStatus, node : [Nodes -> NodeStatus]]
    /\ run \in [pc : {"idle", "loop", "gather", "settle", "verdict", "rollback", "finish"},
                pending : SUBSET Nodes, layer : SUBSET Nodes, order : Seq(Nodes)]
    /\ step \in [Nodes -> {"none", "start", "planning", "stall", "stub", "titan",
                           "record", "done"}]
    /\ guard \in [attached : BOOLEAN, fails : Nat, triggered : BOOLEAN]
    /\ undo \in [pc : {"idle", "start", "rollback", "finish"}, order : Seq(Nodes)]
    /\ hooks \subseteq Nodes /\ undone \subseteq Nodes
    /\ dispatched \in [Nodes -> Nat]
    /\ calls \in [run : Nat, crash : Nat]

(* A node is dispatched once at most, whatever crashes and however often     *)
(* the campaign is run again: RUNNING is in the file before the dispatch,    *)
(* and get_ready_nodes takes up PENDING nodes only.                          *)
DispatchedOnce == \A n \in Nodes : dispatched[n] <= 1

(* A node that has left PENDING has dependencies that succeeded, in memory   *)
(* and in the file, though they may have been rolled back since.             *)
DependenciesRan ==
    \A states \in {node, file.node} : \A n \in Nodes :
        states[n] \notin {"pending", "skipped"} =>
            \A d \in DependsOn[n] : states[d] \in {"succeeded", "rolled_back"}

Fresh == calls.run = 1 /\ calls.crash = 0
Over == Fresh /\ run.pc = "idle" /\ undo.pc = "idle"

(* When the only run of a campaign is over, every node is in a final state   *)
(* and the campaign SUCCEEDED exactly when all its nodes did.                *)
SuccessIsComplete ==
    Over => /\ NodesIn({"pending", "planning", "awaiting_approval", "running"}) = {}
            /\ status = "succeeded" <=> NodesIn({"succeeded"}) = Nodes

FailureIsUndone ==
    Over /\ ~guard.attached /\ status = "rolled_back" => NodesIn({"succeeded"}) = {}

DependentsFirst ==
    ~guard.attached =>
        \A n \in Nodes : \A d \in DependsOn[n] :
            node[d] = "rolled_back" => node[n] \notin {"running", "succeeded"}

(* When the only run of a campaign that no guard watches ends ROLLED_BACK,   *)
(* no node of it is left SUCCEEDED; and rolling back goes in reverse: what   *)
(* depends on a rolled back node is not standing any more. (The guard's      *)
(* thread does not keep to this.)                                            *)
UndoneInOrder == FailureIsUndone /\ DependentsFirst

Rank(s) == CASE s = "pending" -> 0
             [] s = "planning" -> 1
             [] s \in {"awaiting_approval", "running"} -> 2
             [] s \in {"succeeded", "failed", "skipped"} -> 3
             [] s = "rolled_back" -> 4

(* No save, whichever thread makes it and whatever it had read before,       *)
(* takes a node in the file back to an earlier state.                        *)
FileMovesForward ==
    [][\A n \in Nodes : Rank(file'.node[n]) >= Rank(file.node[n])]_campaignVars

(* A run that has started ends: every layer makes progress or ends it. *)
RunsEnd == run.pc # "idle" ~> run.pc = "idle"

-----------------------------------------------------------------------------
(* What the code says of itself and does not keep. *)

(* engine.py:20, "campaign.succeeded -- all nodes succeeded". *)
SucceededMeansAll == run.pc = "idle" /\ status = "succeeded" => NodesIn({"succeeded"}) = Nodes

(* engine.py:22, "campaign.rolled_back -- full rollback complete". *)
RolledBackMeansAll ==
    run.pc = "idle" /\ undo.pc = "idle" /\ status = "rolled_back" => hooks \subseteq undone
=============================================================================
