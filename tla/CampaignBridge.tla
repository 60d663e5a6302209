---------------------------- MODULE CampaignBridge ----------------------------
(* CampaignTitanBridge.run (campaign_titan_bridge.py): the steps of a plan   *)
(* become tasks of a kernel, each depending on the one before, and the       *)
(* bridge waits for their events on the bus, or for its timeout. It "takes   *)
(* the IMPERIUM kernel or a compatible mock": what differs is the name under *)
(* which the end of a task is published.                                     *)
EXTENDS Integers

CONSTANTS
    Steps,           \* number of tasks: the steps of the plan, or the one fallback
    Kernels          \* of "imperium" (state_core.py) and "mock" (the tests)

ASSUME BridgeAssumption == Steps \in Nat \ {0} /\ Kernels \subseteq {"imperium", "mock"}

VARIABLES
    kernel,          \* the kernel at the other side
    stepTask,        \* step -> state of its task
    reporting,       \* step -> the event its worker is about to publish, or "none"
    bridge,          \* where run is: "submit", "subscribe", "wait", "late", "done"
    remaining,       \* steps run still waits for
    verdicts         \* results: step -> "none", "completed" or "failed"

bridgeVars == <<kernel, stepTask, reporting, bridge, remaining, verdicts>>

BridgeInit ==
    /\ kernel \in Kernels
    /\ stepTask = [k \in 1..Steps |-> "unsent"]
    /\ reporting = [k \in 1..Steps |-> "none"]
    /\ bridge = "submit" /\ remaining = {}
    /\ verdicts = [k \in 1..Steps |-> "none"]

(* submit_plan, one kernel.submit at a time: the first may end before the    *)
(* last is submitted.                                                        *)
SubmitStep(k) ==
    /\ bridge = "submit" /\ stepTask[k] = "unsent"
    /\ \A j \in 1..(k - 1) : stepTask[j] # "unsent"
    /\ stepTask' = [stepTask EXCEPT ![k] = "queued"]
    /\ bridge' = IF k = Steps THEN "subscribe" ELSE "submit"
    /\ remaining' = IF k = Steps THEN 1..Steps ELSE remaining
    /\ UNCHANGED <<kernel, reporting, verdicts>>

Subscribe ==
    /\ bridge = "subscribe" /\ bridge' = "wait"
    /\ UNCHANGED <<kernel, stepTask, reporting, remaining, verdicts>>

(* A worker of the kernel runs a task whose parent has succeeded. *)
WorkerEnds(k, ends) ==
    /\ stepTask[k] = "queued" /\ reporting[k] = "none"
    /\ k > 1 => stepTask[k - 1] = "completed"
    /\ stepTask' = [stepTask EXCEPT ![k] = ends]
    /\ reporting' = [reporting EXCEPT ![k] = ends]
    /\ UNCHANGED <<kernel, bridge, remaining, verdicts>>

(* The event reaches _on_task_event if run has subscribed to its topic. *)
Delivered(k) == kernel = "mock" /\ bridge \in {"wait", "late"} /\ k \in remaining

PublishStep(k) ==
    /\ reporting[k] # "none"
    /\ reporting' = [reporting EXCEPT ![k] = "none"]
    /\ verdicts' = IF Delivered(k) THEN [verdicts EXCEPT ![k] = reporting[k]] ELSE verdicts
    /\ remaining' = IF Delivered(k) THEN remaining \ {k} ELSE remaining
    /\ UNCHANGED <<kernel, stepTask, bridge>>

(* It unsubscribes, and looks at what it has got. *)
WakeUp ==
    /\ bridge = "late" \/ (bridge = "wait" /\ remaining = {})
    /\ bridge' = "done"
    /\ UNCHANGED <<kernel, stepTask, reporting, remaining, verdicts>>

MutTimeOut ==
    /\ bridge = "wait" /\ bridge' = "late"
    /\ UNCHANGED <<kernel, stepTask, reporting, remaining, verdicts>>

(* timeout_sec is over: what remains has failed, unless its event comes yet. *)
TimeOut ==
    /\ bridge = "wait" /\ bridge' = "late"
    /\ verdicts' = [k \in 1..Steps |-> IF k \in remaining THEN "failed" ELSE verdicts[k]]
    /\ UNCHANGED <<kernel, stepTask, reporting, remaining>>

BridgeNext ==
    \/ Subscribe \/ WakeUp \/ TimeOut
    \/ \E k \in 1..Steps : \/ SubmitStep(k) \/ PublishStep(k)
                           \/ \E ends \in {"completed", "failed"} : WorkerEnds(k, ends)

BridgeSpec == BridgeInit /\ [][BridgeNext]_bridgeVars

BridgeOk == \A k \in 1..Steps : verdicts[k] \in {"none", "completed"}

-----------------------------------------------------------------------------
(* ok means done: when run reports success every step has completed, each    *)
(* after the one before it, though events are missed and timeouts race them. *)
OkMeansDone == bridge = "done" /\ BridgeOk => \A k \in 1..Steps : stepTask[k] = "completed"
=============================================================================
