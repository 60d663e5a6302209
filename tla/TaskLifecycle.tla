---------------------------- MODULE TaskLifecycle ----------------------------
(***************************************************************************)
(* What IMPERIUM promises about the state of a task, with no records,        *)
(* heap, threads or files: the state machine of pradyos/core/types.py and    *)
(* pradyos/imperium/state_core.py, and what may start when.                  *)
(***************************************************************************)
CONSTANTS Tasks, Dependencies   \* Dependencies[t]: the tasks t waits for

VARIABLE state                  \* the state of each task, or "absent"

Init == state = [t \in Tasks |-> "absent"]

Becomes(t, s) == state' = [state EXCEPT ![t] = s]

(* A task is accepted, or taken up again after a restart. *)
Accept(t) == state[t] = "absent" /\ Becomes(t, "QUEUED")

(* A task starts once no known dependency is short of success. *)
Begin(t) ==
    /\ state[t] = "QUEUED"
    /\ \A d \in Dependencies[t] : state[d] \in {"absent", "SUCCEEDED"}
    /\ Becomes(t, "RUNNING")

(* Approval may be needed before a task starts or while it runs. *)
Escalate(t) == state[t] \in {"QUEUED", "RUNNING"} /\ Becomes(t, "ESCALATED")

(* A running task succeeds, fails for good, or waits for its next attempt. *)
Finish(t) ==
    /\ state[t] = "RUNNING"
    /\ \E s \in {"SUCCEEDED", "FAILED", "QUEUED"} : Becomes(t, s)

(* Only a decision ends the wait for approval. *)
Decide(t) ==
    /\ state[t] = "ESCALATED"
    /\ \E s \in {"QUEUED", "CANCELLED"} : Becomes(t, s)

(* The process dies and forgets. *)
Restart == state' = [t \in Tasks |-> "absent"]

Next ==
    \/ \E t \in Tasks : Accept(t) \/ Begin(t) \/ Escalate(t) \/ Finish(t) \/ Decide(t)
    \/ Restart

Spec == Init /\ [][Next]_state
=============================================================================
