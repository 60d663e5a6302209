------------------------------ MODULE Approvals ------------------------------
(* The way of a command through core/guardrail.py, core/approval_queue.py    *)
(* and core/execution_engine.py, as the endpoints of sovereign_web.py call   *)
(* them. An engine looks at an entry and at its command, and then runs it.   *)
EXTENDS Integers, Sequences, FiniteSets

CONSTANTS
    Requests, OnAllowlist,        \* requests, and those whose command the engine knows
    Engines,                      \* threads that may execute
    ApprovalTimeout,
    ApprovalHorizon, MaxRuns      \* bounds

ASSUME ApprovalAssumption ==
    /\ OnAllowlist \subseteq Requests /\ "none" \notin Requests
    /\ {ApprovalTimeout, ApprovalHorizon, MaxRuns} \subseteq Nat

VARIABLES
    entry,         \* request -> its entry in the queue, or NoEntry
    submitted,     \* requests that were submitted
    approvalClock,
    running,       \* engine -> the request it runs, or "none"
    outcomes,      \* _history: <<request, outcome>>
    said           \* <<request, verdict>>: the Sovereign's calls that found it pending

approvalVars == <<entry, submitted, approvalClock, running, outcomes, said>>

NoEntry == [status |-> "none", at |-> 0]
RiskLevels == {"safe", "low", "medium", "high", "critical"}
AutoApproveLevels == {"safe", "low"}

ApprovalInit ==
    /\ entry = [r \in Requests |-> NoEntry] /\ submitted = {} /\ said = {}
    /\ approvalClock = 0 /\ running = [e \in Engines |-> "none"] /\ outcomes = <<>>

(* submit: what is safe is noted in the journal and not queued, and what is  *)
(* critical needs a reason.                                                  *)
Submit(r, risk, reason) ==
    /\ r \notin submitted /\ (risk = "critical" => reason)
    /\ submitted' = submitted \cup {r}
    /\ entry' = IF risk \in AutoApproveLevels THEN entry
                ELSE [entry EXCEPT ![r] = [status |-> "pending", at |-> approvalClock]]
    /\ UNCHANGED <<approvalClock, running, outcomes, said>>

(* approve and reject: a verdict is final. *)
GiveVerdict(r, verdict) ==
    /\ entry[r].status = "pending"
    /\ entry' = [entry EXCEPT ![r].status = verdict] /\ said' = said \cup {<<r, verdict>>}
    /\ UNCHANGED <<submitted, approvalClock, running, outcomes>>

(* expire_stale, when it is called. *)
Stale(r) == entry[r].status = "pending" /\ approvalClock - entry[r].at > ApprovalTimeout
ExpireEntries ==
    /\ \E r \in Requests : Stale(r)
    /\ entry' = [r \in Requests |-> IF Stale(r) THEN [entry[r] EXCEPT !.status = "expired"] ELSE entry[r]]
    /\ UNCHANGED <<submitted, approvalClock, running, outcomes, said>>

(* run: refused by status or allowlist, and then nothing is recorded. *)
ExecuteEntry(e, r) ==
    /\ running[e] = "none" /\ entry[r].status = "approved" /\ r \in OnAllowlist
    /\ Len(outcomes) + Cardinality({x \in Engines : running[x] # "none"}) < MaxRuns
    /\ running' = [running EXCEPT ![e] = r]
    /\ UNCHANGED <<entry, submitted, approvalClock, outcomes, said>>

(* It ends well or badly, takes too long, or cannot be started. *)
ExecutionEnds(e, outcome) ==
    /\ running[e] # "none"
    /\ running' = [running EXCEPT ![e] = "none"]
    /\ outcomes' = Append(outcomes, <<running[e], outcome>>)
    /\ UNCHANGED <<entry, submitted, approvalClock, said>>

ApprovalTick ==
    /\ approvalClock < ApprovalHorizon /\ approvalClock' = approvalClock + 1
    /\ UNCHANGED <<entry, submitted, running, outcomes, said>>

ApprovalNext ==
    \/ ApprovalTick \/ ExpireEntries
    \/ \E e \in Engines :
          (\E r \in Requests : ExecuteEntry(e, r)) \/ \E o \in {"success", "failed"} : ExecutionEnds(e, o)
    \/ \E r \in Requests :
          \/ \E verdict \in {"approved", "rejected"} : GiveVerdict(r, verdict)
          \/ \E risk \in RiskLevels, reason \in BOOLEAN : Submit(r, risk, reason)

ApprovalSpec == ApprovalInit /\ [][ApprovalNext]_approvalVars

-----------------------------------------------------------------------------
(* Whatever is executed, and however often, the Sovereign approved it, never *)
(* rejected it, and it never expired.                                        *)
CommandsWereApproved ==
    \A r \in Requests :
        (\E e \in Engines : running[e] = r) \/ (\E i \in DOMAIN outcomes : outcomes[i][1] = r)
        => <<r, "approved">> \in said /\ <<r, "rejected">> \notin said /\ entry[r].status = "approved"
=============================================================================
