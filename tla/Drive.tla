-------------------------------- MODULE Drive ---------------------------------
(* drive/manager.py behind web/drive_web.py: goals that are proposed, decided*)
(* by the Sovereign and run by the guild. Every handler runs on the event    *)
(* loop, so its calls are one step, except the run itself, which a pool      *)
(* thread executes while the handler awaits it.                              *)
EXTENDS Integers, Sequences

CONSTANTS
    GoalTexts,        \* what can be proposed
    GoalCapacity,     \* capacity
    MaxGoals, MaxVerdicts   \* bounds: goals made, verdicts given

ASSUME DriveAssumption == GoalCapacity \in Nat \ {0} /\ {MaxGoals, MaxVerdicts} \subseteq Nat

VARIABLES
    goals,            \* _order and _goals: a sequence of records
    goalSeq,          \* _seq, which a reset keeps
    underway,         \* numbers of the goals a pool thread is executing, as a sequence
    verdictsOn,       \* history: goal number -> approvals given, runs begun, last word
    verdictCount

driveVars == <<goals, goalSeq, underway, verdictsOn, verdictCount>>

OpenStatuses == {"proposed", "approved", "active"}

DriveInit ==
    /\ goals = <<>> /\ goalSeq = 0 /\ underway = <<>> /\ verdictCount = 0
    /\ verdictsOn = [g \in 1..MaxGoals |-> [approvals |-> 0, starts |-> 0, last |-> "none"]]

Dropped(s, i) == [k \in 1..(Len(s) - 1) |-> IF k < i THEN s[k] ELSE s[k + 1]]

(* _evict, which one new goal needs at most once: the oldest goal that is    *)
(* over, or else the oldest.                                                 *)
Evicted(s) ==
    LET over == {k \in 1..Len(s) : s[k].status \in {"done", "rejected"}} IN
    IF Len(s) <= GoalCapacity THEN s
    ELSE Dropped(s, IF over = {} THEN 1 ELSE CHOOSE k \in over : \A j \in over : k <= j)

(* propose: an open goal with the same text is the answer. *)
ProposeGoal(text) ==
    /\ goalSeq < MaxGoals
    /\ ~\E k \in 1..Len(goals) : goals[k].text = text /\ goals[k].status \in OpenStatuses
    /\ goalSeq' = goalSeq + 1
    /\ goals' = Evicted(Append(goals, [id |-> goalSeq', text |-> text, status |-> "proposed"]))
    /\ UNCHANGED <<underway, verdictsOn, verdictCount>>

(* approve and reject: from any status. *)
Judge(k, word) ==
    /\ verdictCount < MaxVerdicts /\ verdictCount' = verdictCount + 1
    /\ goals' = [goals EXCEPT ![k].status = word]
    /\ verdictsOn' = [verdictsOn EXCEPT ![goals[k].id].last = word,
                        ![goals[k].id].approvals = IF word = "approved" THEN @ + 1 ELSE @]
    /\ UNCHANGED <<goalSeq, underway>>

(* run, up to the await: approved, not vetoed by the critics, activated. A   *)
(* veto changes nothing.                                                     *)
RunGoal(k) ==
    /\ goals[k].status = "approved"
    /\ goals' = [goals EXCEPT ![k].status = "active"]
    /\ underway' = Append(underway, goals[k].id)
    /\ verdictsOn' = [verdictsOn EXCEPT ![goals[k].id].starts = @ + 1]
    /\ UNCHANGED <<goalSeq, verdictCount>>

(* The guild answers: complete, whatever the goal has become meanwhile, or   *)
(* nothing when the goal is gone; it raises: the goal stays as it is.        *)
RunReturns(i, raised) ==
    /\ underway' = Dropped(underway, i)
    /\ goals' = IF raised THEN goals
                ELSE [k \in 1..Len(goals) |->
                        IF goals[k].id = underway[i] THEN [goals[k] EXCEPT !.status = "done"]
                        ELSE goals[k]]
    /\ UNCHANGED <<goalSeq, verdictsOn, verdictCount>>

ResetDrive ==
    /\ goals # <<>> /\ goals' = <<>>
    /\ UNCHANGED <<goalSeq, underway, verdictsOn, verdictCount>>

DriveNext ==
    \/ \E text \in GoalTexts : ProposeGoal(text)
    \/ \E k \in 1..Len(goals) : RunGoal(k) \/ \E word \in {"approved", "rejected"} : Judge(k, word)
    \/ \E i \in 1..Len(underway), raised \in BOOLEAN : RunReturns(i, raised)
    \/ ResetDrive

DriveSpec == DriveInit /\ [][DriveNext]_driveVars

-----------------------------------------------------------------------------
(* Every run of a goal uses up an approval of its own: a goal is not run     *)
(* twice on one word of the Sovereign, however runs, verdicts, failures,     *)
(* evictions and resets cross, and one that waits to be run has his approval *)
(* as the last word.                                                         *)
RunsWereApproved ==
    /\ \A g \in 1..MaxGoals : verdictsOn[g].starts <= verdictsOn[g].approvals
    /\ \A k \in 1..Len(goals) :
         LET v == verdictsOn[goals[k].id] IN
         goals[k].status = "approved" => v.last = "approved" /\ v.starts < v.approvals
=============================================================================
