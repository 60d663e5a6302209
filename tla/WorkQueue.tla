------------------------------ MODULE WorkQueue ------------------------------
(* core/task_queue.py: a priority queue of task ids, the table of the tasks, *)
(* and a pool of workers that stop sends home with one sentinel each, behind *)
(* all the work there is.                                                    *)
EXTENDS Integers, FiniteSets

CONSTANTS
    Works,            \* tasks
    WorkPriority,     \* task -> priority, the smaller the sooner
    LastPriority,     \* that of the sentinels, 10**9
    PoolWorkers,      \* threads of the pool
    MaxSize           \* of the queue; 0: without bound

ASSUME WorkAssumption ==
    /\ WorkPriority \in [Works -> Int] /\ LastPriority \in Int
    /\ MaxSize \in Nat /\ IsFiniteSet(PoolWorkers) /\ PoolWorkers # {}
    /\ IsFiniteSet(Works) /\ "none" \notin Works

VARIABLES
    work,             \* task -> "new", "pending", "running", "done", "failed"
    arrival,          \* task -> its sequence number, 0 before submit
    items,            \* the tasks in the queue
    sentinels,        \* and the sentinels in it
    unsent,           \* sentinels stop has still to put; -1 before stop
    worker,           \* thread -> where it is, and with which task
    put,              \* history: tasks put into the queue
    late,             \* history: those put when stop had begun
    cancelled         \* history: tasks cancelled before a worker looked at them

workVars == <<work, arrival, items, sentinels, unsent, worker, put, late, cancelled>>

At(place, t) == [pc |-> place, task |-> t]
HasRoom == MaxSize = 0 \/ Cardinality(items) + sentinels < MaxSize
InHand(t, places) == \E w \in PoolWorkers : worker[w].task = t /\ worker[w].pc \in places

WorkInit ==
    /\ work = [t \in Works |-> "new"] /\ arrival = [t \in Works |-> 0]
    /\ items = {} /\ sentinels = 0 /\ unsent = -1
    /\ worker = [w \in PoolWorkers |-> At("get", "none")]
    /\ put = {} /\ late = {} /\ cancelled = {}

(* submit enters the task into the table ... *)
EnterWork(t) ==
    /\ work[t] = "new"
    /\ work' = [work EXCEPT ![t] = "pending"]
    /\ arrival' = [arrival EXCEPT ![t] = 1 + Cardinality({u \in Works : arrival[u] > 0})]
    /\ UNCHANGED <<items, sentinels, unsent, worker, put, late, cancelled>>

(* ... and then into the queue, which may be full. *)
PutWork(t) ==
    /\ arrival[t] > 0 /\ t \notin put /\ HasRoom
    /\ items' = items \cup {t}
    /\ put' = put \cup {t}
    /\ late' = IF unsent = -1 THEN late ELSE late \cup {t}
    /\ UNCHANGED <<work, arrival, sentinels, unsent, worker, cancelled>>

CancelWork(t) ==
    /\ work[t] = "pending"
    /\ work' = [work EXCEPT ![t] = "failed"]
    /\ cancelled' = IF InHand(t, {"mark"}) THEN cancelled ELSE cancelled \cup {t}
    /\ UNCHANGED <<arrival, items, sentinels, unsent, worker, put, late>>

Before(t, u) ==
    \/ WorkPriority[t] < WorkPriority[u]
    \/ WorkPriority[t] = WorkPriority[u] /\ arrival[t] < arrival[u]

(* A submitted priority is not checked: a task may rank behind the sentinels. *)
Outranked(t) == WorkPriority[t] > LastPriority

GetsWork(w) ==
    \E t \in items :
        /\ worker[w].pc = "get" /\ \A u \in items \ {t} : Before(t, u)
        /\ Outranked(t) => sentinels = 0
        /\ items' = items \ {t}
        /\ worker' = [worker EXCEPT ![w] = At("look", t)]
        /\ UNCHANGED <<work, arrival, sentinels, unsent, put, late, cancelled>>

MutGetsSentinel(w) ==
    /\ worker[w].pc = "get" /\ sentinels > 0
    /\ sentinels' = sentinels - 1
    /\ worker' = [worker EXCEPT ![w] = At("gone", "none")]
    /\ UNCHANGED <<work, arrival, items, unsent, put, late, cancelled>>

GetsSentinel(w) ==
    /\ worker[w].pc = "get" /\ sentinels > 0 /\ \A t \in items : Outranked(t)
    /\ sentinels' = sentinels - 1
    /\ worker' = [worker EXCEPT ![w] = At("gone", "none")]
    /\ UNCHANGED <<work, arrival, items, unsent, put, late, cancelled>>

(* The status is read, and set, in two steps. *)
Looks(w) ==
    /\ worker[w].pc = "look"
    /\ LET t == worker[w].task IN
         worker' = [worker EXCEPT ![w] = IF work[t] = "pending" THEN At("mark", t)
                                         ELSE At("get", "none")]
    /\ UNCHANGED <<work, arrival, items, sentinels, unsent, put, late, cancelled>>

MarksRunning(w) ==
    /\ worker[w].pc = "mark"
    /\ work' = [work EXCEPT ![worker[w].task] = "running"]
    /\ worker' = [worker EXCEPT ![w].pc = "handle"]
    /\ UNCHANGED <<arrival, items, sentinels, unsent, put, late, cancelled>>

Handled(w, outcome) ==
    /\ worker[w].pc = "handle"
    /\ work' = [work EXCEPT ![worker[w].task] = outcome]
    /\ worker' = [worker EXCEPT ![w] = At("get", "none")]
    /\ UNCHANGED <<arrival, items, sentinels, unsent, put, late, cancelled>>

(* stop: from its first sentinel on, what is put may come too late. *)
StopPool ==
    /\ unsent = -1
    /\ unsent' = Cardinality(PoolWorkers)
    /\ UNCHANGED <<work, arrival, items, sentinels, worker, put, late, cancelled>>

PutSentinel ==
    /\ unsent > 0 /\ HasRoom
    /\ unsent' = unsent - 1 /\ sentinels' = sentinels + 1
    /\ UNCHANGED <<work, arrival, items, worker, put, late, cancelled>>

WorkNext ==
    \/ StopPool \/ PutSentinel
    \/ \E t \in Works : EnterWork(t) \/ PutWork(t) \/ CancelWork(t)
    \/ \E w \in PoolWorkers : \/ GetsWork(w) \/ GetsSentinel(w) \/ Looks(w) \/ MarksRunning(w)
                              \/ \E outcome \in {"done", "failed"} : Handled(w, outcome)

WorkSpec == WorkInit /\ [][WorkNext]_workVars

-----------------------------------------------------------------------------
(* When the pool has gone home, every task that was in the queue before stop *)
(* is settled, unless it ranks behind the sentinels. A cancelled task is     *)
(* never handed to the handler, unless a worker had read its status already; *)
(* then it runs, though cancel said yes.                                     *)
StopLeavesNothing ==
    /\ (\A w \in PoolWorkers : worker[w].pc = "gone") =>
           \A t \in put \ late : Outranked(t) \/ work[t] \in {"done", "failed"}
    /\ \A t \in cancelled : work[t] = "failed" /\ ~InHand(t, {"mark", "handle"})
=============================================================================
