----------------------------- MODULE JobScheduler -----------------------------
(* core/job_scheduler.py: jobs in a bounded deque with an index beside it,   *)
(* and threads that tick: what is due is marked under the lock and handled   *)
(* outside it, while others schedule, cancel, delete and tick.               *)
EXTENDS Integers, Sequences, SequencesExt

CONSTANTS
    TimedJobs,        \* job ids
    Repeating,        \* the jobs whose interval_seconds is not None
    JobInterval,      \* job -> interval_seconds, which is not checked: 0 and less pass
    Capacity,         \* of the deque
    JobTickers,       \* threads in tick
    JobHorizon        \* bound: the clock

ASSUME JobAssumption ==
    /\ Capacity \in Nat \ {0} /\ JobHorizon \in Nat
    /\ Repeating \subseteq TimedJobs /\ JobInterval \in [TimedJobs -> Int]

VARIABLES
    jobClock,
    deque,            \* _jobs, oldest first
    jobIndex,         \* the ids _index knows
    job,              \* job -> status and next_run_at
    batch,            \* thread -> the jobs its tick has still to handle
    tickTime,         \* thread -> now of its tick
    handled           \* history: job -> the last due time it was handled for

jobVars == <<jobClock, deque, jobIndex, job, batch, tickTime, handled>>

JobInit ==
    /\ jobClock = 0 /\ deque = <<>> /\ jobIndex = {}
    /\ job = [j \in TimedJobs |-> [status |-> "new", next |-> 0]]
    /\ batch = [k \in JobTickers |-> <<>>] /\ tickTime = [k \in JobTickers |-> 0]
    /\ handled = [j \in TimedJobs |-> -1]

JobClockTicks ==
    /\ jobClock < JobHorizon /\ jobClock' = jobClock + 1
    /\ UNCHANGED <<deque, jobIndex, job, batch, tickTime, handled>>

(* A full deque drops its oldest job, whatever it is doing. *)
ScheduleJob(j, t) ==
    /\ job[j].status = "new"
    /\ LET evicted == IF Len(deque) = Capacity THEN {Head(deque)} ELSE {} IN
         /\ deque' = Append(IF evicted # {} THEN Tail(deque) ELSE deque, j)
         /\ jobIndex' = (jobIndex \cup {j}) \ evicted
    /\ job' = [job EXCEPT ![j] = [status |-> "pending", next |-> t]]
    /\ UNCHANGED <<jobClock, batch, tickTime, handled>>

CancelJob(j) ==
    /\ j \in jobIndex /\ job[j].status = "pending"
    /\ job' = [job EXCEPT ![j].status = "cancelled"]
    /\ UNCHANGED <<jobClock, deque, jobIndex, batch, tickTime, handled>>

DeleteJob(j) ==
    /\ j \in jobIndex
    /\ jobIndex' = jobIndex \ {j}
    /\ deque' = RemoveFirst(deque, j)
    /\ UNCHANGED <<jobClock, job, batch, tickTime, handled>>

(* What tick finds due among the n oldest jobs. *)
DueNow(j) == job[j].status = "pending" /\ job[j].next <= jobClock
DueAmong[n \in 0..Len(deque)] ==
    IF n = 0 THEN <<>>
    ELSE IF DueNow(deque[n]) THEN Append(DueAmong[n - 1], deque[n]) ELSE DueAmong[n - 1]
DueJobs == DueAmong[Len(deque)]

MutTickMarks(k) ==
    /\ batch[k] = <<>> /\ DueJobs # <<>>
    /\ batch' = [batch EXCEPT ![k] = DueJobs]
    /\ tickTime' = [tickTime EXCEPT ![k] = jobClock]
    /\ UNCHANGED <<jobClock, deque, jobIndex, job, handled>>

TickMarks(k) ==
    /\ batch[k] = <<>> /\ DueJobs # <<>>
    /\ batch' = [batch EXCEPT ![k] = DueJobs]
    /\ tickTime' = [tickTime EXCEPT ![k] = jobClock]
    /\ job' = [j \in TimedJobs |-> IF j \in ToSet(DueJobs)
                                   THEN [job[j] EXCEPT !.status = "running"] ELSE job[j]]
    /\ UNCHANGED <<jobClock, deque, jobIndex, handled>>

(* The handler returns, raises, or is not there. Only a success makes an     *)
(* interval job pending again.                                               *)
After(j, ok, t) ==
    IF ok /\ j \in Repeating THEN [status |-> "pending", next |-> t + JobInterval[j]]
    ELSE [job[j] EXCEPT !.status = IF ok THEN "completed" ELSE "failed"]

HandleNext(k, ok) ==
    /\ batch[k] # <<>>
    /\ LET j == Head(batch[k]) IN
         /\ job' = [job EXCEPT ![j] = After(j, ok, tickTime[k])]
         /\ handled' = [handled EXCEPT ![j] = job[j].next]
    /\ batch' = [batch EXCEPT ![k] = Tail(@)]
    /\ tickTime' = [tickTime EXCEPT ![k] = IF Len(batch[k]) = 1 THEN 0 ELSE @]
    /\ UNCHANGED <<jobClock, deque, jobIndex>>

JobNext ==
    \/ JobClockTicks
    \/ \E j \in TimedJobs : \/ CancelJob(j) \/ DeleteJob(j)
                            \/ \E t \in jobClock..(jobClock + 1) : ScheduleJob(j, t)
    \/ \E k \in JobTickers : \/ TickMarks(k)
                             \/ \E ok \in BOOLEAN : HandleNext(k, ok)

JobSpec == JobInit /\ [][JobNext]_jobVars

-----------------------------------------------------------------------------
Restless(j) == j \in Repeating /\ JobInterval[j] <= 0

(* The index and the deque hold the same jobs, through evictions and         *)
(* deletions. Ticks that overlap never share a job, a job is running exactly *)
(* while a tick has it, and it is handled once for a due time. A job with an *)
(* interval of nothing is due again at the time it was handled at.           *)
JobsInStep ==
    /\ jobIndex = ToSet(deque)
    /\ \A k, l \in JobTickers : k # l => ToSet(batch[k]) \cap ToSet(batch[l]) = {}
    /\ \A j \in TimedJobs :
         /\ job[j].status = "running" <=> \E k \in JobTickers : j \in ToSet(batch[k])
         /\ job[j].status \in {"pending", "running"} => job[j].next > handled[j] \/ Restless(j)
=============================================================================
