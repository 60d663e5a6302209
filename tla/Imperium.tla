------------------------------ MODULE Imperium ------------------------------
(***************************************************************************)
(* The IMPERIUM kernel: pradyos/imperium/{kernel,scheduler,queue,            *)
(* state_core,checkpoint,recovery}.py as pradyos/service.py runs them.       *)
(*                                                                           *)
(* Threads: the workers of kernel.start, the sovereign-decisions poller,     *)
(* the Throne (user interface, same process), and the callers of submit.     *)
(* A TaskRecord is an object: a retry and a restart make a new one for the   *)
(* same task, so records are numbered in the order they are created and a    *)
(* thread holds a number.  enqueue creates one record and one heap entry,    *)
(* so the entry has the record's number, which is also the FIFO tiebreak.    *)
(*                                                                           *)
(* A StateCore transition assigns rec.state, builds the checkpoint line      *)
(* and only then takes the file lock and appends: two steps here, the line   *)
(* waiting in the thread in between.                                         *)
(***************************************************************************)
EXTENDS DagOps, Integers

CONSTANTS
    Tasks, Workers,
    Approvers,         \* subset of {"throne", "poller"}: who applies decisions
    DependsOn,         \* spec.depends_on, a sequence of tasks
    PriorityRank,      \* spec.priority.rank
    MaxRetries,        \* spec.max_retries
    Deniable,          \* tasks some PolicyEngine rule may deny
    Gated,             \* tasks PolicyCore classifies as APPROVAL_REQUIRED
    Planned,           \* tasks ORACLE may plan
    Handled,           \* tasks whose kind has a registered handler
    SelfEscalating,    \* tasks whose handler may answer {"escalate": True}
    SubmitAfter,       \* client discipline: submissions that return before t's
    EarlySubmit,       \* BOOLEAN: may submit be called before start?
    MaxFailures,       \* bound: failed dispatches
    MaxCrashes,        \* bound: process deaths
    MaxDecisions,      \* bound: lines of sovereign_decisions.jsonl
    MaxCancels         \* bound: calls of TaskQueue.cancel (the kernel makes none)

Absent == "absent"
TaskState == {"QUEUED", "RUNNING", "SUCCEEDED", "FAILED", "ESCALATED", "CANCELLED"}
Terminal == {"SUCCEEDED", "FAILED", "ESCALATED", "CANCELLED"}
NoLine == "none"
Action == {"approve", "reject", "unreadable"}

ASSUME SpecAssumption ==
    /\ DependsOn \in [Tasks -> Seq(Tasks)]
    /\ PriorityRank \in [Tasks -> 0..2]
    /\ MaxRetries \in [Tasks -> Nat]
    /\ SubmitAfter \in [Tasks -> SUBSET Tasks]
ASSUME KindAssumption ==
    /\ Deniable \subseteq Tasks /\ Gated \subseteq Tasks /\ Planned \subseteq Tasks
    /\ Handled \subseteq Tasks /\ SelfEscalating \subseteq Tasks
    /\ Approvers \subseteq {"throne", "poller"} /\ EarlySubmit \in BOOLEAN
ASSUME BoundAssumption ==
    /\ MaxFailures \in Nat /\ MaxCrashes \in Nat
    /\ MaxDecisions \in Nat /\ MaxCancels \in Nat

VARIABLES
    phase,       \* "down" until kernel.start, then "up"
    toResume,    \* records start() has read from the checkpoint and not requeued
    recs,        \* every TaskRecord of this process, in order of creation
    registry,    \* TaskQueue._records: the number of a task's record, 0 if none
    heap,        \* TaskQueue._heap: the numbers of the entries
    edges,       \* DependencyGraph._edges
    canceller,   \* the record TaskQueue.cancel holds the queue's lock for, 0 if none
    worker,      \* what each worker thread is doing
    client,      \* what the thread that submits each task is doing
    approver,    \* what each thread that applies decisions is doing
    poll,        \* locals of the poller and _decisions_seen
    approvals,   \* keys of Imperium._approvals
    dlq,         \* RecoveryCore._dlq
    checkpoint,  \* imperium_tasks.jsonl: the latest line of each task
    decisions,   \* sovereign_decisions.jsonl
    faults       \* failures, crashes and cancels so far

volatile == <<phase, toResume, recs, registry, heap, edges, canceller, worker,
              client, approver, poll, approvals, dlq>>
vars == <<phase, toResume, recs, registry, heap, edges, canceller, worker, client,
          approver, poll, approvals, dlq, checkpoint, decisions, faults>>

(* What a thread is doing, the record it holds, the line it has yet to write. *)
Thread(pc, rec, line) == [pc |-> pc, rec |-> rec, line |-> line]
IdleThread == Thread("idle", 0, NoLine)
IdlePoller == [pc |-> "idle", size |-> 0, batch |-> <<>>, seen |-> 0]

Init ==
    /\ phase = "down" /\ toResume = {}
    /\ recs = <<>> /\ registry = [t \in Tasks |-> 0] /\ heap = {} /\ edges = {}
    /\ canceller = 0
    /\ worker = [w \in Workers |-> IdleThread]
    /\ client = [t \in Tasks |-> Thread("new", 0, NoLine)]
    /\ approver = [a \in Approvers |-> IdleThread]
    /\ poll = IdlePoller
    /\ approvals = {} /\ dlq = <<>>
    /\ checkpoint = [t \in Tasks |-> Absent] /\ decisions = <<>>
    /\ faults = [failures |-> 0, crashes |-> 0, cancels |-> 0]

Up == phase = "up" /\ toResume = {}
StateOf(t) == IF registry[t] = 0 THEN Absent ELSE recs[registry[t]].state

(* TaskQueue._lock: enqueue, get and pop_runnable are one step with it, a    *)
(* cancel keeps it over two.                                                 *)
QueueFree == canceller = 0

(* Mutant: the record is registered under the next one's number. *)
MutEnqueue(t) ==
    /\ recs' = Append(recs, [task |-> t, state |-> "QUEUED", attempts |-> 0])
    /\ registry' = [registry EXCEPT ![t] = Len(recs) + 2]
    /\ heap' = heap \cup {Len(recs) + 1}

(* TaskQueue.enqueue: a fresh record replaces the one registered. *)
Enqueue(t) ==
    /\ recs' = Append(recs, [task |-> t, state |-> "QUEUED", attempts |-> 0])
    /\ registry' = [registry EXCEPT ![t] = Len(recs) + 1]
    /\ heap' = heap \cup {Len(recs) + 1}

(* The assignment to rec.state of a StateCore transition. *)
SetState(r, s) == recs' = [recs EXCEPT ![r].state = s]

-----------------------------------------------------------------------------
(* Submission.  task_id is drawn afresh by each ImperiumTask, so a task is   *)
(* submitted once.                                                           *)

(* SchedulerCore.submit, or the CycleDetected branch of Imperium.submit:     *)
(* then the record that is written is never registered.                      *)
SubmitEnqueue(t) ==
    /\ client[t].pc = "new" /\ (Up \/ EarlySubmit)
    /\ \A p \in SubmitAfter[t] : client[p].pc = "done"
    /\ LET dag == AddTask(edges, t, DependsOn[t]) IN
         /\ edges' = dag.edges
         /\ \/ /\ dag.ok /\ QueueFree
               /\ Enqueue(t)
               /\ client' = [client EXCEPT ![t] = Thread("enqueued", Len(recs) + 1, NoLine)]
            \/ /\ ~dag.ok
               /\ client' = [client EXCEPT ![t] = Thread("commit", 0, "FAILED")]
               /\ UNCHANGED <<recs, registry, heap>>
    /\ UNCHANGED <<phase, toResume, canceller, worker, approver, poll, approvals,
                   dlq, checkpoint, decisions, faults>>

(* state.write(rec) builds the line from the record as it is by now: the     *)
(* workers have seen it since scheduler.submit.                              *)
SubmitLine(t) ==
    /\ client[t].pc = "enqueued"
    /\ client' = [client EXCEPT ![t] = Thread("commit", @.rec, recs[@.rec].state)]
    /\ UNCHANGED <<phase, toResume, recs, registry, heap, edges, canceller, worker,
                   approver, poll, approvals, dlq, checkpoint, decisions, faults>>

SubmitWrite(t) ==
    /\ client[t].pc = "commit"
    /\ checkpoint' = [checkpoint EXCEPT ![t] = client[t].line]
    /\ client' = [client EXCEPT ![t] = Thread("done", 0, NoLine)]
    /\ UNCHANGED <<phase, toResume, recs, registry, heap, edges, canceller, worker,
                   approver, poll, approvals, dlq, decisions, faults>>

-----------------------------------------------------------------------------
(* Dispatch. *)

TaskAt(w) == recs[worker[w].rec].task

(* Mutant: a dependency blocks only once it has failed. *)
MutSatisfied(t) == \A k \in 1..Len(DependsOn[t]) :
                      StateOf(DependsOn[t][k]) # "FAILED"

(* An entry counts when the record registered for its task is QUEUED and     *)
(* every dependency is unknown or SUCCEEDED (is_satisfied_factory).          *)
Live(i) == StateOf(recs[i].task) = "QUEUED"
Satisfied(t) == \A k \in 1..Len(DependsOn[t]) :
                   StateOf(DependsOn[t][k]) \in {Absent, "SUCCEEDED"}
Runnable(i) == Live(i) /\ Satisfied(recs[i].task)

(* The order of the heap's tuples: priority rank, then the counter. *)
Before(i, j) ==
    LET pi == PriorityRank[recs[i].task]  pj == PriorityRank[recs[j].task]
    IN  pi < pj \/ (pi = pj /\ i < j)

(* Mutant: blocked entries ahead of the chosen one are not pushed back. *)
MutPop(w) ==
    /\ Up /\ QueueFree /\ worker[w].pc = "idle"
    /\ \E i \in heap :
         /\ Runnable(i)
         /\ \A j \in heap \ {i} : Runnable(j) => Before(i, j)
         /\ heap' = heap \ ({i} \cup {j \in heap : Before(j, i)})
         /\ worker' = [worker EXCEPT ![w] =
                          Thread("popped", registry[recs[i].task], NoLine)]
    /\ UNCHANGED <<phase, toResume, recs, registry, edges, canceller, client,
                   approver, poll, approvals, dlq, checkpoint, decisions, faults>>

(* pop_runnable: entries ahead of the chosen one are dropped when dead and   *)
(* pushed back when merely blocked.  The record is not marked in any way.    *)
Pop(w) ==
    /\ Up /\ QueueFree /\ worker[w].pc = "idle"
    /\ \E i \in heap :
         /\ Runnable(i)
         /\ \A j \in heap \ {i} : Runnable(j) => Before(i, j)
         /\ heap' = heap \ ({i} \cup {j \in heap : Before(j, i) /\ ~Live(j)})
         /\ worker' = [worker EXCEPT ![w] =
                          Thread("popped", registry[recs[i].task], NoLine)]
    /\ UNCHANGED <<phase, toResume, recs, registry, edges, canceller, client,
                   approver, poll, approvals, dlq, checkpoint, decisions, faults>>

(* pop_runnable finds nothing: the dead entries are gone all the same. *)
PopNothing(w) ==
    /\ Up /\ QueueFree /\ worker[w].pc = "idle"
    /\ \A i \in heap : ~Runnable(i)
    /\ \E i \in heap : ~Live(i)
    /\ heap' = {i \in heap : Live(i)}
    /\ UNCHANGED <<phase, toResume, recs, registry, edges, canceller, worker,
                   client, approver, poll, approvals, dlq, checkpoint, decisions,
                   faults>>

(* A StateCore transition by worker w: state and line now, append later. *)
Mark(w, s) ==
    /\ SetState(worker[w].rec, s)
    /\ worker' = [worker EXCEPT ![w] = Thread("commit", @.rec, s)]

(* mark_running also counts the attempt. *)
MarkRunning(w, pc) ==
    /\ recs' = [recs EXCEPT ![worker[w].rec] =
         [task |-> @.task, state |-> "RUNNING", attempts |-> @.attempts + 1]]
    /\ worker' = [worker EXCEPT ![w] = Thread(pc, @.rec, "RUNNING")]

OnlyThisWorker == UNCHANGED <<phase, toResume, registry, heap, edges, canceller,
                              client, approver, poll, approvals, dlq, checkpoint,
                              decisions, faults>>

(* PolicyViolationError leaves _run_record, _step and _worker_loop: the      *)
(* thread is gone, the record as it was.                                     *)
PolicyDeny(w) ==
    /\ worker[w].pc = "popped" /\ TaskAt(w) \in Deniable
    /\ worker' = [worker EXCEPT ![w] = Thread("dead", @.rec, NoLine)]
    /\ UNCHANGED recs /\ OnlyThisWorker

(* The constitutional gate. *)
GateEscalate(w) ==
    /\ worker[w].pc = "popped" /\ TaskAt(w) \in Gated
    /\ Mark(w, "ESCALATED") /\ OnlyThisWorker

(* _oracle_intercept: a plan that escalates, or a plan whose steps run.      *)
(* An offline ORACLE falls back to StartHandler.                             *)
OracleEscalate(w) ==
    /\ worker[w].pc = "popped" /\ TaskAt(w) \in Planned \ Gated
    /\ Mark(w, "ESCALATED") /\ OnlyThisWorker

StartPlan(w) ==
    /\ worker[w].pc = "popped" /\ TaskAt(w) \in Planned \ Gated
    /\ MarkRunning(w, "startPlan") /\ OnlyThisWorker

StartHandler(w) ==
    /\ worker[w].pc = "popped" /\ TaskAt(w) \in Handled \ Gated
    /\ MarkRunning(w, "startHandler") /\ OnlyThisWorker

(* CheckpointStore.write appends the line a worker holds, and the worker     *)
(* goes on with what follows the transition in the code.                     *)
Commit(w) ==
    /\ worker[w].pc \in {"commit", "startPlan", "startHandler"}
    /\ checkpoint' = [checkpoint EXCEPT ![TaskAt(w)] = worker[w].line]
    /\ worker' = [worker EXCEPT ![w] =
         CASE @.pc = "startPlan"    -> Thread("plan", @.rec, NoLine)
           [] @.pc = "startHandler" -> Thread("handler", @.rec, NoLine)
           [] @.pc = "commit" /\ @.line = "QUEUED" -> Thread("requeue", @.rec, NoLine)
           [] OTHER -> IdleThread]
    /\ UNCHANGED <<phase, toResume, recs, registry, heap, edges, canceller, client,
                   approver, poll, approvals, dlq, decisions, faults>>

(* The handler, or every step of the plan, reports ok. *)
Succeed(w) ==
    /\ worker[w].pc \in {"handler", "plan"}
    /\ Mark(w, "SUCCEEDED") /\ OnlyThisWorker

(* A handler, never a plan step, may ask for approval. *)
HandlerEscalate(w) ==
    /\ worker[w].pc = "handler" /\ TaskAt(w) \in SelfEscalating
    /\ Mark(w, "ESCALATED") /\ OnlyThisWorker

-----------------------------------------------------------------------------
(* RecoveryCore. *)

(* handle_failure, reached from a handler that raises or reports not ok, a   *)
(* plan step that does, or a kind nobody handles: retry or give up, by the   *)
(* attempts of the record in hand.                                           *)
Fail(w) ==
    /\ faults.failures < MaxFailures
    /\ \/ worker[w].pc \in {"handler", "plan"}
       \/ worker[w].pc = "popped" /\ TaskAt(w) \notin Gated \cup Handled
    /\ worker' = [worker EXCEPT ![w] =
         Thread(IF recs[@.rec].attempts <= MaxRetries[TaskAt(w)] THEN "backoff"
                ELSE "giveUp", @.rec, NoLine)]
    /\ faults' = [faults EXCEPT !.failures = @ + 1]
    /\ UNCHANGED <<phase, toResume, recs, registry, heap, edges, canceller, client,
                   approver, poll, approvals, dlq, checkpoint, decisions>>

(* Mutant: the task is enqueued before the worker lets go of it. *)
MutRetry(w) ==
    /\ worker[w].pc = "backoff"
    /\ Enqueue(TaskAt(w))
    /\ worker' = [worker EXCEPT ![w] = Thread("commit", @.rec, "RUNNING")]
    /\ UNCHANGED <<phase, toResume, edges, canceller, client, approver, poll,
                   approvals, dlq, checkpoint, decisions, faults>>

(* _schedule_retry: after the sleep the old record is marked QUEUED, and     *)
(* once that is on disk the task is enqueued anew.                           *)
Retry(w) ==
    /\ worker[w].pc = "backoff"
    /\ Mark(w, "QUEUED") /\ OnlyThisWorker

(* Mutant: the retry is never enqueued. *)
MutRequeue(w) ==
    /\ worker[w].pc = "requeue"
    /\ worker' = [worker EXCEPT ![w] = IdleThread]
    /\ UNCHANGED <<phase, toResume, recs, registry, heap, edges, canceller, client,
                   approver, poll, approvals, dlq, checkpoint, decisions, faults>>

Requeue(w) ==
    /\ QueueFree /\ worker[w].pc = "requeue"
    /\ Enqueue(TaskAt(w))
    /\ worker' = [worker EXCEPT ![w] = IdleThread]
    /\ UNCHANGED <<phase, toResume, edges, canceller, client, approver, poll,
                   approvals, dlq, checkpoint, decisions, faults>>

(* Mutant: the task whose letter is filed is queued once more. *)
MutDeadLetter(w) ==
    /\ worker[w].pc = "lettered"
    /\ Mark(w, "QUEUED") /\ OnlyThisWorker

(* _dead_letter, after the rollback command has been tried: the letter goes  *)
(* to the list that the Throne shows ...                                     *)
FileLetter(w) ==
    /\ worker[w].pc = "giveUp"
    /\ dlq' = Append(dlq, TaskAt(w))
    /\ worker' = [worker EXCEPT ![w] = Thread("lettered", @.rec, NoLine)]
    /\ UNCHANGED <<phase, toResume, recs, registry, heap, edges, canceller, client,
                   approver, poll, approvals, checkpoint, decisions, faults>>

(* ... and the record is marked after.                                       *)
DeadLetter(w) ==
    /\ worker[w].pc = "lettered"
    /\ Mark(w, "FAILED") /\ OnlyThisWorker

-----------------------------------------------------------------------------
(* Sovereign decisions. *)

(* A line is appended by the pradyos-sovereign CLI, which looks the task     *)
(* up in the checkpoint, or by the web API, whose lines carry "decision"     *)
(* where the poller reads "action".                                          *)
WriteDecision(t, act) ==
    /\ Len(decisions) < MaxDecisions /\ checkpoint[t] # Absent
    /\ decisions' = Append(decisions, [task |-> t, action |-> act])
    /\ UNCHANGED <<volatile, checkpoint, faults>>

OnlyPoller == UNCHANGED <<phase, toResume, recs, registry, heap, edges, canceller,
                          worker, client, approvals, dlq, checkpoint, decisions,
                          faults>>

(* _process_sovereign_decisions: the size is taken before the file is read   *)
(* to its end, and the size is what is remembered.                           *)
PollStat ==
    /\ Up /\ "poller" \in Approvers /\ poll.pc = "idle"
    /\ Len(decisions) > poll.seen
    /\ poll' = [poll EXCEPT !.pc = "stat", !.size = Len(decisions)]
    /\ UNCHANGED approver /\ OnlyPoller

PollRead ==
    /\ poll.pc = "stat"
    /\ poll' = [pc |-> "apply", size |-> 0, seen |-> poll.size,
                batch |-> SubSeq(decisions, poll.seen + 1, Len(decisions))]
    /\ UNCHANGED approver /\ OnlyPoller

(* Mutant: a decision is applied whatever the state of the task. *)
MutDecide(a, t, act) ==
    /\ QueueFree /\ approver[a].pc = "idle" /\ registry[t] # 0
    /\ approver' = [approver EXCEPT ![a] = Thread(act, registry[t], NoLine)]

(* The test that opens approve and reject: an unlocked look at the record. *)
Decide(a, t, act) ==
    /\ QueueFree /\ approver[a].pc = "idle" /\ StateOf(t) = "ESCALATED"
    /\ approver' = [approver EXCEPT ![a] = Thread(act, registry[t], NoLine)]

PollDecide ==
    /\ poll.pc = "apply" /\ poll.batch # <<>>
    /\ Head(poll.batch).action \in {"approve", "reject"}
    /\ Decide("poller", Head(poll.batch).task, Head(poll.batch).action)
    /\ poll' = [poll EXCEPT !.batch = Tail(@)]
    /\ OnlyPoller

(* A line without a known action, or for a task that is not ESCALATED now. *)
PollDrop ==
    /\ poll.pc = "apply" /\ poll.batch # <<>> /\ approver["poller"].pc = "idle"
    /\ \/ Head(poll.batch).action \notin {"approve", "reject"}
       \/ QueueFree /\ StateOf(Head(poll.batch).task) # "ESCALATED"
    /\ poll' = [poll EXCEPT !.batch = Tail(@)]
    /\ UNCHANGED approver /\ OnlyPoller

PollDone ==
    /\ poll.pc = "apply" /\ poll.batch = <<>> /\ approver["poller"].pc = "idle"
    /\ poll' = [poll EXCEPT !.pc = "idle"]
    /\ UNCHANGED approver /\ OnlyPoller

ThroneDecide(t, act) ==
    /\ Up /\ "throne" \in Approvers
    /\ Decide("throne", t, act)
    /\ UNCHANGED poll /\ OnlyPoller

(* _approvals is written, then mark_approved or mark_rejected. *)
ApplyDecision(a) ==
    /\ approver[a].pc \in {"approve", "reject"}
    /\ LET r == approver[a].rec
           s == IF approver[a].pc = "approve" THEN "QUEUED" ELSE "CANCELLED"
       IN  /\ SetState(r, s)
           /\ approvals' = approvals \cup {recs[r].task}
           /\ approver' = [approver EXCEPT ![a] = Thread("commit", r, s)]
    /\ UNCHANGED <<phase, toResume, registry, heap, edges, canceller, worker,
                   client, poll, dlq, checkpoint, decisions, faults>>

CommitDecision(a) ==
    /\ approver[a].pc = "commit"
    /\ checkpoint' = [checkpoint EXCEPT ![recs[approver[a].rec].task] = approver[a].line]
    /\ approver' = [approver EXCEPT ![a] = IdleThread]
    /\ UNCHANGED <<phase, toResume, recs, registry, heap, edges, canceller, worker,
                   client, poll, approvals, dlq, decisions, faults>>

(* TaskQueue.cancel tests the state and then assigns it, with the queue's    *)
(* lock in its hands, which no StateCore transition takes: what a worker     *)
(* writes in between is overwritten.  No checkpoint line, no audit, and the  *)
(* heap keeps the entry.                                                     *)
CancelTest(t) ==
    /\ QueueFree /\ faults.cancels < MaxCancels
    /\ StateOf(t) \in TaskState \ Terminal
    /\ canceller' = registry[t]
    /\ faults' = [faults EXCEPT !.cancels = @ + 1]
    /\ UNCHANGED <<phase, toResume, recs, registry, heap, edges, worker, client,
                   approver, poll, approvals, dlq, checkpoint, decisions>>

CancelWrite ==
    /\ ~QueueFree
    /\ SetState(canceller, "CANCELLED")
    /\ canceller' = 0
    /\ UNCHANGED <<phase, toResume, registry, heap, edges, worker, client, approver,
                   poll, approvals, dlq, checkpoint, decisions, faults>>

-----------------------------------------------------------------------------
(* Start and death of the process. *)

(* Mutants: a success is resumed too; a task that was running is not. *)
MutStartAll ==
    /\ phase = "down"
    /\ phase' = "up"
    /\ toResume' = {t \in Tasks : checkpoint[t] \in {"QUEUED", "RUNNING", "SUCCEEDED"}}
    /\ UNCHANGED <<recs, registry, heap, edges, canceller, worker, client, approver,
                   poll, approvals, dlq, checkpoint, decisions, faults>>
MutStartQueued ==
    /\ phase = "down"
    /\ phase' = "up"
    /\ toResume' = {t \in Tasks : checkpoint[t] = "QUEUED"}
    /\ UNCHANGED <<recs, registry, heap, edges, canceller, worker, client, approver,
                   poll, approvals, dlq, checkpoint, decisions, faults>>

(* start reads the checkpoint once (resume_non_terminal) ... *)
Start ==
    /\ phase = "down"
    /\ phase' = "up"
    /\ toResume' = {t \in Tasks : checkpoint[t] \in TaskState \ Terminal}
    /\ UNCHANGED <<recs, registry, heap, edges, canceller, worker, client, approver,
                   poll, approvals, dlq, checkpoint, decisions, faults>>

(* ... and requeues each spec, without its edges, before the threads run.    *)
(* The file's order of tasks is left open.                                   *)
Resume(t) ==
    /\ QueueFree /\ t \in toResume
    /\ Enqueue(t)
    /\ toResume' = toResume \ {t}
    /\ UNCHANGED <<phase, edges, canceller, worker, client, approver, poll,
                   approvals, dlq, checkpoint, decisions, faults>>

(* The process dies, or stop() outlives its two-second joins and the         *)
(* daemon threads go with the interpreter: the two files are what is left.   *)
Crash ==
    /\ faults.crashes < MaxCrashes
    /\ phase' = "down" /\ toResume' = {}
    /\ recs' = <<>> /\ registry' = [t \in Tasks |-> 0] /\ heap' = {} /\ edges' = {}
    /\ canceller' = 0
    /\ worker' = [w \in Workers |-> IdleThread]
    /\ client' = [t \in Tasks |->
         IF client[t].pc \in {"enqueued", "commit"}
         THEN Thread("lost", 0, NoLine) ELSE client[t]]
    /\ approver' = [a \in Approvers |-> IdleThread]
    /\ poll' = IdlePoller
    /\ approvals' = {} /\ dlq' = <<>>
    /\ faults' = [faults EXCEPT !.crashes = @ + 1]
    /\ UNCHANGED <<checkpoint, decisions>>

-----------------------------------------------------------------------------
WorkerStep(w) ==
    \/ Pop(w) \/ PopNothing(w) \/ PolicyDeny(w) \/ GateEscalate(w) \/ OracleEscalate(w)
    \/ StartPlan(w) \/ StartHandler(w) \/ Commit(w) \/ Succeed(w) \/ HandlerEscalate(w)
    \/ Fail(w) \/ Retry(w) \/ Requeue(w) \/ FileLetter(w) \/ DeadLetter(w)

ClientStep(t) == SubmitEnqueue(t) \/ SubmitLine(t) \/ SubmitWrite(t)

PollerStep == PollStat \/ PollRead \/ PollDecide \/ PollDrop \/ PollDone

Next ==
    \/ \E w \in Workers : WorkerStep(w)
    \/ \E t \in Tasks : ClientStep(t) \/ CancelTest(t) \/ Resume(t)
    \/ \E t \in Tasks, act \in Action : WriteDecision(t, act)
    \/ \E t \in Tasks, act \in {"approve", "reject"} : ThroneDecide(t, act)
    \/ \E a \in Approvers : ApplyDecision(a) \/ CommitDecision(a)
    \/ PollerStep \/ CancelWrite \/ Start \/ Crash

Spec == Init /\ [][Next]_vars

(* The scheduler of the host runs every thread that can run, and a service   *)
(* manager starts a process that is down.  Nobody is obliged to submit, to   *)
(* decide, to cancel, to fail or to crash.                                   *)
FairSpec ==
    /\ Spec
    /\ \A w \in Workers : WF_vars(WorkerStep(w))
    /\ \A t \in Tasks : WF_vars(SubmitLine(t) \/ SubmitWrite(t)) /\ WF_vars(Resume(t))
    /\ \A a \in Approvers : WF_vars(ApplyDecision(a) \/ CommitDecision(a))
    /\ WF_vars(PollerStep) /\ WF_vars(CancelWrite) /\ WF_vars(Start)
-----------------------------------------------------------------------------
(* Properties. *)

Pcs == {"idle", "popped", "dead", "commit", "startPlan", "startHandler", "plan",
        "handler", "backoff", "requeue", "giveUp", "lettered"}
Lines == TaskState \cup {NoLine}
DecisionLines == [task : Tasks, action : Action]
Records == [task : Tasks, state : TaskState, attempts : Nat]

(* The values of the three kinds of thread while there are n records: one    *)
(* that holds a record holds one that exists, one that is to write a line    *)
(* has the line.                                                             *)
WorkerThreads(n) ==
    {x \in [pc : Pcs, rec : 0..n, line : Lines] :
        /\ x.pc # "idle" => x.rec # 0
        /\ x.pc \in {"commit", "startPlan", "startHandler"} => x.line \in TaskState}
ClientThreads(n) ==
    {x \in [pc : {"new", "enqueued", "commit", "done", "lost"}, rec : 0..n, line : Lines] :
        /\ x.pc = "enqueued" => x.rec # 0
        /\ x.pc \in {"new", "done", "lost"} => x.rec = 0
        /\ x.pc = "commit" => x.line \in TaskState}
ApproverThreads(n) ==
    {x \in [pc : {"idle", "approve", "reject", "commit"}, rec : 0..n, line : Lines] :
        /\ x.pc # "idle" => x.rec # 0
        /\ x.pc = "commit" => x.line \in TaskState}

ThreadsOK ==
    /\ worker \in [Workers -> WorkerThreads(Len(recs))]
    /\ client \in [Tasks -> ClientThreads(Len(recs))]
    /\ approver \in [Approvers -> ApproverThreads(Len(recs))]
QueueOK ==
    /\ recs \in Seq(Records)
    /\ registry \in [Tasks -> 0..Len(recs)] /\ heap \subseteq 1..Len(recs)
    /\ canceller \in 0..Len(recs) /\ (MaxCancels = 0 => QueueFree)
RestOK ==
    /\ phase \in {"down", "up"} /\ toResume \subseteq Tasks
    /\ poll \in [pc : {"idle", "stat", "apply"}, size : Nat, seen : Nat,
                 batch : Seq(DecisionLines)]
    /\ poll.pc # "idle" => "poller" \in Approvers
    /\ approvals \subseteq Tasks /\ dlq \in Seq(Tasks)
    /\ checkpoint \in [Tasks -> TaskState \cup {Absent}]
    /\ decisions \in Seq(DecisionLines)
    /\ faults \in [failures : Nat, crashes : Nat, cancels : Nat]

(* Every variable holds a value of its kind, and a thread that holds a       *)
(* record holds one that exists.                                             *)
TypeOK == QueueOK /\ ThreadsOK /\ RestOK

Busy(w) == worker[w].pc # "idle"
Running(w) == worker[w].pc \in {"startPlan", "startHandler", "plan", "handler"}
Final == {"SUCCEEDED", "FAILED", "CANCELLED"}

(* Two workers never have the same task in hand, although pop_runnable       *)
(* does not mark the record it returns and a retry enqueues it anew.         *)
SingleRunner == \A v, w \in Workers :
    v # w /\ Busy(v) /\ Busy(w) => TaskAt(v) # TaskAt(w)

(* Why: a task has one entry in the heap or one worker, never both; a task   *)
(* to be resumed has neither yet, a task not submitted has not even a        *)
(* record or a line, and before start there is nothing at all.               *)
HeapOne == \A i, j \in heap : i # j => recs[i].task # recs[j].task
HeapFree == \A i \in heap, w \in Workers : Busy(w) => TaskAt(w) # recs[i].task
ResumeFree == \A t \in toResume :
    /\ client[t].pc # "new"
    /\ \A i \in heap : recs[i].task # t
    /\ \A w \in Workers : Busy(w) => TaskAt(w) # t
NewFree == \A t \in Tasks : client[t].pc = "new" =>
    checkpoint[t] = Absent /\ \A i \in 1..Len(recs) : recs[i].task # t
DownFree == phase = "down" => recs = <<>> /\ toResume = {}
RegistryTasks == \A t \in Tasks : registry[t] # 0 => recs[registry[t]].task = t
RunnerInv == SingleRunner /\ HeapOne /\ HeapFree /\ ResumeFree /\ NewFree
             /\ DownFree /\ RegistryTasks

(* From the moment a task is marked RUNNING until its handler has answered,  *)
(* every dependency the scheduler knows has succeeded: nothing takes a       *)
(* parent's success back, and no parent turns up late.                       *)
DependenciesFirst == \A w \in Workers : Running(w) =>
    \A k \in 1..Len(DependsOn[TaskAt(w)]) :
       StateOf(DependsOn[TaskAt(w)][k]) \in {Absent, "SUCCEEDED"}

(* A QUEUED task can still be reached by a worker: it is in the heap or in   *)
(* hand, unless it was approved or a worker died with it.                    *)
QueuedAccounted == \A t \in Tasks : StateOf(t) = "QUEUED" =>
    \/ registry[t] \in heap
    \/ \E w \in Workers : Busy(w) /\ TaskAt(w) = t
    \/ t \in approvals

(* What the checkpoint calls a success is one: no record of the task is in   *)
(* any other state, in this process or after a restart.                      *)
DurableSuccess == \A t \in Tasks :
    checkpoint[t] = "SUCCEEDED" => StateOf(t) \in {Absent, "SUCCEEDED"}

(* A submission that returned survives: the task is in the registry, or      *)
(* will be, or the checkpoint has it in a state resume leaves alone.         *)
NoTaskLost == \A t \in Tasks : phase = "up" /\ client[t].pc = "done" =>
    registry[t] # 0 \/ t \in toResume \/ checkpoint[t] \in Terminal

(* A task has one dead letter, and none while it may run again: the letter   *)
(* is of a task that is FAILED, or that the worker which filed it holds to   *)
(* mark it so, and no entry of the heap can bring the task back.             *)
AboutToFail(t) == \E w \in Workers : worker[w].pc = "lettered" /\ TaskAt(w) = t
DeadLettersFinal ==
    /\ \A i, j \in 1..Len(dlq) : i # j => dlq[i] # dlq[j]
    /\ \A i \in 1..Len(dlq) :
         /\ StateOf(dlq[i]) = "FAILED" \/ AboutToFail(dlq[i])
         /\ registry[dlq[i]] \notin heap

(* A record that is SUCCEEDED, FAILED or CANCELLED never changes state:      *)
(* the worker, the poller and the Throne mutate it without a lock.           *)
FinalStays == [][\A i \in 1..Len(recs) :
    recs[i].state \in Final /\ i <= Len(recs') => recs'[i].state = recs[i].state]_vars

(* Every accepted task settles, whatever retries and restarts it takes. *)
Settled(t) == Up /\ IF registry[t] = 0 THEN checkpoint[t] \in Terminal
                    ELSE StateOf(t) \in Terminal
EveryTaskSettles == \A t \in Tasks : client[t].pc = "done" ~> Settled(t)

-----------------------------------------------------------------------------
(* What the documentation says and the code does not do. *)

(* recovery.py: "up to task.max_retries": a process starts a task's          *)
(* handler at most max_retries + 1 times.                                    *)
AttemptsOf(t) ==
    LET A[n \in 0..Len(recs)] ==
          IF n = 0 THEN 0
          ELSE A[n-1] + IF recs[n].task = t THEN recs[n].attempts ELSE 0
    IN  A[Len(recs)]
RetryBudget == \A t \in Tasks : AttemptsOf(t) <= MaxRetries[t] + 1

(* queue.py: pop_runnable takes "the highest-priority QUEUED task whose      *)
(* dependencies are satisfied": every QUEUED task is in the heap, in the     *)
(* hands of a live worker or about to be committed by an approver.           *)
QueuedIsPoppable == \A t \in Tasks : StateOf(t) = "QUEUED" =>
    \/ registry[t] \in heap
    \/ \E w \in Workers : Busy(w) /\ worker[w].pc # "dead" /\ TaskAt(w) = t
    \/ \E a \in Approvers : approver[a].pc # "idle" /\ approver[a].rec = registry[t]

(* scheduler.py: "A task is runnable if all its dependencies have            *)
(* succeeded": none of them is on record as anything else.                   *)
DependenciesSucceeded == \A w \in Workers : Running(w) =>
    \A k \in 1..Len(DependsOn[TaskAt(w)]) :
       checkpoint[DependsOn[TaskAt(w)][k]] \notin {"FAILED", "CANCELLED", "ESCALATED"}

Quiet(t) ==
    /\ client[t].pc \notin {"enqueued", "commit"}
    /\ \A w \in Workers : Busy(w) => TaskAt(w) # t \/ worker[w].line = NoLine
    /\ \A a \in Approvers : approver[a].pc # "idle" => recs[approver[a].rec].task # t

(* checkpoint.py: "one record per task state mutation. Resume reads back     *)
(* the latest line": with no write under way, the latest line of a task      *)
(* has the state of its record.                                              *)
CheckpointCurrent == \A t \in Tasks :
    registry[t] # 0 /\ Quiet(t) => checkpoint[t] = StateOf(t)
=============================================================================
