----------------------------- MODULE KernelProofs -----------------------------
(* The safety of the kernel, for any number of tasks, workers, failures,     *)
(* crashes and decisions: its types; no submission that returned is lost and *)
(* a QUEUED task is accounted for, whatever is cancelled. As long as nothing *)
(* is submitted before start, no two workers have one task in hand; where    *)
(* moreover nobody calls TaskQueue.cancel, as nothing in the repository      *)
(* does, a success on disk is one, a dead letter is final and dependencies   *)
(* come first. When besides one thread at a time decides about approvals, a  *)
(* final record stays and the kernel implements TaskLifecycle.               *)
EXTENDS ImperiumRefinement, SequenceTheorems, TLAPS

(***************************************************************************)
(* What the three ways of writing recs do to it.                             *)
(***************************************************************************)
SameTasks == \A i \in 1..Len(recs) : recs'[i].task = recs[i].task

LEMMA StatesAreStates == Terminal \subseteq TaskState /\ NoLine \notin TaskState
                         /\ Absent \notin TaskState
BY DEF Terminal, TaskState, NoLine, Absent

LEMMA RecsLen == TypeOK => Len(recs) \in Nat /\ recs \in Seq(Records)
BY LenProperties DEF TypeOK, QueueOK, QueueFree

LEMMA RecAt ==
    ASSUME TypeOK, NEW i \in 1..Len(recs)
    PROVE  recs[i] \in Records /\ recs[i].task \in Tasks /\ recs[i].state \in TaskState
<1>1. recs[i] \in Records
  BY RecsLen, ElementOfSeq
<1> QED
  BY <1>1 DEF Records

(* A worker that is not idle holds a record that exists. *)
LEMMA HeldRec ==
    ASSUME TypeOK, NEW w \in Workers, worker[w].pc # "idle"
    PROVE  worker[w].rec \in 1..Len(recs)
<1>1. Len(recs) \in Nat /\ worker[w] \in WorkerThreads(Len(recs))
  BY RecsLen DEF TypeOK, ThreadsOK
<1> QED
  BY <1>1 DEF WorkerThreads

(* A fresh record leaves the others as they are. *)
LEMMA EnqueueRecs ==
    ASSUME TypeOK, NEW t \in Tasks, Enqueue(t)
    PROVE  /\ recs' \in Seq(Records) /\ Len(recs') = Len(recs) + 1
           /\ \A i \in 1..Len(recs) : recs'[i] = recs[i]
           /\ recs'[Len(recs) + 1].task = t
           /\ SameTasks
           /\ registry' \in [Tasks -> 0..Len(recs')]
           /\ heap' \subseteq 1..Len(recs')
<1> DEFINE new == [task |-> t, state |-> "QUEUED", attempts |-> 0]
<1>1. new \in Records
  BY DEF Records, TaskState
<1>2. recs \in Seq(Records) /\ Len(recs) \in Nat
  BY LenProperties DEF TypeOK, QueueOK, QueueFree
<1>3. recs' = Append(recs, new)
  BY DEF Enqueue
<1> HIDE DEF new
<1>4. /\ recs' \in Seq(Records) /\ Len(recs') = Len(recs) + 1
      /\ \A i \in 1..Len(recs) : recs'[i] = recs[i]
      /\ recs'[Len(recs) + 1] = new
  BY <1>1, <1>2, <1>3
<1>5. new.task = t
  BY DEF new
<1>6. registry \in [Tasks -> 0..Len(recs)] /\ heap \subseteq 1..Len(recs)
  BY DEF TypeOK, QueueOK, QueueFree
<1>7. registry' = [registry EXCEPT ![t] = Len(recs) + 1] /\ heap' = heap \cup {Len(recs) + 1}
  BY DEF Enqueue
<1>8. SameTasks /\ recs'[Len(recs) + 1].task = t
  BY <1>4, <1>5 DEF SameTasks
<1>9. /\ 0..Len(recs) \subseteq 0..Len(recs') /\ Len(recs) + 1 \in 1..Len(recs')
      /\ 1..Len(recs) \subseteq 1..Len(recs')
  BY <1>2, <1>4
<1>10. registry' \in [Tasks -> 0..Len(recs')]
  <2>1. Len(recs) + 1 \in 0..Len(recs')
    BY <1>2, <1>4
  <2> QED
    BY <2>1, <1>6, <1>7, <1>9
<1>11. heap' \subseteq 1..Len(recs')
  BY <1>6, <1>7, <1>9
<1> QED
  BY <1>4, <1>8, <1>10, <1>11

(* Any rewriting of one record that keeps its task. *)
LEMMA ReplaceRec ==
    ASSUME TypeOK, NEW r \in 1..Len(recs), NEW x \in Records, x.task = recs[r].task,
           recs' = [recs EXCEPT ![r] = x]
    PROVE  recs' \in Seq(Records) /\ Len(recs') = Len(recs) /\ SameTasks
<1>1. recs \in Seq(Records)
  BY DEF TypeOK, QueueOK, QueueFree
<1> QED
  BY <1>1, ExceptSeq DEF SameTasks

LEMMA SetStateRecs ==
    ASSUME TypeOK, NEW r \in 1..Len(recs), NEW s \in TaskState, SetState(r, s)
    PROVE  recs' \in Seq(Records) /\ Len(recs') = Len(recs) /\ SameTasks
<1> DEFINE x == [recs[r] EXCEPT !.state = s]
<1>1. recs \in Seq(Records) /\ recs[r] \in Records
  BY ElementOfSeq DEF TypeOK, QueueOK, QueueFree
<1>2. x \in Records /\ x.task = recs[r].task
  BY <1>1 DEF Records
<1>3. recs' = [recs EXCEPT ![r] = x]
  BY DEF SetState
<1> QED
  BY <1>2, <1>3, ReplaceRec

LEMMA MarkRunningRecs ==
    ASSUME TypeOK, NEW w \in Workers, NEW pc, worker[w].pc # "idle", MarkRunning(w, pc)
    PROVE  recs' \in Seq(Records) /\ Len(recs') = Len(recs) /\ SameTasks
<1> DEFINE r == worker[w].rec
           x == [task |-> recs[r].task, state |-> "RUNNING",
                 attempts |-> recs[r].attempts + 1]
<1>1. r \in 1..Len(recs)
  BY HeldRec
<1>2. recs \in Seq(Records) /\ recs[r] \in Records
  BY <1>1, ElementOfSeq DEF TypeOK, QueueOK, QueueFree
<1>3. x \in Records /\ x.task = recs[r].task
  BY <1>2 DEF Records, TaskState
<1>4. recs' = [recs EXCEPT ![r] = x]
  BY DEF MarkRunning
<1> QED
  BY <1>1, <1>3, <1>4, ReplaceRec

-----------------------------------------------------------------------------
(* Type correctness. *)

(* What a thread may hold stays allowed while recs grows. *)
LEMMA ThreadsGrow ==
    ASSUME NEW m \in Nat, NEW n \in Nat, m <= n
    PROVE  /\ WorkerThreads(m) \subseteq WorkerThreads(n)
           /\ ClientThreads(m) \subseteq ClientThreads(n)
           /\ ApproverThreads(m) \subseteq ApproverThreads(n)
<1>1. 0..m \subseteq 0..n
  OBVIOUS
<1> QED
  BY <1>1 DEF WorkerThreads, ClientThreads, ApproverThreads

LEMMA ThreadsKeep ==
    ASSUME TypeOK, QueueOK', Len(recs) <= Len(recs')
    PROVE  /\ worker \in [Workers -> WorkerThreads(Len(recs'))]
           /\ client \in [Tasks -> ClientThreads(Len(recs'))]
           /\ approver \in [Approvers -> ApproverThreads(Len(recs'))]
<1>1. Len(recs) \in Nat /\ Len(recs') \in Nat
  BY RecsLen, LenProperties DEF QueueOK, QueueFree
<1> QED
  BY <1>1, ThreadsGrow DEF TypeOK, ThreadsOK

(* A step in which at most one thread moves, to an allowed value. *)
LEMMA NobodyMoves ==
    ASSUME TypeOK, QueueOK', RestOK', Len(recs) <= Len(recs'),
           UNCHANGED <<worker, client, approver>>
    PROVE  TypeOK'
BY ThreadsKeep DEF TypeOK, ThreadsOK

LEMMA WorkerMoves ==
    ASSUME TypeOK, QueueOK', RestOK', Len(recs) <= Len(recs'),
           NEW w \in Workers, NEW x \in WorkerThreads(Len(recs')),
           worker' = [worker EXCEPT ![w] = x], UNCHANGED <<client, approver>>
    PROVE  TypeOK'
<1>1. worker' \in [Workers -> WorkerThreads(Len(recs'))]
  BY ThreadsKeep
<1> QED
  BY <1>1, ThreadsKeep DEF TypeOK, ThreadsOK

LEMMA ClientMoves ==
    ASSUME TypeOK, QueueOK', RestOK', Len(recs) <= Len(recs'),
           NEW t \in Tasks, NEW x \in ClientThreads(Len(recs')),
           client' = [client EXCEPT ![t] = x], UNCHANGED <<worker, approver>>
    PROVE  TypeOK'
<1>1. client' \in [Tasks -> ClientThreads(Len(recs'))]
  BY ThreadsKeep
<1> QED
  BY <1>1, ThreadsKeep DEF TypeOK, ThreadsOK

LEMMA ApproverMoves ==
    ASSUME TypeOK, QueueOK', RestOK', Len(recs) <= Len(recs'),
           NEW a \in Approvers, NEW x \in ApproverThreads(Len(recs')),
           approver' = [approver EXCEPT ![a] = x], UNCHANGED <<worker, client>>
    PROVE  TypeOK'
<1>1. approver' \in [Approvers -> ApproverThreads(Len(recs'))]
  BY ThreadsKeep
<1> QED
  BY <1>1, ThreadsKeep DEF TypeOK, ThreadsOK

LEMMA TypeInit == Init => TypeOK
<1> SUFFICES ASSUME Init PROVE TypeOK
  OBVIOUS
<1>1. recs = <<>> /\ recs \in Seq(Records) /\ Len(recs) = 0
  BY EmptySeq DEF Init
<1>2. QueueOK
  BY <1>1 DEF Init, QueueOK, QueueFree
<1>3. ThreadsOK
  BY <1>1 DEF Init, ThreadsOK, WorkerThreads, ClientThreads, ApproverThreads,
              IdleThread, Thread, Pcs, Lines, NoLine
<1>4. RestOK
  <2>1. <<>> \in Seq(DecisionLines) /\ <<>> \in Seq(Tasks)
    BY EmptySeq
  <2> QED
    BY <2>1 DEF Init, RestOK, IdlePoller
<1> QED
  BY <1>2, <1>3, <1>4 DEF TypeOK

LEMMA TypeSubmitEnqueue ==
    ASSUME TypeOK, NEW t \in Tasks, SubmitEnqueue(t) PROVE TypeOK'
<1>1. Len(recs) \in Nat
  BY RecsLen
<1>2. RestOK' /\ UNCHANGED <<worker, approver>>
  BY DEF SubmitEnqueue, TypeOK, RestOK
<1>3. CASE Enqueue(t) /\ client' = [client EXCEPT ![t] = Thread("enqueued", Len(recs) + 1, NoLine)]
  <2>1. Len(recs') = Len(recs) + 1 /\ QueueOK' /\ Len(recs) <= Len(recs')
    BY <1>1, <1>3, EnqueueRecs DEF SubmitEnqueue, TypeOK, QueueOK, QueueFree
  <2>2. Thread("enqueued", Len(recs) + 1, NoLine) \in ClientThreads(Len(recs'))
    BY <1>1, <2>1 DEF ClientThreads, Thread, Lines
  <2> QED
    BY <1>1, <1>2, <1>3, <2>1, <2>2, ClientMoves
<1>4. CASE UNCHANGED <<recs, registry, heap>>
           /\ client' = [client EXCEPT ![t] = Thread("commit", 0, "FAILED")]
  <2>1. QueueOK' /\ Len(recs) <= Len(recs')
    BY <1>1, <1>4 DEF SubmitEnqueue, TypeOK, QueueOK, QueueFree
  <2>2. Thread("commit", 0, "FAILED") \in ClientThreads(Len(recs'))
    BY <1>1, <1>4 DEF ClientThreads, Thread, Lines, TaskState
  <2> QED
    BY <1>2, <1>4, <2>1, <2>2, ClientMoves
<1> QED
  BY <1>3, <1>4 DEF SubmitEnqueue

LEMMA TypeSubmitLine ==
    ASSUME TypeOK, NEW t \in Tasks, SubmitLine(t) PROVE TypeOK'
<1>1. Len(recs) \in Nat /\ Len(recs) <= Len(recs') /\ QueueOK' /\ RestOK'
  <2>1. UNCHANGED <<phase, toResume, recs, registry, heap, canceller, poll, approvals, dlq, checkpoint,
                    decisions, faults>>
    BY DEF SubmitLine
  <2>2. QueueOK' /\ Len(recs) \in Nat /\ Len(recs) <= Len(recs')
    BY <2>1, RecsLen DEF TypeOK, QueueOK, QueueFree
  <2>3. RestOK'
    BY <2>1 DEF TypeOK, RestOK
  <2> QED
    BY <2>2, <2>3
<1>2. client[t].rec \in 1..Len(recs)
  <2>1. client[t] \in ClientThreads(Len(recs)) /\ client[t].pc = "enqueued"
    BY DEF SubmitLine, TypeOK, ThreadsOK
  <2> QED
    BY <1>1, <2>1 DEF ClientThreads
<1>3. recs[client[t].rec].state \in TaskState
  BY <1>2, RecAt
<1> DEFINE x == Thread("commit", client[t].rec, recs[client[t].rec].state)
<1>4. client' = [client EXCEPT ![t] = x] /\ UNCHANGED <<worker, approver, recs>>
  BY DEF SubmitLine
<1>5. x \in ClientThreads(Len(recs'))
  BY <1>1, <1>2, <1>3, <1>4 DEF ClientThreads, Thread, Lines
<1> HIDE DEF x
<1> QED
  BY <1>1, <1>4, <1>5, ClientMoves

LEMMA TypeSubmitWrite ==
    ASSUME TypeOK, NEW t \in Tasks, SubmitWrite(t) PROVE TypeOK'
<1>1. Len(recs) \in Nat /\ Len(recs) <= Len(recs') /\ QueueOK'
  BY RecsLen DEF SubmitWrite, TypeOK, QueueOK, QueueFree
<1>2. client[t].line \in TaskState
  <2>1. client[t] \in ClientThreads(Len(recs)) /\ client[t].pc = "commit"
    BY DEF SubmitWrite, TypeOK, ThreadsOK
  <2> QED
    BY <2>1 DEF ClientThreads
<1>3. RestOK'
  BY <1>2 DEF SubmitWrite, TypeOK, RestOK
<1>4. Thread("done", 0, NoLine) \in ClientThreads(Len(recs'))
  BY <1>1 DEF ClientThreads, Thread, Lines, SubmitWrite
<1> QED
  BY <1>1, <1>3, <1>4, ClientMoves DEF SubmitWrite

LEMMA TypePop ==
    ASSUME TypeOK, NEW w \in Workers, Pop(w) PROVE TypeOK'
<1>1. Len(recs) \in Nat /\ Len(recs) <= Len(recs') /\ RestOK'
  BY RecsLen DEF Pop, TypeOK, RestOK
<1>2. PICK i \in heap :
        /\ Runnable(i)
        /\ heap' \subseteq heap
        /\ worker' = [worker EXCEPT ![w] =
                        Thread("popped", registry[recs[i].task], NoLine)]
  BY DEF Pop
<1>3. recs[i].task \in Tasks
  BY RecAt DEF TypeOK, QueueOK, QueueFree
<1>4. registry[recs[i].task] \in 1..Len(recs)
  BY <1>1, <1>2, <1>3 DEF Runnable, Live, StateOf, Absent, TypeOK, QueueOK, QueueFree
<1>5. QueueOK'
  BY <1>2 DEF Pop, TypeOK, QueueOK, QueueFree
<1>6. Thread("popped", registry[recs[i].task], NoLine) \in WorkerThreads(Len(recs'))
  BY <1>1, <1>4 DEF WorkerThreads, Thread, Lines, Pcs, Pop
<1> QED
  BY <1>1, <1>2, <1>5, <1>6, WorkerMoves DEF Pop

LEMMA TypePopNothing ==
    ASSUME TypeOK, NEW w \in Workers, PopNothing(w) PROVE TypeOK'
BY DEF PopNothing, TypeOK, QueueOK, QueueFree, ThreadsOK, RestOK

(* A worker goes on with the record it holds. *)
LEMMA WorkerGoesOn ==
    ASSUME TypeOK, NEW w \in Workers, worker[w].pc # "idle",
           NEW pc \in Pcs, NEW l \in Lines,
           pc \in {"commit", "startPlan", "startHandler"} => l \in TaskState,
           worker' = [worker EXCEPT ![w] = Thread(pc, worker[w].rec, l)],
           recs' \in Seq(Records), Len(recs') = Len(recs), RestOK',
           UNCHANGED <<registry, heap, canceller, client, approver>>
    PROVE  TypeOK'
<1>1. Len(recs) \in Nat /\ worker[w].rec \in 1..Len(recs)
  BY RecsLen, HeldRec
<1>2. QueueOK' /\ Len(recs) <= Len(recs')
  BY <1>1 DEF TypeOK, QueueOK, QueueFree
<1>3. Thread(pc, worker[w].rec, l) \in WorkerThreads(Len(recs'))
  BY <1>1 DEF WorkerThreads, Thread
<1> QED
  BY <1>2, <1>3, WorkerMoves

LEMMA TypeMark ==
    ASSUME TypeOK, NEW w \in Workers, NEW s \in TaskState, worker[w].pc # "idle",
           Mark(w, s), RestOK', UNCHANGED <<registry, heap, canceller, client, approver>>
    PROVE  TypeOK'
<1>1. worker[w].rec \in 1..Len(recs)
  BY HeldRec
<1>2. recs' \in Seq(Records) /\ Len(recs') = Len(recs)
  BY <1>1, SetStateRecs DEF Mark
<1>3. worker' = [worker EXCEPT ![w] = Thread("commit", worker[w].rec, s)]
  BY DEF Mark
<1>4. s \in Lines /\ "commit" \in Pcs
  BY DEF Lines, Pcs
<1> QED
  BY <1>2, <1>3, <1>4, WorkerGoesOn

LEMMA TypeMarkRunning ==
    ASSUME TypeOK, NEW w \in Workers, NEW pc \in {"startPlan", "startHandler"},
           worker[w].pc # "idle", MarkRunning(w, pc), OnlyThisWorker
    PROVE  TypeOK'
<1>1. recs' \in Seq(Records) /\ Len(recs') = Len(recs)
  BY MarkRunningRecs
<1>2. RestOK' /\ UNCHANGED <<registry, heap, canceller, client, approver>>
  BY DEF TypeOK, RestOK, OnlyThisWorker
<1>3. worker' = [worker EXCEPT ![w] = Thread(pc, worker[w].rec, "RUNNING")]
  BY DEF MarkRunning
<1>4. pc \in Pcs /\ "RUNNING" \in TaskState /\ "RUNNING" \in Lines
  BY DEF Pcs, Lines, TaskState
<1> QED
  BY <1>1, <1>2, <1>3, <1>4, WorkerGoesOn

(* The steps of a worker that marks its record and touches nothing else. *)
LEMMA TypeMarkingSteps ==
    ASSUME TypeOK, NEW w \in Workers,
           GateEscalate(w) \/ OracleEscalate(w) \/ Succeed(w) \/ HandlerEscalate(w) \/ Retry(w)
           \/ DeadLetter(w)
    PROVE  TypeOK'
<1>1. worker[w].pc # "idle" /\ OnlyThisWorker
  BY DEF GateEscalate, OracleEscalate, Succeed, HandlerEscalate, Retry, DeadLetter
<1>2. PICK s \in TaskState : Mark(w, s)
  BY DEF GateEscalate, OracleEscalate, Succeed, HandlerEscalate, Retry, DeadLetter, TaskState
<1>3. RestOK' /\ UNCHANGED <<registry, heap, canceller, client, approver>>
  BY <1>1 DEF TypeOK, RestOK, OnlyThisWorker
<1> QED
  BY <1>1, <1>2, <1>3, TypeMark

LEMMA TypeStart ==
    ASSUME TypeOK, NEW w \in Workers, StartPlan(w) \/ StartHandler(w)
    PROVE  TypeOK'
<1>1. CASE StartPlan(w)
  BY <1>1, TypeMarkRunning DEF StartPlan
<1>2. CASE StartHandler(w)
  BY <1>2, TypeMarkRunning DEF StartHandler
<1> QED
  BY <1>1, <1>2

LEMMA TypePolicyDeny ==
    ASSUME TypeOK, NEW w \in Workers, PolicyDeny(w) PROVE TypeOK'
<1>1. worker[w].pc # "idle" /\ worker' = [worker EXCEPT ![w] = Thread("dead", worker[w].rec, NoLine)]
      /\ UNCHANGED recs /\ OnlyThisWorker
  BY DEF PolicyDeny
<1>2. RestOK' /\ recs' \in Seq(Records) /\ UNCHANGED <<registry, heap, canceller, client, approver>>
  BY <1>1, RecsLen DEF TypeOK, RestOK, OnlyThisWorker
<1>3. "dead" \in Pcs /\ NoLine \in Lines
  BY DEF Pcs, Lines
<1> QED
  BY <1>1, <1>2, <1>3, WorkerGoesOn

LEMMA TypeFail ==
    ASSUME TypeOK, NEW w \in Workers, Fail(w) PROVE TypeOK'
<1>1. worker[w].pc # "idle" /\ UNCHANGED <<recs, registry, heap, canceller, client, approver>>
  BY DEF Fail
<1>2. RestOK' /\ recs' \in Seq(Records)
  <2>1. faults' = [faults EXCEPT !.failures = @ + 1]
        /\ faults \in [failures : Nat, crashes : Nat, cancels : Nat]
    BY DEF Fail, TypeOK, RestOK
  <2>2. faults' \in [failures : Nat, crashes : Nat, cancels : Nat]
    BY <2>1
  <2>3. UNCHANGED <<phase, toResume, recs, poll, approvals, dlq, checkpoint, decisions>>
    BY DEF Fail
  <2> QED
    BY <2>2, <2>3, RecsLen DEF TypeOK, RestOK
<1>3. PICK pc \in {"backoff", "giveUp"} :
        worker' = [worker EXCEPT ![w] = Thread(pc, worker[w].rec, NoLine)]
  BY DEF Fail
<1>4. pc \in Pcs /\ NoLine \in Lines
  BY DEF Pcs, Lines
<1> QED
  BY <1>1, <1>2, <1>3, <1>4, WorkerGoesOn

LEMMA TypeCommit ==
    ASSUME TypeOK, NEW w \in Workers, Commit(w) PROVE TypeOK'
<1>1. Len(recs) \in Nat /\ Len(recs) <= Len(recs') /\ QueueOK' /\ worker[w].pc # "idle"
  BY RecsLen DEF Commit, TypeOK, QueueOK, QueueFree
<1>2. worker[w].rec \in 1..Len(recs) /\ TaskAt(w) \in Tasks
  BY <1>1, HeldRec, RecAt DEF TaskAt
<1>3. worker[w].line \in TaskState
  BY DEF TypeOK, ThreadsOK, WorkerThreads, Commit
<1>4. RestOK'
  BY <1>2, <1>3 DEF Commit, TypeOK, RestOK
<1> DEFINE x == CASE worker[w].pc = "startPlan"    -> Thread("plan", worker[w].rec, NoLine)
                  [] worker[w].pc = "startHandler" -> Thread("handler", worker[w].rec, NoLine)
                  [] worker[w].pc = "commit" /\ worker[w].line = "QUEUED"
                       -> Thread("requeue", worker[w].rec, NoLine)
                  [] OTHER -> IdleThread
<1>5. worker' = [worker EXCEPT ![w] = x] /\ UNCHANGED <<client, approver, recs>>
  BY DEF Commit
<1>6. x \in WorkerThreads(Len(recs'))
  <2>1. \A pc \in {"plan", "handler", "requeue"} :
           Thread(pc, worker[w].rec, NoLine) \in WorkerThreads(Len(recs))
    BY <1>1, <1>2 DEF WorkerThreads, Thread, Lines, Pcs
  <2>2. IdleThread \in WorkerThreads(Len(recs))
    BY <1>1 DEF WorkerThreads, IdleThread, Thread, Lines, Pcs
  <2>3. x \in {Thread(pc, worker[w].rec, NoLine) : pc \in {"plan", "handler", "requeue"}}
               \cup {IdleThread}
    OBVIOUS
  <2> HIDE DEF x
  <2> QED
    BY <1>5, <2>1, <2>2, <2>3
<1> HIDE DEF x
<1> QED
  BY <1>1, <1>4, <1>5, <1>6, WorkerMoves

LEMMA TypeRequeue ==
    ASSUME TypeOK, NEW w \in Workers, Requeue(w) PROVE TypeOK'
<1>1. Len(recs) \in Nat /\ worker[w].rec \in 1..Len(recs)
  BY RecsLen, HeldRec DEF Requeue
<1>2. TaskAt(w) \in Tasks
  BY <1>1, RecAt DEF TaskAt
<1>3. QueueOK' /\ Len(recs) <= Len(recs')
  BY <1>1, <1>2, EnqueueRecs DEF Requeue, TypeOK, QueueOK, QueueFree
<1>4. RestOK'
  BY DEF Requeue, TypeOK, RestOK
<1>5. IdleThread \in WorkerThreads(Len(recs'))
  BY <1>1, <1>3, LenProperties DEF WorkerThreads, IdleThread, Thread, Lines, Pcs, QueueOK, QueueFree
<1> QED
  BY <1>3, <1>4, <1>5, WorkerMoves DEF Requeue

LEMMA TypeFileLetter ==
    ASSUME TypeOK, NEW w \in Workers, FileLetter(w) PROVE TypeOK'
<1>1. worker[w].pc # "idle" /\ UNCHANGED <<recs, registry, heap, canceller, client, approver>>
      /\ worker' = [worker EXCEPT ![w] = Thread("lettered", worker[w].rec, NoLine)]
  BY DEF FileLetter
<1>2. TaskAt(w) \in Tasks
  BY <1>1, HeldRec, RecAt DEF TaskAt
<1>3. dlq' \in Seq(Tasks)
  BY <1>2 DEF FileLetter, TypeOK, RestOK
<1>4. RestOK' /\ recs' \in Seq(Records)
  BY <1>1, <1>3, RecsLen DEF FileLetter, TypeOK, RestOK
<1>5. "lettered" \in Pcs /\ NoLine \in Lines
  BY DEF Pcs, Lines
<1> QED
  BY <1>1, <1>4, <1>5, WorkerGoesOn

LEMMA TypeWriteDecision ==
    ASSUME TypeOK, NEW t \in Tasks, NEW act \in Action, WriteDecision(t, act)
    PROVE  TypeOK'
<1>1. decisions' \in Seq(DecisionLines)
  BY DEF DecisionLines, WriteDecision, TypeOK, RestOK
<1>2. RestOK' /\ QueueOK' /\ ThreadsOK'
  BY <1>1 DEF WriteDecision, volatile, TypeOK, RestOK, QueueOK, QueueFree, ThreadsOK
<1> QED
  BY <1>2 DEF TypeOK

(* The poller's own steps write its locals only. *)
LEMMA TypePollOnly ==
    ASSUME TypeOK, PollStat \/ PollRead \/ PollDrop \/ PollDone PROVE TypeOK'
<1>1. UNCHANGED approver /\ OnlyPoller
  BY DEF PollStat, PollRead, PollDrop, PollDone
<1> DEFINE Batches == Seq(DecisionLines)
<1>2. /\ poll \in [pc : {"idle", "stat", "apply"}, size : Nat, seen : Nat, batch : Batches]
      /\ decisions \in Batches /\ Len(decisions) \in Nat
  BY LenProperties DEF TypeOK, RestOK
<1>3. SubSeq(decisions, poll.seen + 1, Len(decisions)) \in Batches
  <2>1. \A i \in (poll.seen + 1)..Len(decisions) : decisions[i] \in DecisionLines
    <3> TAKE i \in (poll.seen + 1)..Len(decisions)
    <3>1. poll.seen \in Nat
      BY <1>2
    <3>2. i \in 1..Len(decisions)
      BY <1>2, <3>1
    <3> QED
      BY <1>2, <3>2, ElementOfSeq
  <2>2. poll.seen + 1 \in Int /\ Len(decisions) \in Int
    BY <1>2
  <2> QED
    BY <2>1, <2>2, SubSeqProperties
<1>4. poll.batch # <<>> => Tail(poll.batch) \in Batches
  BY <1>2, HeadTailProperties
<1>5. /\ poll' \in [pc : {"idle", "stat", "apply"}, size : Nat, seen : Nat, batch : Batches]
      /\ poll'.pc # "idle" => poll.pc # "idle" \/ "poller" \in Approvers
  <2>1. CASE PollStat
    BY <1>2, <2>1 DEF PollStat
  <2>2. CASE PollRead
    BY <1>2, <1>3, <2>2 DEF PollRead
  <2>3. CASE PollDrop
    BY <1>2, <1>4, <2>3 DEF PollDrop
  <2>4. CASE PollDone
    BY <1>2, <2>4 DEF PollDone
  <2> QED
    BY <2>1, <2>2, <2>3, <2>4
<1>6. RestOK' /\ QueueOK' /\ ThreadsOK'
  BY <1>1, <1>5 DEF OnlyPoller, TypeOK, RestOK, QueueOK, QueueFree, ThreadsOK
<1> QED
  BY <1>6 DEF TypeOK

(* An approver takes hold of a record that exists. *)
LEMMA TypeDecide ==
    ASSUME TypeOK, NEW a \in Approvers, NEW t \in Tasks, NEW act \in {"approve", "reject"},
           Decide(a, t, act), OnlyPoller, RestOK'
    PROVE  TypeOK'
<1>1. Len(recs) \in Nat /\ registry[t] \in 1..Len(recs)
  BY RecsLen DEF Decide, StateOf, Absent, TypeOK, QueueOK, QueueFree
<1>2. QueueOK' /\ Len(recs) <= Len(recs') /\ UNCHANGED <<worker, client, recs>>
  BY <1>1 DEF OnlyPoller, TypeOK, QueueOK, QueueFree
<1>3. Thread(act, registry[t], NoLine) \in ApproverThreads(Len(recs'))
  BY <1>1, <1>2 DEF ApproverThreads, Thread, Lines
<1>4. approver' = [approver EXCEPT ![a] = Thread(act, registry[t], NoLine)]
  BY DEF Decide
<1> QED
  BY <1>2, <1>3, <1>4, ApproverMoves

LEMMA TypePollDecide ==
    ASSUME TypeOK, PollDecide PROVE TypeOK'
<1> DEFINE d == Head(poll.batch)
<1>1. /\ poll.batch \in Seq(DecisionLines) /\ poll.batch # <<>>
      /\ poll' = [poll EXCEPT !.batch = Tail(@)]
  BY DEF PollDecide, TypeOK, RestOK
<1>2. d \in DecisionLines /\ Tail(poll.batch) \in Seq(DecisionLines)
  BY <1>1, HeadTailProperties
<1>3. d.task \in Tasks /\ d.action \in {"approve", "reject"} /\ Decide("poller", d.task, d.action)
      /\ OnlyPoller
  BY <1>2 DEF PollDecide, DecisionLines
<1>4. RestOK'
  BY <1>1, <1>2, <1>3 DEF OnlyPoller, TypeOK, RestOK
<1>5. "poller" \in Approvers
  BY DEF PollDecide, TypeOK, RestOK
<1> QED
  BY <1>3, <1>4, <1>5, TypeDecide

LEMMA TypeThroneDecide ==
    ASSUME TypeOK, NEW t \in Tasks, NEW act \in {"approve", "reject"}, ThroneDecide(t, act)
    PROVE  TypeOK'
<1>1. RestOK'
  BY DEF ThroneDecide, OnlyPoller, TypeOK, RestOK
<1> QED
  BY <1>1, TypeDecide DEF ThroneDecide

LEMMA TypeApplyDecision ==
    ASSUME TypeOK, NEW a \in Approvers, ApplyDecision(a) PROVE TypeOK'
<1> DEFINE r == approver[a].rec
           s == IF approver[a].pc = "approve" THEN "QUEUED" ELSE "CANCELLED"
<1>1. Len(recs) \in Nat /\ approver[a] \in ApproverThreads(Len(recs)) /\ approver[a].pc # "idle"
  BY RecsLen DEF ApplyDecision, TypeOK, ThreadsOK
<1>2. r \in 1..Len(recs)
  BY <1>1 DEF ApproverThreads
<1>3. s \in TaskState
  BY DEF TaskState
<1>4. SetState(r, s) /\ approvals' = approvals \cup {recs[r].task}
      /\ approver' = [approver EXCEPT ![a] = Thread("commit", r, s)]
  BY DEF ApplyDecision
<1> HIDE DEF r, s
<1>5. recs' \in Seq(Records) /\ Len(recs') = Len(recs)
  BY <1>2, <1>3, <1>4, SetStateRecs
<1>6. QueueOK' /\ Len(recs) <= Len(recs')
  BY <1>1, <1>5 DEF ApplyDecision, TypeOK, QueueOK, QueueFree
<1>7. recs[r].task \in Tasks
  BY <1>2, RecAt
<1>8. RestOK'
  BY <1>4, <1>7 DEF ApplyDecision, TypeOK, RestOK
<1>9. Thread("commit", r, s) \in ApproverThreads(Len(recs'))
  BY <1>1, <1>2, <1>3, <1>5 DEF ApproverThreads, Thread, Lines
<1> QED
  BY <1>4, <1>6, <1>8, <1>9, ApproverMoves DEF ApplyDecision

LEMMA TypeCommitDecision ==
    ASSUME TypeOK, NEW a \in Approvers, CommitDecision(a) PROVE TypeOK'
<1>1. Len(recs) \in Nat /\ approver[a] \in ApproverThreads(Len(recs)) /\ approver[a].pc = "commit"
  BY RecsLen DEF CommitDecision, TypeOK, ThreadsOK
<1>2. approver[a].rec \in 1..Len(recs) /\ approver[a].line \in TaskState
  BY <1>1 DEF ApproverThreads
<1>3. recs[approver[a].rec].task \in Tasks
  BY <1>2, RecAt
<1>4. RestOK'
  BY <1>2, <1>3 DEF CommitDecision, TypeOK, RestOK
<1>5. QueueOK' /\ Len(recs) <= Len(recs')
  BY <1>1 DEF CommitDecision, TypeOK, QueueOK, QueueFree
<1>6. IdleThread \in ApproverThreads(Len(recs'))
  BY <1>1 DEF CommitDecision, ApproverThreads, IdleThread, Thread, Lines
<1> QED
  BY <1>4, <1>5, <1>6, ApproverMoves DEF CommitDecision

(* A cancel has in hand a record that is registered and not final, ...       *)
LEMMA TypeCancelTest ==
    ASSUME TypeOK, NEW t \in Tasks, CancelTest(t) PROVE TypeOK'
<1>1. Len(recs) \in Nat /\ registry[t] \in 1..Len(recs)
  BY RecsLen DEF CancelTest, StateOf, Absent, TaskState, TypeOK, QueueOK
<1>2. faults' = [faults EXCEPT !.cancels = @ + 1]
      /\ faults \in [failures : Nat, crashes : Nat, cancels : Nat]
      /\ faults.cancels < MaxCancels
  BY DEF CancelTest, TypeOK, RestOK
<1>3. faults' \in [failures : Nat, crashes : Nat, cancels : Nat] /\ MaxCancels # 0
  BY <1>2, BoundAssumption
<1>4. RestOK'
  BY <1>3 DEF CancelTest, TypeOK, RestOK
<1>5. QueueOK' /\ Len(recs) <= Len(recs')
  BY <1>1, <1>3 DEF CancelTest, TypeOK, QueueOK
<1> QED
  BY <1>4, <1>5, NobodyMoves DEF CancelTest

(* ... and writes to it without a second look.                               *)
LEMMA Cancelling ==
    ASSUME TypeOK, CancelWrite
    PROVE  /\ canceller \in 1..Len(recs) /\ SetState(canceller, "CANCELLED")
           /\ recs' \in Seq(Records) /\ Len(recs') = Len(recs) /\ SameTasks
<1>1. Len(recs) \in Nat /\ canceller \in 0..Len(recs) /\ canceller # 0
  BY RecsLen DEF CancelWrite, TypeOK, QueueOK, QueueFree
<1>2. SetState(canceller, "CANCELLED") /\ "CANCELLED" \in TaskState
  BY DEF CancelWrite, TaskState
<1>3. canceller \in 1..Len(recs)
  BY <1>1
<1> QED
  BY <1>2, <1>3, SetStateRecs

LEMMA TypeCancelWrite == TypeOK /\ CancelWrite => TypeOK'
<1> SUFFICES ASSUME TypeOK, CancelWrite PROVE TypeOK'
  OBVIOUS
<1>1. recs' \in Seq(Records) /\ Len(recs') = Len(recs) /\ Len(recs) \in Nat
  BY Cancelling, RecsLen
<1>2. RestOK'
  BY DEF CancelWrite, TypeOK, RestOK
<1>3. QueueOK' /\ Len(recs) <= Len(recs')
  BY <1>1 DEF CancelWrite, TypeOK, QueueOK, QueueFree
<1> QED
  BY <1>2, <1>3, NobodyMoves DEF CancelWrite

LEMMA TypeStartUp == TypeOK /\ Start => TypeOK'
<1> SUFFICES ASSUME TypeOK, Start PROVE TypeOK'
  OBVIOUS
<1>1. RestOK' /\ QueueOK' /\ ThreadsOK'
  BY DEF Start, TypeOK, RestOK, QueueOK, QueueFree, ThreadsOK
<1> QED
  BY <1>1 DEF TypeOK

LEMMA TypeResume ==
    ASSUME TypeOK, NEW t \in Tasks, Resume(t) PROVE TypeOK'
<1>1. Len(recs) \in Nat
  BY RecsLen
<1>2. QueueOK' /\ Len(recs) <= Len(recs')
  BY <1>1, EnqueueRecs DEF Resume, TypeOK, QueueOK, QueueFree
<1>3. RestOK'
  BY DEF Resume, TypeOK, RestOK
<1> QED
  BY <1>2, <1>3, NobodyMoves DEF Resume

LEMMA TypeCrash == TypeOK /\ Crash => TypeOK'
<1> SUFFICES ASSUME TypeOK, Crash PROVE TypeOK'
  OBVIOUS
<1>1. recs' = <<>> /\ recs' \in Seq(Records) /\ Len(recs') = 0
  BY EmptySeq DEF Crash
<1>2. QueueOK'
  BY <1>1 DEF Crash, QueueOK, QueueFree
<1>3. IdleThread \in WorkerThreads(0) /\ IdleThread \in ApproverThreads(0)
  BY DEF WorkerThreads, ApproverThreads, IdleThread, Thread, Lines, Pcs
<1>4. ASSUME NEW t \in Tasks PROVE client'[t] \in ClientThreads(0)
  <2>1. Thread("lost", 0, NoLine) \in ClientThreads(0)
    BY DEF ClientThreads, Thread, Lines
  <2>2. client[t] \in ClientThreads(Len(recs))
    BY DEF TypeOK, ThreadsOK
  <2>3. CASE client[t].pc \in {"enqueued", "commit"}
    BY <2>1, <2>3 DEF Crash
  <2>4. CASE client[t].pc \notin {"enqueued", "commit"}
    <3>1. client'[t] = client[t]
      BY <2>4 DEF Crash
    <3>2. client[t] \in ClientThreads(0)
      BY <2>2, <2>4 DEF ClientThreads
    <3> QED
      BY <3>1, <3>2
  <2> QED
    BY <2>3, <2>4
<1>5. client' \in [Tasks -> ClientThreads(0)]
  <2>1. client' = [t \in Tasks |-> client'[t]]
    BY DEF Crash
  <2> QED
    BY <1>4, <2>1
<1>6. ThreadsOK'
  BY <1>1, <1>3, <1>5 DEF Crash, ThreadsOK
<1>7. <<>> \in Seq(DecisionLines) /\ <<>> \in Seq(Tasks)
  BY EmptySeq
<1>8. faults' \in [failures : Nat, crashes : Nat, cancels : Nat]
  <2>1. faults' = [faults EXCEPT !.crashes = @ + 1]
        /\ faults \in [failures : Nat, crashes : Nat, cancels : Nat]
    BY DEF Crash, TypeOK, RestOK
  <2> QED
    BY <2>1
<1>9. RestOK'
  BY <1>7, <1>8 DEF Crash, TypeOK, RestOK, IdlePoller
<1> QED
  BY <1>2, <1>6, <1>9 DEF TypeOK

(* Every step preserves the types: one case per disjunct of Next. *)
LEMMA TypeNext == TypeOK /\ [Next]_vars => TypeOK'
<1> SUFFICES ASSUME TypeOK, [Next]_vars PROVE TypeOK'
  OBVIOUS
<1>1. ASSUME NEW w \in Workers, WorkerStep(w) PROVE TypeOK'
  BY <1>1, TypePop, TypePopNothing, TypePolicyDeny, TypeMarkingSteps, TypeStart,
     TypeCommit, TypeFail, TypeRequeue, TypeFileLetter DEF WorkerStep
<1>2. ASSUME NEW t \in Tasks, ClientStep(t) \/ CancelTest(t) \/ Resume(t) PROVE TypeOK'
  BY <1>2, TypeSubmitEnqueue, TypeSubmitLine, TypeSubmitWrite, TypeCancelTest, TypeResume
  DEF ClientStep
<1>3. ASSUME NEW t \in Tasks, NEW act \in Action, WriteDecision(t, act) PROVE TypeOK'
  BY <1>3, TypeWriteDecision
<1>4. ASSUME NEW t \in Tasks, NEW act \in {"approve", "reject"}, ThroneDecide(t, act)
      PROVE  TypeOK'
  BY <1>4, TypeThroneDecide
<1>5. ASSUME NEW a \in Approvers, ApplyDecision(a) \/ CommitDecision(a) PROVE TypeOK'
  BY <1>5, TypeApplyDecision, TypeCommitDecision
<1>6. CASE PollerStep
  BY <1>6, TypePollOnly, TypePollDecide DEF PollerStep
<1>7. CASE CancelWrite \/ Start \/ Crash
  BY <1>7, TypeCancelWrite, TypeStartUp, TypeCrash
<1>8. CASE UNCHANGED vars
  BY <1>8 DEF vars, TypeOK, QueueOK, QueueFree, ThreadsOK, RestOK
<1> QED
  BY <1>1, <1>2, <1>3, <1>4, <1>5, <1>6, <1>7, <1>8 DEF Next

(* In every state of the kernel each variable holds a value of its kind,     *)
(* and a worker, a caller of submit or an approver that holds a record       *)
(* holds one that exists: none of them can index past _records.              *)
THEOREM TypeCorrect == Spec => []TypeOK
BY TypeInit, TypeNext, PTL DEF Spec

-----------------------------------------------------------------------------
(***************************************************************************)
(* Most steps hand no task out: the records keep their tasks, no entry       *)
(* joins the heap, no idle worker takes a record, and no line is written     *)
(* about a task nobody has submitted.                                        *)
(***************************************************************************)
HandsNothingOut ==
    /\ Len(recs') = Len(recs) /\ SameTasks
    /\ heap' \subseteq heap
    /\ UNCHANGED <<phase, toResume, registry>>
    /\ \A w \in Workers : worker'[w].pc # "idle" =>
          worker[w].pc # "idle" /\ worker'[w].rec = worker[w].rec
    /\ \A t \in Tasks : client'[t].pc = "new" =>
          client[t].pc = "new" /\ checkpoint'[t] = checkpoint[t]

LEMMA HeldTask ==
    ASSUME TypeOK, NEW w \in Workers, Busy(w)
    PROVE  worker[w].rec \in 1..Len(recs) /\ TaskAt(w) \in Tasks
BY HeldRec, RecAt DEF Busy, TaskAt

LEMMA HeapRec ==
    ASSUME TypeOK, NEW i \in heap
    PROVE  i \in 1..Len(recs) /\ recs[i].task \in Tasks
BY RecAt DEF TypeOK, QueueOK

LEMMA FrameKeeps ==
    ASSUME TypeOK, TypeOK', RunnerInv, HandsNothingOut
    PROVE  RunnerInv'
<1>1. ASSUME NEW w \in Workers, Busy(w)'
      PROVE  Busy(w) /\ TaskAt(w)' = TaskAt(w)
  <2>1. Busy(w) /\ worker'[w].rec = worker[w].rec
    BY <1>1 DEF Busy, HandsNothingOut
  <2>2. worker[w].rec \in 1..Len(recs)
    BY <2>1, HeldTask
  <2> QED
    BY <2>1, <2>2 DEF HandsNothingOut, SameTasks, TaskAt
<1>2. ASSUME NEW i \in heap'
      PROVE  i \in heap /\ recs'[i].task = recs[i].task
  <2>1. i \in heap
    BY <1>2 DEF HandsNothingOut
  <2> QED
    BY <2>1, HeapRec DEF HandsNothingOut, SameTasks
<1>3. SingleRunner'
  BY <1>1 DEF SingleRunner, RunnerInv
<1>4. HeapOne'
  BY <1>2 DEF HeapOne, RunnerInv
<1>5. HeapFree'
  BY <1>1, <1>2 DEF HeapFree, RunnerInv
<1>6. ResumeFree'
  <2> SUFFICES ASSUME NEW t \in toResume'
               PROVE  /\ client'[t].pc # "new"
                      /\ \A i \in heap' : recs'[i].task # t
                      /\ \A w \in Workers : Busy(w)' => TaskAt(w)' # t
    BY DEF ResumeFree
  <2>1. t \in toResume /\ t \in Tasks
    BY DEF HandsNothingOut, TypeOK, RestOK
  <2> QED
    BY <1>1, <1>2, <2>1 DEF ResumeFree, RunnerInv, HandsNothingOut
<1>7. NewFree'
  BY DEF NewFree, RunnerInv, HandsNothingOut, SameTasks
<1>8. DownFree'
  <2>1. recs = <<>> => recs' = <<>>
    BY EmptySeq, RecsLen DEF HandsNothingOut, TypeOK, QueueOK
  <2> QED
    BY <2>1 DEF DownFree, RunnerInv, HandsNothingOut
<1>9. RegistryTasks'
  <2> SUFFICES ASSUME NEW t \in Tasks, registry'[t] # 0
               PROVE  recs'[registry'[t]].task = t
    BY DEF RegistryTasks
  <2>1. registry[t] \in 1..Len(recs) /\ registry' = registry
    BY RecsLen DEF HandsNothingOut, TypeOK, QueueOK
  <2> QED
    BY <2>1 DEF RegistryTasks, RunnerInv, HandsNothingOut, SameTasks
<1> QED
  BY <1>3, <1>4, <1>5, <1>6, <1>7, <1>8, <1>9 DEF RunnerInv

-----------------------------------------------------------------------------
(* The steps of the frame. *)

LEMMA HeldNotNew ==
    ASSUME TypeOK, NewFree, NEW i \in 1..Len(recs)
    PROVE  client[recs[i].task].pc # "new"
BY RecAt DEF NewFree

LEMMA MarkHandsNothingOut ==
    ASSUME TypeOK, NEW w \in Workers, NEW s \in TaskState, worker[w].pc # "idle", Mark(w, s),
           UNCHANGED <<phase, toResume, registry, heap, client, checkpoint>>
    PROVE  HandsNothingOut
<1>1. Len(recs') = Len(recs) /\ SameTasks
  BY HeldRec, SetStateRecs DEF Mark
<1>2. worker' = [worker EXCEPT ![w] = Thread("commit", worker[w].rec, s)]
  BY DEF Mark
<1>3. ASSUME NEW v \in Workers, worker'[v].pc # "idle"
      PROVE  worker[v].pc # "idle" /\ worker'[v].rec = worker[v].rec
  BY <1>2, <1>3 DEF Thread, TypeOK, ThreadsOK
<1> QED
  BY <1>1, <1>3 DEF HandsNothingOut

LEMMA WorkerHandsNothingOut ==
    ASSUME TypeOK, RunnerInv, NEW w \in Workers,
           \/ PopNothing(w) \/ PolicyDeny(w) \/ GateEscalate(w) \/ OracleEscalate(w)
           \/ StartPlan(w) \/ StartHandler(w) \/ Commit(w) \/ Succeed(w)
           \/ HandlerEscalate(w) \/ Fail(w) \/ Retry(w) \/ FileLetter(w) \/ DeadLetter(w)
    PROVE  HandsNothingOut
<1>1. CASE PopNothing(w)
  BY <1>1 DEF PopNothing, HandsNothingOut, SameTasks
<1>2. CASE PolicyDeny(w)
  BY <1>2 DEF PolicyDeny, OnlyThisWorker, HandsNothingOut, SameTasks, Thread, TypeOK, ThreadsOK
<1>3. CASE GateEscalate(w) \/ OracleEscalate(w) \/ Succeed(w) \/ HandlerEscalate(w)
           \/ Retry(w) \/ DeadLetter(w)
  <2>1. PICK s \in TaskState : Mark(w, s)
    BY <1>3 DEF GateEscalate, OracleEscalate, Succeed, HandlerEscalate, Retry, DeadLetter, TaskState
  <2>2. worker[w].pc # "idle" /\ UNCHANGED <<phase, toResume, registry, heap, client, checkpoint>>
    BY <1>3 DEF GateEscalate, OracleEscalate, Succeed, HandlerEscalate, Retry, DeadLetter,
                OnlyThisWorker
  <2> QED
    BY <2>1, <2>2, MarkHandsNothingOut
<1>4. CASE StartPlan(w) \/ StartHandler(w)
  <2>1. PICK pc \in {"startPlan", "startHandler"} : MarkRunning(w, pc)
    BY <1>4 DEF StartPlan, StartHandler
  <2>2. worker[w].pc # "idle" /\ OnlyThisWorker
    BY <1>4 DEF StartPlan, StartHandler
  <2>3. Len(recs') = Len(recs) /\ SameTasks
    BY <2>1, <2>2, MarkRunningRecs
  <2>4. worker' = [worker EXCEPT ![w] = Thread(pc, worker[w].rec, "RUNNING")]
    BY <2>1 DEF MarkRunning
  <2> QED
    BY <2>2, <2>3, <2>4 DEF HandsNothingOut, OnlyThisWorker, Thread, TypeOK, ThreadsOK
<1>5. CASE Commit(w)
  <2>1. worker[w].pc # "idle" /\ UNCHANGED <<recs, phase, toResume, registry, heap, client>>
    BY <1>5 DEF Commit
  <2>2. worker[w].rec \in 1..Len(recs)
    BY <2>1, HeldRec
  <2>3. client[TaskAt(w)].pc # "new"
    BY <2>2, HeldNotNew DEF RunnerInv, TaskAt
  <2>4. \A t \in Tasks : client'[t].pc = "new" => checkpoint'[t] = checkpoint[t]
    BY <1>5, <2>1, <2>3 DEF Commit, TypeOK, RestOK
  <2>5. worker'[w].pc # "idle" => worker'[w].rec = worker[w].rec
    BY <1>5 DEF Commit, Thread, IdleThread, TypeOK, ThreadsOK
  <2>6. \A v \in Workers : v # w => worker'[v] = worker[v]
    BY <1>5 DEF Commit, TypeOK, ThreadsOK
  <2> QED
    BY <2>1, <2>4, <2>5, <2>6 DEF HandsNothingOut, SameTasks
<1>6. CASE Fail(w) \/ FileLetter(w)
  <2>1. PICK pc \in {"backoff", "giveUp", "lettered"} :
          worker' = [worker EXCEPT ![w] = Thread(pc, worker[w].rec, NoLine)]
    BY <1>6 DEF Fail, FileLetter
  <2>2. worker[w].pc # "idle"
        /\ UNCHANGED <<recs, phase, toResume, registry, heap, client, checkpoint>>
    BY <1>6 DEF Fail, FileLetter
  <2> QED
    BY <2>1, <2>2 DEF HandsNothingOut, SameTasks, Thread, TypeOK, ThreadsOK
<1> QED
  BY <1>1, <1>2, <1>3, <1>4, <1>5, <1>6

LEMMA OthersHandNothingOut ==
    ASSUME TypeOK, RunnerInv,
           \/ \E t \in Tasks : SubmitLine(t) \/ SubmitWrite(t) \/ CancelTest(t)
           \/ \E t \in Tasks, act \in Action : WriteDecision(t, act)
           \/ \E t \in Tasks, act \in {"approve", "reject"} : ThroneDecide(t, act)
           \/ \E a \in Approvers : ApplyDecision(a) \/ CommitDecision(a)
           \/ PollerStep \/ CancelWrite \/ UNCHANGED vars
    PROVE  HandsNothingOut
<1>1. CASE \E t \in Tasks : SubmitLine(t) \/ SubmitWrite(t)
  <2>1. PICK t \in Tasks : SubmitLine(t) \/ SubmitWrite(t)
    BY <1>1
  <2>2. \A u \in Tasks : client'[u].pc = "new" => client[u].pc = "new" /\ u # t
    BY <2>1 DEF SubmitLine, SubmitWrite, Thread, TypeOK, ThreadsOK
  <2>3. \A u \in Tasks : u # t => checkpoint'[u] = checkpoint[u]
    BY <2>1 DEF SubmitLine, SubmitWrite, TypeOK, RestOK
  <2>4. UNCHANGED <<recs, heap, phase, toResume, registry, worker>>
    BY <2>1 DEF SubmitLine, SubmitWrite
  <2> QED
    BY <2>2, <2>3, <2>4 DEF HandsNothingOut, SameTasks
<1>2. CASE (\E t \in Tasks : CancelTest(t)) \/ CancelWrite
  <2>1. ASSUME NEW t \in Tasks, CancelTest(t) PROVE HandsNothingOut
    BY <2>1 DEF CancelTest, HandsNothingOut, SameTasks
  <2>2. CASE CancelWrite
    BY <2>2, Cancelling DEF CancelWrite, HandsNothingOut
  <2> QED
    BY <1>2, <2>1, <2>2
<1>3. CASE \E t \in Tasks, act \in Action : WriteDecision(t, act)
  BY <1>3 DEF WriteDecision, volatile, HandsNothingOut, SameTasks
<1>4. CASE \E t \in Tasks, act \in {"approve", "reject"} : ThroneDecide(t, act)
  BY <1>4 DEF ThroneDecide, OnlyPoller, HandsNothingOut, SameTasks
<1>5. CASE \E a \in Approvers : ApplyDecision(a)
  <2>1. PICK a \in Approvers : ApplyDecision(a)
    BY <1>5
  <2>2. approver[a].rec \in 1..Len(recs)
    BY <2>1, RecsLen DEF ApplyDecision, TypeOK, ThreadsOK, ApproverThreads
  <2>3. PICK s \in TaskState : SetState(approver[a].rec, s)
    BY <2>1 DEF ApplyDecision, TaskState
  <2>4. Len(recs') = Len(recs) /\ SameTasks
    BY <2>2, <2>3, SetStateRecs
  <2> QED
    BY <2>1, <2>4 DEF ApplyDecision, HandsNothingOut
<1>6. CASE \E a \in Approvers : CommitDecision(a)
  <2>1. PICK a \in Approvers : CommitDecision(a)
    BY <1>6
  <2>2. approver[a].rec \in 1..Len(recs)
    BY <2>1, RecsLen DEF CommitDecision, TypeOK, ThreadsOK, ApproverThreads
  <2>3. client[recs[approver[a].rec].task].pc # "new"
    BY <2>2, HeldNotNew DEF RunnerInv
  <2>4. \A t \in Tasks : client'[t].pc = "new" => checkpoint'[t] = checkpoint[t]
    BY <2>1, <2>3 DEF CommitDecision, TypeOK, RestOK
  <2> QED
    BY <2>1, <2>4 DEF CommitDecision, HandsNothingOut, SameTasks
<1>7. CASE PollerStep
  BY <1>7 DEF PollerStep, PollStat, PollRead, PollDecide, PollDrop, PollDone, OnlyPoller,
              HandsNothingOut, SameTasks
<1>8. CASE UNCHANGED vars
  BY <1>8 DEF vars, HandsNothingOut, SameTasks
<1> QED
  BY <1>1, <1>2, <1>3, <1>4, <1>5, <1>6, <1>7, <1>8

-----------------------------------------------------------------------------
(* The steps that do hand a task out. *)

(* From the heap to a worker. *)
LEMMA PopKeeps ==
    ASSUME TypeOK, RunnerInv, NEW w \in Workers, Pop(w)
    PROVE  RunnerInv'
<1>1. PICK i \in heap :
        /\ Runnable(i)
        /\ heap' \subseteq heap \ {i}
        /\ worker' = [worker EXCEPT ![w] =
                        Thread("popped", registry[recs[i].task], NoLine)]
  BY DEF Pop
<1>2. UNCHANGED <<phase, toResume, recs, registry, client, checkpoint>>
  BY DEF Pop
<1>3. recs[i].task \in Tasks
  BY HeapRec
<1>4. worker'[w].rec = registry[recs[i].task] /\ registry[recs[i].task] # 0
  BY <1>1, <1>3 DEF Thread, Runnable, Live, StateOf, Absent, TypeOK, ThreadsOK
<1>5. TaskAt(w)' = recs[i].task
  BY <1>2, <1>3, <1>4 DEF TaskAt, RunnerInv, RegistryTasks
<1>6. ASSUME NEW v \in Workers, v # w
      PROVE  Busy(v)' = Busy(v) /\ TaskAt(v)' = TaskAt(v)
  BY <1>1, <1>2, <1>6 DEF Busy, TaskAt, TypeOK, ThreadsOK
<1>7. \A v \in Workers : v # w /\ Busy(v) => TaskAt(v) # recs[i].task
  BY DEF RunnerInv, HeapFree
<1>8. SingleRunner'
  BY <1>5, <1>6, <1>7 DEF SingleRunner, RunnerInv
<1>9. HeapOne'
  BY <1>1, <1>2 DEF HeapOne, RunnerInv
<1>10. HeapFree'
  <2>1. \A j \in heap' : recs[j].task # recs[i].task
    BY <1>1 DEF HeapOne, RunnerInv
  <2> QED
    BY <1>1, <1>2, <1>5, <1>6, <2>1 DEF HeapFree, RunnerInv
<1>11. ResumeFree'
  BY <1>1, <1>2, <1>5, <1>6 DEF ResumeFree, RunnerInv
<1>12. NewFree' /\ DownFree' /\ RegistryTasks'
  BY <1>2 DEF NewFree, DownFree, RegistryTasks, RunnerInv
<1> QED
  BY <1>8, <1>9, <1>10, <1>11, <1>12 DEF RunnerInv

(* Into the heap: whoever enqueues a task is the only one to have it, and    *)
(* lets go of it.                                                            *)
LEMMA EnqueueKeeps ==
    ASSUME TypeOK, RunnerInv, NEW t \in Tasks, Enqueue(t),
           \A i \in heap : recs[i].task # t,
           \A w \in Workers : worker'[w].pc # "idle" =>
              /\ worker[w].pc # "idle" /\ worker'[w].rec = worker[w].rec
              /\ TaskAt(w) # t,
           toResume' \subseteq toResume \ {t}, phase # "down",
           UNCHANGED <<phase, checkpoint>>,
           \A u \in Tasks : client'[u].pc = "new" => client[u].pc = "new" /\ u # t
    PROVE  RunnerInv'
<1> DEFINE n == Len(recs) + 1
<1>1. Len(recs) \in Nat /\ Len(recs') = n /\ recs'[n].task = t
      /\ \A i \in 1..Len(recs) : recs'[i] = recs[i]
  BY RecsLen, EnqueueRecs
<1>2. heap' = heap \cup {n} /\ registry' = [registry EXCEPT ![t] = n]
  BY DEF Enqueue
<1>3. ASSUME NEW w \in Workers, Busy(w)'
      PROVE  Busy(w) /\ TaskAt(w)' = TaskAt(w) /\ TaskAt(w) # t
  <2>1. Busy(w) /\ worker'[w].rec = worker[w].rec /\ TaskAt(w) # t
    BY <1>3 DEF Busy
  <2>2. worker[w].rec \in 1..Len(recs)
    BY <2>1, HeldTask
  <2> QED
    BY <1>1, <2>1, <2>2 DEF TaskAt
<1>4. \A i \in heap : recs'[i].task = recs[i].task /\ recs[i].task # t
  BY <1>1, HeapRec
<1>5. SingleRunner'
  BY <1>3 DEF SingleRunner, RunnerInv
<1>6. HeapOne'
  BY <1>1, <1>2, <1>4 DEF HeapOne, RunnerInv
<1>7. HeapFree'
  BY <1>1, <1>2, <1>3, <1>4 DEF HeapFree, RunnerInv
<1>8. ResumeFree'
  <2> SUFFICES ASSUME NEW u \in toResume'
               PROVE  /\ client'[u].pc # "new"
                      /\ \A i \in heap' : recs'[i].task # u
                      /\ \A w \in Workers : Busy(w)' => TaskAt(w)' # u
    BY DEF ResumeFree
  <2>1. u \in toResume /\ u \in Tasks /\ u # t
    BY DEF TypeOK, RestOK
  <2> QED
    BY <1>1, <1>2, <1>3, <1>4, <2>1 DEF ResumeFree, RunnerInv
<1>9. NewFree'
  <2> SUFFICES ASSUME NEW u \in Tasks, client'[u].pc = "new"
               PROVE  checkpoint'[u] = Absent /\ \A i \in 1..n : recs'[i].task # u
    BY <1>1 DEF NewFree
  <2>1. client[u].pc = "new" /\ u # t
    OBVIOUS
  <2>2. \A i \in 1..n : i = n \/ i \in 1..Len(recs)
    BY <1>1
  <2> QED
    BY <1>1, <2>1, <2>2 DEF NewFree, RunnerInv
<1>10. DownFree'
  BY DEF DownFree
<1>11. RegistryTasks'
  <2> SUFFICES ASSUME NEW u \in Tasks, registry'[u] # 0
               PROVE  recs'[registry'[u]].task = u
    BY DEF RegistryTasks
  <2>1. CASE u = t
    BY <1>1, <1>2, <2>1 DEF TypeOK, QueueOK
  <2>2. CASE u # t
    <3>1. registry'[u] = registry[u] /\ registry[u] \in 1..Len(recs)
      BY <1>1, <1>2, <2>2 DEF TypeOK, QueueOK
    <3> QED
      BY <1>1, <3>1 DEF RegistryTasks, RunnerInv
  <2> QED
    BY <2>1, <2>2
<1> QED
  BY <1>5, <1>6, <1>7, <1>8, <1>9, <1>10, <1>11 DEF RunnerInv

(* A worker that enqueues a retry had the task to itself. *)
LEMMA RequeueKeeps ==
    ASSUME TypeOK, RunnerInv, NEW w \in Workers, Requeue(w)
    PROVE  RunnerInv'
<1>1. Busy(w) /\ Enqueue(TaskAt(w)) /\ worker' = [worker EXCEPT ![w] = IdleThread]
      /\ UNCHANGED <<phase, toResume, client, checkpoint>>
  BY DEF Requeue, Busy
<1>2. worker[w].rec \in 1..Len(recs) /\ TaskAt(w) \in Tasks
  BY <1>1, HeldTask
<1>3. \A i \in heap : recs[i].task # TaskAt(w)
  BY <1>1 DEF RunnerInv, HeapFree
<1>4. ASSUME NEW v \in Workers, worker'[v].pc # "idle"
      PROVE  worker[v].pc # "idle" /\ worker'[v].rec = worker[v].rec /\ TaskAt(v) # TaskAt(w)
  <2>1. v # w /\ worker'[v] = worker[v]
    BY <1>1, <1>4 DEF IdleThread, Thread, TypeOK, ThreadsOK
  <2> QED
    BY <1>1, <1>4, <2>1 DEF RunnerInv, SingleRunner, Busy
<1>5. TaskAt(w) \notin toResume
  BY <1>1 DEF RunnerInv, ResumeFree
<1>6. phase # "down"
  BY <1>2, EmptySeq, RecsLen DEF RunnerInv, DownFree
<1>7. client[TaskAt(w)].pc # "new"
  BY <1>2, HeldNotNew DEF RunnerInv, TaskAt
<1> QED
  BY <1>1, <1>2, <1>3, <1>4, <1>5, <1>6, <1>7, EnqueueKeeps

LEMMA SubmitKeeps ==
    ASSUME EarlySubmit = FALSE, TypeOK, TypeOK', RunnerInv, NEW t \in Tasks, SubmitEnqueue(t)
    PROVE  RunnerInv'
<1>1. /\ client[t].pc = "new" /\ phase = "up" /\ toResume = {}
      /\ UNCHANGED <<phase, toResume, worker, checkpoint>>
  BY DEF SubmitEnqueue, Up
<1>2. \A i \in 1..Len(recs) : recs[i].task # t
  BY <1>1 DEF RunnerInv, NewFree
<1>3. CASE Enqueue(t) /\ client' = [client EXCEPT ![t] = Thread("enqueued", Len(recs) + 1, NoLine)]
  <2>1. \A i \in heap : recs[i].task # t
    BY <1>2, HeapRec
  <2>2. \A w \in Workers : worker[w].pc # "idle" => TaskAt(w) # t
    BY <1>2, HeldTask DEF Busy, TaskAt
  <2>3. \A u \in Tasks : client'[u].pc = "new" => client[u].pc = "new" /\ u # t
    BY <1>3 DEF Thread, TypeOK, ThreadsOK
  <2> QED
    BY <1>1, <1>3, <2>1, <2>2, <2>3, EnqueueKeeps
<1>4. CASE UNCHANGED <<recs, registry, heap>>
           /\ client' = [client EXCEPT ![t] = Thread("commit", 0, "FAILED")]
  <2>1. \A u \in Tasks : client'[u].pc = "new" => client[u].pc = "new"
    BY <1>4 DEF Thread, TypeOK, ThreadsOK
  <2>2. HandsNothingOut
    BY <1>1, <1>4, <2>1 DEF HandsNothingOut, SameTasks
  <2> QED
    BY <2>2, FrameKeeps
<1> QED
  BY <1>3, <1>4 DEF SubmitEnqueue

(* What start reads from the checkpoint belongs to a process that is gone. *)
LEMMA StartKeeps == TypeOK /\ RunnerInv /\ Start => RunnerInv'
<1> SUFFICES ASSUME TypeOK, RunnerInv, Start PROVE RunnerInv'
  OBVIOUS
<1>1. recs = <<>> /\ Len(recs) = 0 /\ heap = {}
  BY EmptySeq DEF Start, RunnerInv, DownFree, TypeOK, QueueOK
<1>2. UNCHANGED <<recs, registry, heap, worker, client, checkpoint>> /\ phase' = "up"
  BY DEF Start
<1>3. \A w \in Workers : ~Busy(w)
  BY <1>1, HeldTask
<1>4. \A t \in toResume' : t \in Tasks /\ checkpoint[t] \in TaskState
  BY DEF Start
<1>5. \A t \in toResume' : client[t].pc # "new"
  BY <1>4, StatesAreStates DEF RunnerInv, NewFree
<1>6. ResumeFree'
  BY <1>1, <1>2, <1>3, <1>5 DEF ResumeFree, Busy
<1>7. SingleRunner' /\ HeapOne' /\ HeapFree' /\ NewFree' /\ DownFree' /\ RegistryTasks'
  BY <1>2, <1>3 DEF RunnerInv, SingleRunner, HeapOne, HeapFree, NewFree, DownFree,
                    RegistryTasks, Busy, TaskAt
<1> QED
  BY <1>6, <1>7 DEF RunnerInv

LEMMA ResumeKeeps ==
    ASSUME TypeOK, RunnerInv, NEW t \in Tasks, Resume(t)
    PROVE  RunnerInv'
<1>1. /\ t \in toResume /\ Enqueue(t) /\ toResume' = toResume \ {t}
      /\ UNCHANGED <<phase, worker, client, checkpoint>>
  BY DEF Resume
<1>2. phase # "down"
  BY <1>1 DEF RunnerInv, DownFree
<1>3. /\ client[t].pc # "new"
      /\ \A i \in heap : recs[i].task # t
      /\ \A w \in Workers : worker[w].pc # "idle" => TaskAt(w) # t
  BY <1>1 DEF RunnerInv, ResumeFree, Busy
<1> QED
  BY <1>1, <1>2, <1>3, EnqueueKeeps

LEMMA CrashKeeps == TypeOK /\ RunnerInv /\ Crash => RunnerInv'
<1> SUFFICES ASSUME TypeOK, RunnerInv, Crash PROVE RunnerInv'
  OBVIOUS
<1>1. recs' = <<>> /\ heap' = {} /\ toResume' = {} /\ UNCHANGED checkpoint
      /\ \A t \in Tasks : registry'[t] = 0
  BY DEF Crash
<1>2. Len(recs') = 0
  BY <1>1, EmptySeq
<1>3. \A w \in Workers : ~Busy(w)'
  BY DEF Crash, Busy, IdleThread, Thread
<1>4. \A t \in Tasks : client'[t].pc = "new" => client[t].pc = "new"
  BY DEF Crash, Thread
<1>5. NewFree'
  BY <1>1, <1>2, <1>4 DEF NewFree, RunnerInv
<1>6. SingleRunner' /\ HeapOne' /\ HeapFree' /\ ResumeFree' /\ DownFree' /\ RegistryTasks'
  BY <1>1, <1>3 DEF SingleRunner, HeapOne, HeapFree, ResumeFree, DownFree, RegistryTasks
<1> QED
  BY <1>5, <1>6 DEF RunnerInv

-----------------------------------------------------------------------------
LEMMA RunnerInit == Init => RunnerInv
<1> SUFFICES ASSUME Init PROVE RunnerInv
  OBVIOUS
<1>1. Len(recs) = 0 /\ \A w \in Workers : ~Busy(w)
  BY EmptySeq DEF Init, Busy, IdleThread, Thread
<1> QED
  BY <1>1 DEF Init, RunnerInv, SingleRunner, HeapOne, HeapFree, ResumeFree, NewFree, DownFree,
              RegistryTasks

LEMMA RunnerNext ==
    ASSUME EarlySubmit = FALSE
    PROVE  TypeOK /\ TypeOK' /\ RunnerInv /\ [Next]_vars => RunnerInv'
<1> SUFFICES ASSUME TypeOK, TypeOK', RunnerInv, [Next]_vars PROVE RunnerInv'
  OBVIOUS
<1>1. ASSUME NEW w \in Workers, WorkerStep(w) PROVE RunnerInv'
  BY <1>1, PopKeeps, RequeueKeeps, WorkerHandsNothingOut, FrameKeeps DEF WorkerStep
<1>2. ASSUME NEW t \in Tasks, ClientStep(t) \/ CancelTest(t) \/ Resume(t) PROVE RunnerInv'
  BY <1>2, SubmitKeeps, ResumeKeeps, OthersHandNothingOut, FrameKeeps DEF ClientStep
<1>3. CASE Start \/ Crash
  BY <1>3, StartKeeps, CrashKeeps
<1>4. CASE \/ \E t \in Tasks, act \in Action : WriteDecision(t, act)
           \/ \E t \in Tasks, act \in {"approve", "reject"} : ThroneDecide(t, act)
           \/ \E a \in Approvers : ApplyDecision(a) \/ CommitDecision(a)
           \/ PollerStep \/ CancelWrite \/ UNCHANGED vars
  BY <1>4, OthersHandNothingOut, FrameKeeps
<1> QED
  BY <1>1, <1>2, <1>3, <1>4 DEF Next

(* If nothing is submitted before start, as in service.py, a task is either  *)
(* in the heap or with a worker, once, and a task still to be resumed or to  *)
(* be submitted (kernel.py) is with neither.                                 *)
THEOREM RunnerInvariant == (EarlySubmit = FALSE) => (Spec => []RunnerInv)
<1> SUFFICES ASSUME EarlySubmit = FALSE PROVE Spec => []RunnerInv
  OBVIOUS
<1>1. TypeOK /\ TypeOK' /\ RunnerInv /\ [Next]_vars => RunnerInv'
  BY RunnerNext
<1> QED
  BY <1>1, RunnerInit, TypeCorrect, PTL DEF Spec

(* Then two workers of scheduler.py never have the same task in hand,        *)
(* whatever retries, approvals, crashes and cancellations come in between.   *)
THEOREM OneRunnerPerTask == (EarlySubmit = FALSE) => (Spec => []SingleRunner)
<1>1. RunnerInv => SingleRunner
  BY DEF RunnerInv
<1> QED
  BY <1>1, RunnerInvariant, PTL

-----------------------------------------------------------------------------
(***************************************************************************)
(* The queue, the threads, the records and the checkpoints together.         *)
(***************************************************************************)

(* Before the threads run, and after a death, nobody has anything in hand.   *)
IdleWhenDown == ~Up =>
    /\ \A w \in Workers : ~Busy(w)
    /\ \A t \in Tasks : client[t].pc \notin {"enqueued", "commit"}
    /\ \A a \in Approvers : approver[a].pc = "idle"
    /\ poll.pc = "idle" /\ dlq = <<>>

(* A worker has the record registered for its task, which is open until the  *)
(* line about its end is due; only a decision can change it in the meantime. *)
Open == {"QUEUED", "RUNNING", "CANCELLED"}
Holds(w) ==
    LET state == recs[worker[w].rec].state  line == worker[w].line IN
    /\ registry[TaskAt(w)] = worker[w].rec
    /\ worker[w].pc \in {"startPlan", "startHandler"} => line = "RUNNING"
    /\ worker[w].pc # "commit" => state \in Open
    /\ worker[w].pc = "commit" =>
         \/ line \in {"SUCCEEDED", "FAILED"} /\ state = line
         \/ line = "QUEUED" /\ state \in {"QUEUED", "CANCELLED"}
         \/ line = "ESCALATED" /\ state \in {"ESCALATED", "CANCELLED"}
         \/ line = "ESCALATED" /\ state = "QUEUED" /\ TaskAt(w) \in approvals
HoldsLatest == \A w \in Workers : Busy(w) => Holds(w)

(* So is an entry of the heap, and a record that is a success. *)
HeapLatest == \A i \in heap :
    registry[recs[i].task] = i /\ recs[i].state \in {"QUEUED", "CANCELLED"}
SuccessLatest == \A i \in 1..Len(recs) :
    recs[i].state = "SUCCEEDED" => registry[recs[i].task] = i

(* A caller of submit has a record of its task, or was refused; what it is   *)
(* about to write as a success is one.                                       *)
ClientsTell == \A t \in Tasks :
    /\ client[t].pc = "enqueued" => registry[t] # 0 /\ recs[client[t].rec].task = t
    /\ client[t].pc = "commit" =>
         /\ registry[t] # 0 \/ client[t].line = "FAILED"
         /\ client[t].line = "SUCCEEDED" => StateOf(t) = "SUCCEEDED"

(* Who decides about a task holds its record, which is in no heap and with   *)
(* no worker but the one that is about to write that it was escalated.       *)
ApproverAlone == \A a \in Approvers : approver[a].pc # "idle" =>
    LET r == approver[a].rec IN
    /\ registry[recs[r].task] = r /\ recs[r].state \in {"ESCALATED", "QUEUED", "CANCELLED"}
    /\ approver[a].pc = "commit" => approver[a].line \in {"QUEUED", "CANCELLED"}
    /\ r \notin heap
    /\ \A w \in Workers : Busy(w) /\ worker[w].rec = r =>
          worker[w].pc = "commit" /\ worker[w].line = "ESCALATED"

(* A task to be resumed has an open line and no record yet. *)
ResumesOpen == \A t \in toResume : checkpoint[t] \in {"QUEUED", "RUNNING"} /\ registry[t] = 0

(* A dead letter is in nobody's hands but those that mark it and write its   *)
(* line.                                                                     *)
LettersFinal ==
    /\ DeadLettersFinal
    /\ \A i \in 1..Len(dlq), w \in Workers : Busy(w) /\ TaskAt(w) = dlq[i] =>
          \/ worker[w].pc = "lettered"
          \/ worker[w].pc = "commit" /\ worker[w].line = "FAILED"

KernelInv == IdleWhenDown /\ HoldsLatest /\ HeapLatest /\ SuccessLatest /\ ClientsTell /\ ApproverAlone
             /\ ResumesOpen /\ DurableSuccess /\ LettersFinal

(* Parents are submitted, and their submissions have returned, first. *)
ParentsSubmitted == \A t \in Tasks : client[t].pc # "new" =>
    \A k \in 1..Len(DependsOn[t]) : client[DependsOn[t][k]].pc = "done"
ParentsStand == \A w \in Workers : Busy(w) =>
    \A k \in 1..Len(DependsOn[TaskAt(w)]) :
       StateOf(DependsOn[TaskAt(w)][k]) \in {Absent, "SUCCEEDED"}
OrderInv == ParentsSubmitted /\ ParentsStand
NobodyDecides == approvals = {} /\ \A w \in Workers : worker[w].pc # "dead"

-----------------------------------------------------------------------------
(* What a step does to the records: one changes its state, or none. *)
Writes(r, s) ==
    /\ Len(recs') = Len(recs)
    /\ \A i \in 1..Len(recs) :
          recs'[i].task = recs[i].task /\ recs'[i].state = IF i = r THEN s ELSE recs[i].state

LEMMA SetStateWrites ==
    ASSUME TypeOK, NEW r \in 1..Len(recs), NEW s \in TaskState, SetState(r, s)
    PROVE  Writes(r, s)
<1>1. recs \in Seq(Records) /\ Len(recs') = Len(recs) /\ SameTasks
  BY SetStateRecs DEF TypeOK, QueueOK
<1>2. recs' = [recs EXCEPT ![r] = [recs[r] EXCEPT !.state = s]]
  BY DEF SetState
<1>3. recs[r] \in Records
  BY <1>1, ElementOfSeq
<1>4. [recs[r] EXCEPT !.state = s].state = s
  BY <1>3 DEF Records
<1>5. \A i \in 1..Len(recs) : recs'[i] = IF i = r THEN [recs[r] EXCEPT !.state = s] ELSE recs[i]
  BY <1>1, <1>2, ExceptSeq
<1> QED
  BY <1>1, <1>4, <1>5 DEF Writes, SameTasks

LEMMA MarkRunningWrites ==
    ASSUME TypeOK, NEW w \in Workers, NEW pc, worker[w].pc # "idle", MarkRunning(w, pc)
    PROVE  Writes(worker[w].rec, "RUNNING")
<1> DEFINE r == worker[w].rec
           x == [task |-> recs[r].task, state |-> "RUNNING", attempts |-> recs[r].attempts + 1]
<1>1. r \in 1..Len(recs) /\ recs \in Seq(Records)
  BY HeldRec DEF TypeOK, QueueOK
<1>2. recs' = [recs EXCEPT ![r] = x]
  BY DEF MarkRunning
<1>3. Len(recs') = Len(recs) /\ SameTasks
  BY MarkRunningRecs
<1>4. \A i \in 1..Len(recs) : recs'[i] = IF i = r THEN x ELSE recs[i]
  BY <1>1, <1>2, ExceptSeq
<1> QED
  BY <1>3, <1>4 DEF Writes, SameTasks

(* The registered record of a task exists and is of that task. *)
LEMMA Registered ==
    ASSUME TypeOK, RunnerInv, NEW t \in Tasks, registry[t] # 0
    PROVE  registry[t] \in 1..Len(recs) /\ recs[registry[t]].task = t
           /\ StateOf(t) = recs[registry[t]].state
BY RecsLen DEF TypeOK, QueueOK, RunnerInv, RegistryTasks, StateOf

LEMMA Unregistered ==
    ASSUME NEW t, registry[t] = 0 PROVE StateOf(t) = Absent
BY DEF StateOf

(* What every reachable state gives about a worker that holds a record.      *)
LEMMA WorkerHolds ==
    ASSUME TypeOK, RunnerInv, KernelInv, NEW w \in Workers, Busy(w)
    PROVE  /\ Up /\ worker[w].rec \in 1..Len(recs) /\ TaskAt(w) \in Tasks
           /\ registry[TaskAt(w)] = worker[w].rec
           /\ StateOf(TaskAt(w)) = recs[worker[w].rec].state
           /\ worker[w].rec \notin heap
           /\ worker[w].pc # "commit" => recs[worker[w].rec].state \in Open
           /\ \A v \in Workers : v # w /\ Busy(v) => worker[v].rec # worker[w].rec
<1>1. worker[w].rec \in 1..Len(recs) /\ TaskAt(w) \in Tasks
  BY HeldTask
<1>2. Up /\ registry[TaskAt(w)] = worker[w].rec
      /\ (worker[w].pc # "commit" => recs[worker[w].rec].state \in Open)
  BY DEF KernelInv, IdleWhenDown, HoldsLatest, Holds
<1>3. StateOf(TaskAt(w)) = recs[worker[w].rec].state
  BY <1>1, <1>2 DEF StateOf
<1>4. worker[w].rec \notin heap
  BY DEF RunnerInv, HeapFree, TaskAt
<1>5. \A v \in Workers : v # w /\ Busy(v) => worker[v].rec # worker[w].rec
  BY DEF RunnerInv, SingleRunner, TaskAt
<1> QED
  BY <1>1, <1>2, <1>3, <1>4, <1>5

LEMMA ApproverHolds ==
    ASSUME TypeOK, RunnerInv, KernelInv, NEW a \in Approvers, approver[a].pc # "idle"
    PROVE  /\ Up /\ approver[a].rec \in 1..Len(recs) /\ recs[approver[a].rec].task \in Tasks
           /\ registry[recs[approver[a].rec].task] = approver[a].rec
           /\ StateOf(recs[approver[a].rec].task) = recs[approver[a].rec].state
<1>1. approver[a].rec \in 1..Len(recs)
  BY RecsLen DEF TypeOK, ThreadsOK, ApproverThreads
<1>2. recs[approver[a].rec].task \in Tasks
  BY <1>1, RecAt
<1>3. Up /\ registry[recs[approver[a].rec].task] = approver[a].rec
  BY DEF KernelInv, IdleWhenDown, ApproverAlone
<1> QED
  BY <1>1, <1>2, <1>3 DEF StateOf

(* The states of the tasks after one record has changed its own. *)
LEMMA StatesWritten ==
    ASSUME TypeOK, NEW r \in 1..Len(recs), NEW s \in TaskState, Writes(r, s), UNCHANGED registry
    PROVE  \A t \in Tasks : StateOf(t)' = IF registry[t] = r THEN s ELSE StateOf(t)
<1> SUFFICES ASSUME NEW t \in Tasks
             PROVE  StateOf(t)' = IF registry[t] = r THEN s ELSE StateOf(t)
  OBVIOUS
<1>1. registry[t] # 0 => registry[t] \in 1..Len(recs)
  BY RecsLen DEF TypeOK, QueueOK
<1> QED
  BY <1>1, RecsLen DEF StateOf, Writes

LEMMA StatesAfter ==
    ASSUME TypeOK, RunnerInv, NEW r \in 1..Len(recs), NEW s \in TaskState, Writes(r, s),
           registry[recs[r].task] = r, UNCHANGED registry
    PROVE  \A t \in Tasks : StateOf(t)' = IF t = recs[r].task THEN s ELSE StateOf(t)
<1>1. \A t \in Tasks : registry[t] = r <=> t = recs[r].task
  BY RecsLen DEF RunnerInv, RegistryTasks
<1> QED
  BY <1>1, StatesWritten

-----------------------------------------------------------------------------
(* What is known of the task of a dead letter. *)
Letter(t) == \E i \in 1..Len(dlq) : dlq[i] = t

LEMMA LetterTasks ==
    ASSUME TypeOK, KernelInv, NEW t, Letter(t)
    PROVE  /\ t \in Tasks /\ registry[t] \notin heap
           /\ StateOf(t) = "FAILED" \/ AboutToFail(t)
           /\ \A w \in Workers : Busy(w) /\ TaskAt(w) = t =>
                 \/ worker[w].pc = "lettered"
                 \/ worker[w].pc = "commit" /\ worker[w].line = "FAILED"
<1>1. dlq \in Seq(Tasks)
  BY DEF TypeOK, RestOK
<1> QED
  BY <1>1, ElementOfSeq DEF Letter, KernelInv, LettersFinal, DeadLettersFinal

(* They are as they were if nobody touches their tasks, as those that hold   *)
(* one do not, and nobody else takes one.                                    *)
LEMMA LettersStand ==
    ASSUME TypeOK, KernelInv, dlq' = dlq,
           \A t \in Tasks : Letter(t) => StateOf(t)' = StateOf(t) /\ registry'[t] \notin heap',
           \A v \in Workers : Busy(v) /\ Letter(TaskAt(v)) /\ worker[v].pc = "lettered" =>
              worker'[v] = worker[v] /\ TaskAt(v)' = TaskAt(v),
           \A v \in Workers : Busy(v)' /\ Letter(TaskAt(v)') =>
              Busy(v) /\ worker'[v] = worker[v] /\ TaskAt(v)' = TaskAt(v)
    PROVE  LettersFinal'
<1>1. ASSUME NEW i \in 1..Len(dlq), NEW t, t = dlq[i]
      PROVE  t \in Tasks /\ Letter(t) /\ (StateOf(t)' = "FAILED" \/ AboutToFail(t)')
             /\ registry'[t] \notin heap'
  <2>1. Letter(t)
    BY <1>1 DEF Letter
  <2>2. t \in Tasks /\ (StateOf(t) = "FAILED" \/ AboutToFail(t))
    BY <2>1, LetterTasks
  <2>3. ASSUME AboutToFail(t) PROVE AboutToFail(t)'
    <3>1. PICK v \in Workers : worker[v].pc = "lettered" /\ TaskAt(v) = t
      BY <2>3 DEF AboutToFail
    <3>2. worker'[v] = worker[v] /\ TaskAt(v)' = t
      BY <2>1, <3>1 DEF Busy
    <3> QED
      BY <3>1, <3>2 DEF AboutToFail
  <2> QED
    BY <2>1, <2>2, <2>3
<1>2. DeadLettersFinal'
  BY <1>1 DEF KernelInv, LettersFinal, DeadLettersFinal
<1>3. ASSUME NEW i \in 1..Len(dlq), NEW v \in Workers, Busy(v)', TaskAt(v)' = dlq[i]
      PROVE  \/ worker'[v].pc = "lettered"
             \/ worker'[v].pc = "commit" /\ worker'[v].line = "FAILED"
  <2>1. Letter(TaskAt(v)')
    BY <1>3 DEF Letter
  <2>2. Busy(v) /\ worker'[v] = worker[v] /\ TaskAt(v) = dlq[i]
    BY <1>3, <2>1
  <2> QED
    BY <2>2 DEF KernelInv, LettersFinal
<1> QED
  BY <1>2, <1>3 DEF LettersFinal

(* A worker marks the record it holds. *)
Marks(w, s) ==
    /\ Busy(w) /\ worker[w].pc # "commit" /\ Writes(worker[w].rec, s)
    /\ \A v \in Workers : v # w => worker'[v] = worker[v]
    /\ worker'[w].rec = worker[w].rec /\ worker'[w].line = s
    /\ \/ worker'[w].pc \in {"startPlan", "startHandler"} /\ s = "RUNNING"
       \/ worker'[w].pc = "commit" /\ s \in {"SUCCEEDED", "FAILED", "QUEUED", "ESCALATED"}
    /\ worker[w].pc = "lettered" => s = "FAILED"
    /\ UNCHANGED <<phase, toResume, registry, heap, client, approver, poll, approvals, dlq, checkpoint>>

LEMMA MarkingKeeps ==
    ASSUME TypeOK, RunnerInv, KernelInv, NEW w \in Workers, NEW s \in TaskState, Marks(w, s)
    PROVE  KernelInv'
<1> DEFINE r == worker[w].rec
           own == TaskAt(w)
<1> USE DEF Marks
<1>1. /\ Up /\ r \in 1..Len(recs) /\ own \in Tasks /\ own = recs[r].task /\ registry[own] = r
      /\ r \notin heap /\ recs[r].state \in Open /\ StateOf(own) \in Open
      /\ \A v \in Workers : v # w /\ Busy(v) => worker[v].rec # r
  BY WorkerHolds DEF TaskAt
<1>2. \A t \in Tasks : StateOf(t)' = IF t = own THEN s ELSE StateOf(t)
  BY <1>1, StatesAfter
<1>3. \A v \in Workers : Busy(v) => worker[v].rec \in 1..Len(recs) /\ TaskAt(v) \in Tasks
  BY HeldTask
<1>4. \A v \in Workers : Busy(v)' = Busy(v) /\ (Busy(v) => TaskAt(v)' = TaskAt(v))
  <2> SUFFICES ASSUME NEW v \in Workers
               PROVE  Busy(v)' = Busy(v) /\ (Busy(v) => TaskAt(v)' = TaskAt(v))
    OBVIOUS
  <2>1. worker'[v].rec = worker[v].rec /\ Busy(v)' = Busy(v)
    BY DEF Busy
  <2> QED
    BY <1>3, <2>1 DEF TaskAt, Writes
<1>5. \A a \in Approvers : approver[a].pc # "idle" => approver[a].rec # r
  BY DEF KernelInv, ApproverAlone
<1>6. \A i \in 1..Len(recs) : i # r => recs'[i].state = recs[i].state /\ recs'[i].task = recs[i].task
  BY DEF Writes
<1>7. recs'[r].state = s /\ recs'[r].task = own /\ Len(recs') = Len(recs)
  BY <1>1 DEF Writes
<1>8. heap \subseteq 1..Len(recs)
  BY DEF TypeOK, QueueOK
<1>9. \A v \in Workers : v # w => worker'[v] = worker[v]
  OBVIOUS
<1> HIDE DEF r, own
<1>20. IdleWhenDown'
  BY <1>1 DEF IdleWhenDown, Up
<1>21. HoldsLatest'
  <2> SUFFICES ASSUME NEW v \in Workers, Busy(v)'
               PROVE  Holds(v)'
    BY DEF HoldsLatest
  <2>1. CASE v = w
    BY <1>1, <1>4, <1>7, <2>1 DEF r, own, Open, Holds
  <2>2. CASE v # w
    BY <1>1, <1>3, <1>4, <1>6, <2>2 DEF KernelInv, HoldsLatest, Busy, Holds
  <2> QED
    BY <2>1, <2>2
<1>22. HeapLatest'
  BY <1>1, <1>6, <1>8 DEF KernelInv, HeapLatest
<1>23. SuccessLatest'
  BY <1>1, <1>6, <1>7 DEF KernelInv, SuccessLatest
<1>24. ClientsTell'
  <2>1. \A t \in Tasks : client[t].pc = "enqueued" => client[t].rec \in 1..Len(recs)
    BY RecsLen DEF TypeOK, ThreadsOK, ClientThreads
  <2>2. \A i \in 1..Len(recs) : recs'[i].task = recs[i].task
    BY DEF Writes
  <2> QED
    BY <1>1, <1>2, <2>1, <2>2 DEF KernelInv, ClientsTell, Open
<1>25. ApproverAlone'
  <2>1. \A a \in Approvers : approver[a].pc # "idle" => approver[a].rec \in 1..Len(recs)
    BY ApproverHolds
  <2> QED
    BY <1>1, <1>4, <1>5, <1>6, <1>9, <2>1 DEF KernelInv, ApproverAlone, r
<1>26. ResumesOpen'
  BY DEF KernelInv, ResumesOpen
<1>27. DurableSuccess'
  <2>1. checkpoint[own] # "SUCCEEDED"
    BY <1>1 DEF KernelInv, DurableSuccess, Open, Absent
  <2> QED
    BY <1>2, <2>1 DEF KernelInv, DurableSuccess
<1>28. LettersFinal'
  <2>1. Letter(own) => s = "FAILED" /\ worker'[w].pc = "commit" /\ worker'[w].line = "FAILED"
    BY LetterTasks DEF own
  <2>2. ASSUME NEW i \in 1..Len(dlq), NEW t, t = dlq[i]
        PROVE  t \in Tasks /\ (StateOf(t)' = "FAILED" \/ AboutToFail(t)') /\ registry'[t] \notin heap'
    <3>1. Letter(t)
      BY <2>2 DEF Letter
    <3>2. t \in Tasks /\ registry[t] \notin heap /\ (StateOf(t) = "FAILED" \/ AboutToFail(t))
      BY <3>1, LetterTasks
    <3>3. CASE t = own
      BY <1>2, <2>1, <3>1, <3>2, <3>3
    <3>4. CASE t # own /\ StateOf(t) = "FAILED"
      BY <1>2, <3>2, <3>4
    <3>5. CASE t # own /\ AboutToFail(t)
      <4>1. PICK v \in Workers : worker[v].pc = "lettered" /\ TaskAt(v) = t
        BY <3>5 DEF AboutToFail
      <4>2. worker'[v] = worker[v] /\ TaskAt(v)' = t
        BY <1>4, <1>9, <3>5, <4>1 DEF own, Busy
      <4>3. AboutToFail(t)'
        BY <4>1, <4>2 DEF AboutToFail
      <4> QED
        BY <3>2, <4>3
    <3> QED
      BY <3>2, <3>3, <3>4, <3>5
  <2>3. DeadLettersFinal'
    BY <2>2 DEF KernelInv, LettersFinal, DeadLettersFinal
  <2>4. ASSUME NEW i \in 1..Len(dlq), NEW v \in Workers, Busy(v)', TaskAt(v)' = dlq[i]
        PROVE  \/ worker'[v].pc = "lettered"
               \/ worker'[v].pc = "commit" /\ worker'[v].line = "FAILED"
    <3>1. Busy(v) /\ TaskAt(v) = dlq[i] /\ Letter(TaskAt(v))
      BY <1>4, <2>4 DEF Letter
    <3>2. CASE v = w
      BY <2>1, <3>1, <3>2 DEF own
    <3>3. CASE v # w
      BY <1>9, <3>1, <3>3 DEF KernelInv, LettersFinal
    <3> QED
      BY <3>2, <3>3
  <2> QED
    BY <2>3, <2>4 DEF LettersFinal
<1> QED
  BY <1>20, <1>21, <1>22, <1>23, <1>24, <1>25, <1>26, <1>27, <1>28 DEF KernelInv

(* One more letter, of a task that none is of. *)
LEMMA FilingKeepsLetters ==
    ASSUME TypeOK, KernelInv, RunnerInv, NEW w \in Workers, Busy(w), ~Letter(TaskAt(w)),
           dlq' = Append(dlq, TaskAt(w)), worker'[w].pc = "lettered",
           \A v \in Workers : v # w => worker'[v] = worker[v],
           \A v \in Workers : Busy(v)' = Busy(v) /\ TaskAt(v)' = TaskAt(v),
           \A t \in Tasks : StateOf(t)' = StateOf(t), UNCHANGED <<registry, heap>>
    PROVE  LettersFinal'
<1>0. PICK own : own = TaskAt(w)
  OBVIOUS
<1>1. dlq \in Seq(Tasks) /\ Len(dlq) \in Nat /\ own \in Tasks /\ registry[own] \notin heap
  <2>1. dlq \in Seq(Tasks) /\ Len(dlq) \in Nat
    BY LenProperties DEF TypeOK, RestOK
  <2> QED
    BY <1>0, <2>1, WorkerHolds
<1>2. ~Letter(own) /\ dlq' = Append(dlq, own) /\ AboutToFail(own)'
  BY <1>0 DEF AboutToFail, Busy
<1>3. \A v \in Workers : Busy(v) /\ TaskAt(v) = own => v = w
  BY <1>0 DEF RunnerInv, SingleRunner
<1>4. \A v \in Workers : Busy(v)' = Busy(v) /\ (TaskAt(v)' = own <=> TaskAt(v) = own)
  OBVIOUS
<1>5. /\ Len(dlq') = Len(dlq) + 1 /\ dlq'[Len(dlq) + 1] = own
      /\ \A i \in 1..Len(dlq) : dlq'[i] = dlq[i] /\ dlq[i] # own
      /\ \A i \in 1..Len(dlq') : i \in 1..Len(dlq) \/ i = Len(dlq) + 1
  BY <1>1, <1>2, AppendProperties DEF Letter
<1>6. ASSUME NEW i \in 1..Len(dlq), NEW t, t = dlq[i]
      PROVE  t \in Tasks /\ (StateOf(t)' = "FAILED" \/ AboutToFail(t)') /\ registry[t] \notin heap
  <2>1. Letter(t) /\ t # own
    BY <1>5, <1>6 DEF Letter
  <2>2. t \in Tasks /\ registry[t] \notin heap /\ (StateOf(t) = "FAILED" \/ AboutToFail(t))
    BY <2>1, LetterTasks
  <2>3. ASSUME AboutToFail(t) PROVE AboutToFail(t)'
    <3>1. PICK v \in Workers : worker[v].pc = "lettered" /\ TaskAt(v) = t
      BY <2>3 DEF AboutToFail
    <3> QED
      BY <1>0, <2>1, <3>1 DEF AboutToFail, Busy
  <2> QED
    BY <2>2, <2>3
<1>7. ASSUME NEW i \in 1..Len(dlq'), NEW t, t = dlq'[i]
      PROVE  (StateOf(t)' = "FAILED" \/ AboutToFail(t)') /\ registry'[t] \notin heap'
  <2>1. CASE i \in 1..Len(dlq)
    BY <1>5, <1>6, <1>7, <2>1
  <2>2. CASE t = own
    BY <1>1, <1>2, <2>2
  <2> QED
    BY <1>5, <1>7, <2>1, <2>2
<1>8. DeadLettersFinal'
  <2>1. \A i, j \in 1..Len(dlq') : i # j => dlq'[i] # dlq'[j]
    BY <1>5 DEF KernelInv, LettersFinal, DeadLettersFinal
  <2> QED
    BY <1>7, <2>1 DEF DeadLettersFinal
<1>9. ASSUME NEW i \in 1..Len(dlq'), NEW v \in Workers, Busy(v)', TaskAt(v)' = dlq'[i]
      PROVE  \/ worker'[v].pc = "lettered"
             \/ worker'[v].pc = "commit" /\ worker'[v].line = "FAILED"
  <2>1. CASE i \in 1..Len(dlq)
    <3>1. Busy(v) /\ TaskAt(v) = dlq[i] /\ TaskAt(v) # own
      BY <1>5, <1>9, <2>1
    <3>2. worker'[v] = worker[v]
      BY <1>0, <3>1
    <3> QED
      BY <2>1, <3>1, <3>2 DEF KernelInv, LettersFinal
  <2>2. CASE i = Len(dlq) + 1
    BY <1>3, <1>4, <1>5, <1>9, <2>2
  <2> QED
    BY <1>5, <1>9, <2>1, <2>2
<1> QED
  BY <1>8, <1>9 DEF LettersFinal

(* A worker goes on with the record it holds, or fails, or dies, or files    *)
(* its letter.                                                               *)
LEMMA MovingKeeps ==
    ASSUME TypeOK, RunnerInv, KernelInv, NEW w \in Workers,
           PolicyDeny(w) \/ Fail(w) \/ FileLetter(w)
    PROVE  KernelInv'
<1>1. /\ Busy(w) /\ worker[w].pc \notin {"commit", "lettered"}
      /\ UNCHANGED <<phase, toResume, recs, registry, heap, client, approver, poll, approvals,
                     checkpoint>>
  BY DEF PolicyDeny, Fail, FileLetter, OnlyThisWorker, Busy
<1>2. PICK pc \in {"dead", "backoff", "giveUp", "lettered"} :
        worker' = [worker EXCEPT ![w] = Thread(pc, worker[w].rec, NoLine)]
        /\ (FileLetter(w) => pc = "lettered")
  BY DEF PolicyDeny, Fail, FileLetter
<1>3. /\ worker'[w].rec = worker[w].rec /\ worker'[w].pc = pc
      /\ worker'[w].pc \in {"dead", "backoff", "giveUp", "lettered"}
      /\ \A v \in Workers : v # w => worker'[v] = worker[v]
  BY <1>2 DEF Thread, TypeOK, ThreadsOK
<1>4. \A v \in Workers : Busy(v)' = Busy(v) /\ TaskAt(v)' = TaskAt(v)
  BY <1>1, <1>3 DEF Busy, TaskAt
<1>5. IdleWhenDown' /\ HeapLatest' /\ SuccessLatest' /\ ClientsTell' /\ ResumesOpen' /\ DurableSuccess'
  <2>1. Up
    BY <1>1, WorkerHolds
  <2> QED
    BY <1>1, <1>4, <2>1 DEF KernelInv, IdleWhenDown, Up, HeapLatest, SuccessLatest, ClientsTell,
                            ResumesOpen, DurableSuccess, StateOf
<1>6. HoldsLatest'
  <2> SUFFICES ASSUME NEW v \in Workers, Busy(v)' PROVE Holds(v)'
    BY DEF HoldsLatest
  <2> QED
    BY <1>1, <1>3, <1>4 DEF KernelInv, HoldsLatest, Holds
<1>7. ApproverAlone'
  BY <1>1, <1>3, <1>4 DEF KernelInv, ApproverAlone
<1>8. ~Letter(TaskAt(w)) /\ \A t \in Tasks : StateOf(t)' = StateOf(t)
  BY <1>1, LetterTasks DEF StateOf
<1>9. LettersFinal'
  <2>1. CASE dlq' = dlq
    <3>1. \A t \in Tasks : Letter(t) => registry[t] \notin heap
      BY LetterTasks
    <3> QED
      BY <1>1, <1>3, <1>4, <1>8, <2>1, <3>1, LettersStand
  <2>2. CASE FileLetter(w)
    <3>1. dlq' = Append(dlq, TaskAt(w)) /\ worker'[w].pc = "lettered"
      BY <1>2, <1>3, <2>2 DEF FileLetter
    <3> QED
      BY <1>1, <1>3, <1>4, <1>8, <3>1, FilingKeepsLetters
  <2> QED
    BY <2>1, <2>2 DEF PolicyDeny, Fail, OnlyThisWorker
<1> QED
  BY <1>5, <1>6, <1>7, <1>9 DEF KernelInv

(* A worker writes its line, and goes on or lets go of the record.           *)
LEMMA CommitKeeps ==
    ASSUME TypeOK, RunnerInv, KernelInv, NEW w \in Workers, Commit(w)
    PROVE  KernelInv'
<1> DEFINE own == TaskAt(w)
           line == worker[w].line
<1>1. /\ Busy(w) /\ worker[w].pc \in {"commit", "startPlan", "startHandler"}
      /\ checkpoint' = [checkpoint EXCEPT ![own] = line]
      /\ UNCHANGED <<phase, toResume, recs, registry, heap, client, approver, poll, approvals, dlq>>
  BY DEF Commit, Busy
<1>2. /\ \A v \in Workers : v # w => worker'[v] = worker[v]
      /\ worker[w].pc = "startPlan" => worker'[w] = Thread("plan", worker[w].rec, NoLine)
      /\ worker[w].pc = "startHandler" => worker'[w] = Thread("handler", worker[w].rec, NoLine)
      /\ worker[w].pc = "commit" /\ line = "QUEUED" =>
            worker'[w] = Thread("requeue", worker[w].rec, NoLine)
      /\ worker[w].pc = "commit" /\ line # "QUEUED" => worker'[w] = IdleThread
  BY <1>1 DEF Commit, TypeOK, ThreadsOK
<1>3. /\ Up /\ own \in Tasks /\ registry[own] = worker[w].rec /\ registry[own] # 0
      /\ StateOf(own) = recs[worker[w].rec].state
  BY <1>1, WorkerHolds
<1>4. Holds(w) /\ own = recs[worker[w].rec].task
  BY <1>1 DEF KernelInv, HoldsLatest, TaskAt
<1>5. line \in TaskState
  BY <1>1 DEF TypeOK, ThreadsOK, WorkerThreads
<1>6. \A t \in Tasks : checkpoint'[t] = IF t = own THEN line ELSE checkpoint[t]
  BY <1>1 DEF TypeOK, RestOK
<1>7. \A v \in Workers : Busy(v)' => Busy(v) /\ TaskAt(v)' = TaskAt(v) /\ worker'[v].rec = worker[v].rec
  BY <1>1, <1>2 DEF Busy, TaskAt, Thread, IdleThread
<1>8. \A t \in Tasks : StateOf(t)' = StateOf(t)
  BY <1>1 DEF StateOf
<1> HIDE DEF own, line
<1>20. IdleWhenDown' /\ HeapLatest' /\ SuccessLatest'
  BY <1>1, <1>3 DEF KernelInv, IdleWhenDown, Up, HeapLatest, SuccessLatest
<1>21. HoldsLatest'
  <2> SUFFICES ASSUME NEW v \in Workers, Busy(v)' PROVE Holds(v)'
    BY DEF HoldsLatest
  <2>1. CASE v = w
    BY <1>1, <1>2, <1>4, <1>7, <2>1 DEF Holds, Busy, Thread, IdleThread, Open, line
  <2>2. CASE v # w
    BY <1>1, <1>2, <1>7, <2>2 DEF KernelInv, HoldsLatest, Holds
  <2> QED
    BY <2>1, <2>2
<1>22. ClientsTell' /\ ResumesOpen'
  BY <1>1, <1>3, <1>8 DEF KernelInv, ClientsTell, ResumesOpen, Up
<1>23. ApproverAlone'
  BY <1>1, <1>2, <1>7 DEF KernelInv, ApproverAlone, Thread, IdleThread, Busy, line
<1>24. DurableSuccess'
  <2>1. line = "SUCCEEDED" => StateOf(own) = "SUCCEEDED"
    BY <1>1, <1>3, <1>4 DEF Holds, line
  <2> QED
    BY <1>6, <1>8, <2>1 DEF KernelInv, DurableSuccess
<1>25. LettersFinal'
  <2>1. \A t \in Tasks : Letter(t) => registry[t] \notin heap
    BY LetterTasks
  <2>2. \A v \in Workers : Busy(v) /\ worker[v].pc = "lettered" =>
           worker'[v] = worker[v] /\ TaskAt(v)' = TaskAt(v)
    BY <1>1, <1>2 DEF TaskAt
  <2>3. ASSUME NEW v \in Workers, Busy(v)', Letter(TaskAt(v)')
        PROVE  Busy(v) /\ worker'[v] = worker[v] /\ TaskAt(v)' = TaskAt(v)
    <3>1. Busy(v) /\ TaskAt(v)' = TaskAt(v) /\ Letter(TaskAt(v))
      BY <1>7, <2>3
    <3>2. worker[v].pc = "lettered" \/ (worker[v].pc = "commit" /\ worker[v].line = "FAILED")
      BY <3>1, LetterTasks
    <3>3. v # w
      BY <1>1, <1>2, <2>3, <3>2 DEF Busy, IdleThread, Thread, line
    <3> QED
      BY <1>2, <3>1, <3>3
  <2> QED
    BY <1>1, <1>8, <2>1, <2>2, <2>3, LettersStand
<1> QED
  BY <1>20, <1>21, <1>22, <1>23, <1>24, <1>25 DEF KernelInv

-----------------------------------------------------------------------------
(* Entries leave the heap: dead ones, and the one a worker takes. *)
LEMMA ShrinkingKeeps ==
    ASSUME TypeOK, RunnerInv, KernelInv, Up, heap' \subseteq heap,
           \A v \in Workers : worker'[v] = worker[v] \/
              \E i \in heap : /\ Live(i) /\ i \notin heap' /\ ~Busy(v)
                              /\ worker'[v] = Thread("popped", registry[recs[i].task], NoLine),
           UNCHANGED <<phase, toResume, recs, registry, client, approver, poll, approvals, dlq,
                       checkpoint>>
    PROVE  KernelInv'
<1>1. \A i \in heap : i \in 1..Len(recs) /\ recs[i].task \in Tasks /\ registry[recs[i].task] = i
                      /\ StateOf(recs[i].task) = recs[i].state
  BY HeapRec DEF KernelInv, HeapLatest, StateOf
<1>2. ASSUME NEW v \in Workers, worker'[v] # worker[v]
      PROVE  \E i \in heap : /\ recs[i].state = "QUEUED" /\ i \notin heap' /\ ~Busy(v)
                             /\ worker'[v] = Thread("popped", i, NoLine)
                             /\ TaskAt(v)' = recs[i].task
  <2>1. PICK i \in heap :
          /\ Live(i) /\ i \notin heap' /\ ~Busy(v)
          /\ worker'[v] = Thread("popped", registry[recs[i].task], NoLine)
    BY <1>2
  <2>2. recs[i].state = "QUEUED" /\ worker'[v] = Thread("popped", i, NoLine)
    BY <1>1, <2>1 DEF Live
  <2>3. TaskAt(v)' = recs[i].task
    BY <2>2 DEF TaskAt, Thread
  <2> QED
    BY <2>1, <2>2, <2>3
<1>3. \A t \in Tasks : StateOf(t)' = StateOf(t)
  BY DEF StateOf
<1>4. \A v \in Workers : worker'[v] = worker[v] => TaskAt(v)' = TaskAt(v) /\ Busy(v)' = Busy(v)
  BY DEF TaskAt, Busy
<1>20. IdleWhenDown' /\ HeapLatest' /\ SuccessLatest'
  BY DEF KernelInv, IdleWhenDown, Up, HeapLatest, SuccessLatest
<1>21. HoldsLatest'
  <2> SUFFICES ASSUME NEW v \in Workers, Busy(v)' PROVE Holds(v)'
    BY DEF HoldsLatest
  <2>1. CASE worker'[v] = worker[v]
    BY <1>4, <2>1 DEF KernelInv, HoldsLatest, Holds
  <2>2. CASE worker'[v] # worker[v]
    <3>1. PICK i \in heap :
            /\ recs[i].state = "QUEUED" /\ worker'[v] = Thread("popped", i, NoLine)
            /\ TaskAt(v)' = recs[i].task
      BY <1>2, <2>2
    <3>2. worker'[v].pc = "popped" /\ worker'[v].rec = i /\ registry[recs[i].task] = i
      BY <1>1, <3>1 DEF Thread
    <3> QED
      BY <3>1, <3>2 DEF Holds, Open
  <2> QED
    BY <2>1, <2>2
<1>22. ClientsTell' /\ ResumesOpen' /\ DurableSuccess'
  BY <1>3 DEF KernelInv, ClientsTell, ResumesOpen, DurableSuccess
<1>23. ApproverAlone'
  <2> SUFFICES ASSUME NEW a \in Approvers, approver[a].pc # "idle",
                      NEW v \in Workers, Busy(v)', worker'[v].rec = approver[a].rec
               PROVE  worker'[v].pc = "commit" /\ worker'[v].line = "ESCALATED"
    BY DEF KernelInv, ApproverAlone
  <2>1. approver[a].rec \notin heap
    BY DEF KernelInv, ApproverAlone
  <2>2. \A i \in heap : worker'[v] # Thread("popped", i, NoLine)
    BY <2>1 DEF Thread
  <2>3. worker'[v] = worker[v]
    BY <1>2, <2>2
  <2> QED
    BY <1>4, <2>3 DEF KernelInv, ApproverAlone
<1>24. LettersFinal'
  <2>1. \A t \in Tasks : Letter(t) => registry[t] \notin heap
    BY LetterTasks
  <2>2. \A v \in Workers : Busy(v) => worker'[v] = worker[v] /\ TaskAt(v)' = TaskAt(v)
    BY <1>2, <1>4
  <2>3. ASSUME NEW v \in Workers, Busy(v)', Letter(TaskAt(v)')
        PROVE  Busy(v) /\ worker'[v] = worker[v] /\ TaskAt(v)' = TaskAt(v)
    <3>1. worker'[v] = worker[v]
      <4> SUFFICES ASSUME worker'[v] # worker[v] PROVE FALSE
        OBVIOUS
      <4>1. PICK i \in heap : TaskAt(v)' = recs[i].task
        BY <1>2
      <4> QED
        BY <1>1, <2>1, <2>3, <4>1
    <3> QED
      BY <1>4, <2>3, <3>1
  <2> QED
    BY <1>3, <2>1, <2>2, <2>3, LettersStand
<1> QED
  BY <1>20, <1>21, <1>22, <1>23, <1>24 DEF KernelInv

LEMMA TakingKeeps ==
    ASSUME TypeOK, RunnerInv, KernelInv, NEW w \in Workers, Pop(w) \/ PopNothing(w)
    PROVE  KernelInv'
<1>1. CASE Pop(w)
  <2>1. PICK i \in heap :
          /\ Runnable(i)
          /\ heap' = heap \ ({i} \cup {j \in heap : Before(j, i) /\ ~Live(j)})
          /\ worker' = [worker EXCEPT ![w] = Thread("popped", registry[recs[i].task], NoLine)]
    BY <1>1 DEF Pop
  <2>2. /\ Up /\ ~Busy(w)
        /\ UNCHANGED <<phase, toResume, recs, registry, client, approver, poll, approvals, dlq, checkpoint>>
    BY <1>1 DEF Pop, Busy
  <2>3. /\ worker'[w] = Thread("popped", registry[recs[i].task], NoLine)
        /\ \A v \in Workers : v # w => worker'[v] = worker[v]
    BY <2>1 DEF TypeOK, ThreadsOK
  <2>4. heap' \subseteq heap /\ i \notin heap' /\ \A j \in heap : Live(j) /\ j \notin heap' => j = i
    BY <2>1
  <2> QED
    BY <2>1, <2>2, <2>3, <2>4, ShrinkingKeeps DEF Runnable
<1>2. CASE PopNothing(w)
  <2>1. /\ Up /\ heap' \subseteq heap /\ \A i \in heap : Live(i) => i \in heap'
        /\ UNCHANGED <<phase, toResume, recs, registry, worker, client, approver, poll, approvals,
                       dlq, checkpoint>>
    BY <1>2 DEF PopNothing
  <2> QED
    BY <2>1, ShrinkingKeeps
<1> QED
  BY <1>1, <1>2

-----------------------------------------------------------------------------
(* A task that nobody holds and that has not succeeded is enqueued. *)
LEMMA EnteringKeeps ==
    ASSUME TypeOK, RunnerInv, KernelInv, NEW t \in Tasks, Enqueue(t), IdleWhenDown',
           StateOf(t) # "SUCCEEDED", checkpoint[t] # "SUCCEEDED",
           \A i \in heap : recs[i].task # t,
           \A i \in 1..Len(dlq) : dlq[i] # t,
           \A a \in Approvers : approver[a].pc # "idle" => recs[approver[a].rec].task # t,
           \A v \in Workers : \/ worker'[v] = worker[v] /\ (Busy(v) => TaskAt(v) # t)
                              \/ worker'[v] = IdleThread /\ (Busy(v) => TaskAt(v) = t),
           \A u \in Tasks : \/ client'[u] = client[u]
                            \/ u = t /\ client'[u] = Thread("enqueued", Len(recs) + 1, NoLine),
           toResume' = toResume \ {t},
           UNCHANGED <<phase, approver, poll, approvals, dlq, checkpoint>>
    PROVE  KernelInv'
<1> DEFINE n == Len(recs) + 1
<1>1. /\ Len(recs) \in Nat /\ Len(recs') = n /\ recs'[n].task = t /\ recs'[n].state = "QUEUED"
      /\ \A i \in 1..Len(recs) : recs'[i] = recs[i]
      /\ \A i \in 1..n : i = n \/ i \in 1..Len(recs)
  <2>1. Len(recs) \in Nat /\ Len(recs') = n /\ \A i \in 1..Len(recs) : recs'[i] = recs[i]
    BY RecsLen, EnqueueRecs
  <2>2. recs' = Append(recs, [task |-> t, state |-> "QUEUED", attempts |-> 0])
    BY DEF Enqueue
  <2>3. recs'[n] = [task |-> t, state |-> "QUEUED", attempts |-> 0]
    BY <2>2, RecsLen, AppendProperties DEF Records, TaskState
  <2> QED
    BY <2>1, <2>3
<1>2. /\ heap' = heap \cup {n} /\ heap \subseteq 1..Len(recs) /\ registry'[t] = n
      /\ \A u \in Tasks : u # t => registry'[u] = registry[u]
  BY DEF Enqueue, TypeOK, QueueOK
<1>3. ASSUME NEW u \in Tasks, u # t PROVE StateOf(u)' = StateOf(u)
  <2>1. registry[u] # 0 => registry[u] \in 1..Len(recs)
    BY Registered
  <2> QED
    BY <1>1, <1>2, <1>3, <2>1 DEF StateOf
<1>4. StateOf(t)' = "QUEUED"
  BY <1>1, <1>2 DEF StateOf
<1>5. ASSUME NEW v \in Workers, Busy(v)'
      PROVE  /\ Busy(v) /\ worker'[v] = worker[v] /\ worker[v].rec \in 1..Len(recs)
             /\ TaskAt(v)' = TaskAt(v) /\ TaskAt(v) \in Tasks /\ TaskAt(v) # t
  <2>1. Busy(v) /\ worker'[v] = worker[v]
    BY <1>5 DEF Busy, IdleThread, Thread
  <2>2. worker[v].rec \in 1..Len(recs) /\ TaskAt(v) \in Tasks
    BY <2>1, HeldTask
  <2> QED
    BY <1>1, <1>5, <2>1, <2>2 DEF TaskAt, Busy, IdleThread, Thread
<1> HIDE DEF n
<1>21. HoldsLatest'
  <2> SUFFICES ASSUME NEW v \in Workers, Busy(v)' PROVE Holds(v)'
    BY DEF HoldsLatest
  <2>1. Holds(v) /\ recs'[worker[v].rec] = recs[worker[v].rec]
    BY <1>1, <1>5 DEF KernelInv, HoldsLatest
  <2> QED
    BY <1>2, <1>5, <2>1 DEF Holds
<1>22. HeapLatest'
  <2> SUFFICES ASSUME NEW i \in heap'
               PROVE  registry'[recs'[i].task] = i /\ recs'[i].state \in {"QUEUED", "CANCELLED"}
    BY DEF HeapLatest
  <2>1. CASE i = n
    BY <1>1, <1>2, <2>1
  <2>2. CASE i \in heap
    <3>1. recs'[i] = recs[i] /\ recs[i].task \in Tasks
      BY <1>1, <2>2, HeapRec
    <3> QED
      BY <1>2, <2>2, <3>1 DEF KernelInv, HeapLatest
  <2> QED
    BY <1>2, <2>1, <2>2
<1>23. SuccessLatest'
  <2> SUFFICES ASSUME NEW i \in 1..n, recs'[i].state = "SUCCEEDED" PROVE registry'[recs'[i].task] = i
    BY <1>1 DEF SuccessLatest
  <2>1. i \in 1..Len(recs) /\ recs'[i] = recs[i]
    BY <1>1
  <2>2. registry[recs[i].task] = i /\ recs[i].task \in Tasks
    BY <2>1, RecAt DEF KernelInv, SuccessLatest
  <2>3. recs[i].task # t
    BY <1>1, <2>1, <2>2 DEF StateOf
  <2> QED
    BY <1>2, <2>1, <2>2, <2>3
<1>24. ClientsTell'
  <2> SUFFICES ASSUME NEW u \in Tasks
               PROVE  /\ client'[u].pc = "enqueued" => registry'[u] # 0 /\ recs'[client'[u].rec].task = u
                      /\ client'[u].pc = "commit" =>
                           /\ registry'[u] # 0 \/ client'[u].line = "FAILED"
                           /\ client'[u].line = "SUCCEEDED" => StateOf(u)' = "SUCCEEDED"
    BY DEF ClientsTell
  <2>1. CASE client'[u] = client[u]
    <3>1. client[u].pc = "enqueued" => client[u].rec \in 1..Len(recs)
      BY RecsLen DEF TypeOK, ThreadsOK, ClientThreads
    <3>2. registry[u] # 0 => registry'[u] # 0
      BY <1>1, <1>2 DEF n
    <3>3. client[u].pc = "enqueued" => recs'[client[u].rec] = recs[client[u].rec]
      BY <1>1, <3>1
    <3>4. client[u].pc = "commit" /\ client[u].line = "SUCCEEDED" => StateOf(u)' = "SUCCEEDED"
      BY <1>3 DEF KernelInv, ClientsTell
    <3> QED
      BY <2>1, <3>2, <3>3, <3>4 DEF KernelInv, ClientsTell
  <2>2. CASE u = t /\ client'[u] = Thread("enqueued", Len(recs) + 1, NoLine)
    <3>1. client'[u].pc = "enqueued" /\ client'[u].rec = n
      BY <2>2 DEF Thread, n
    <3>2. registry'[u] = n /\ n # 0 /\ recs'[n].task = u
      BY <1>1, <1>2, <2>2 DEF n
    <3> QED
      BY <3>1, <3>2
  <2> QED
    BY <2>1, <2>2
<1>25. ApproverAlone'
  <2> SUFFICES ASSUME NEW a \in Approvers, approver[a].pc # "idle", NEW r, r = approver[a].rec
               PROVE  /\ registry'[recs'[r].task] = r
                      /\ recs'[r].state \in {"ESCALATED", "QUEUED", "CANCELLED"}
                      /\ approver[a].pc = "commit" => approver[a].line \in {"QUEUED", "CANCELLED"}
                      /\ r \notin heap'
                      /\ \A v \in Workers : Busy(v)' /\ worker'[v].rec = r =>
                            worker'[v].pc = "commit" /\ worker'[v].line = "ESCALATED"
    BY DEF ApproverAlone
  <2>1. r \in 1..Len(recs) /\ recs'[r] = recs[r] /\ recs[r].task \in Tasks /\ recs[r].task # t
    BY <1>1, ApproverHolds
  <2>2. r \notin heap' /\ registry'[recs[r].task] = registry[recs[r].task]
    BY <1>1, <1>2, <2>1 DEF KernelInv, ApproverAlone, n
  <2> QED
    BY <1>5, <2>1, <2>2 DEF KernelInv, ApproverAlone
<1>26. ResumesOpen'
  BY <1>2 DEF KernelInv, ResumesOpen, TypeOK, RestOK
<1>27. DurableSuccess'
  BY <1>3, <1>4 DEF KernelInv, DurableSuccess
<1>28. LettersFinal'
  <2>1. ~Letter(t)
    BY DEF Letter
  <2>2. ASSUME NEW u \in Tasks, Letter(u)
        PROVE  StateOf(u)' = StateOf(u) /\ registry'[u] \notin heap'
    <3>1. u # t /\ registry[u] \in 0..Len(recs) /\ registry[u] \notin heap
      BY <2>1, <2>2, LetterTasks DEF TypeOK, QueueOK
    <3> QED
      BY <1>1, <1>2, <1>3, <3>1 DEF n
  <2>3. ASSUME NEW v \in Workers, Busy(v), Letter(TaskAt(v))
        PROVE  worker'[v] = worker[v] /\ TaskAt(v)' = TaskAt(v)
    <3>1. worker'[v] = worker[v]
      BY <2>1, <2>3
    <3> QED
      BY <1>5, <2>3, <3>1 DEF Busy
  <2> QED
    BY <1>5, <2>2, <2>3, LettersStand
<1> QED
  BY <1>21, <1>22, <1>23, <1>24, <1>25, <1>26, <1>27, <1>28 DEF KernelInv

LEMMA RequeuingKeeps ==
    ASSUME TypeOK, RunnerInv, KernelInv, NEW w \in Workers, Requeue(w)
    PROVE  KernelInv'
<1> DEFINE own == TaskAt(w)
<1>1. /\ Busy(w) /\ worker[w].pc = "requeue" /\ Enqueue(own)
      /\ worker' = [worker EXCEPT ![w] = IdleThread]
      /\ UNCHANGED <<phase, toResume, client, approver, poll, approvals, dlq, checkpoint>>
  BY DEF Requeue, Busy
<1>2. /\ Up /\ own \in Tasks /\ own = recs[worker[w].rec].task /\ registry[own] = worker[w].rec
      /\ StateOf(own) \in Open
  BY <1>1, WorkerHolds DEF TaskAt
<1>3. StateOf(own) # "SUCCEEDED" /\ checkpoint[own] # "SUCCEEDED"
  BY <1>2 DEF Open, Absent, KernelInv, DurableSuccess
<1>4. \A i \in heap : recs[i].task # own
  BY <1>1 DEF RunnerInv, HeapFree
<1>5. \A i \in 1..Len(dlq) : dlq[i] # own
  BY <1>1, LetterTasks DEF Letter
<1>6. \A a \in Approvers : approver[a].pc # "idle" => recs[approver[a].rec].task # own
  BY <1>1, <1>2 DEF KernelInv, ApproverAlone
<1>7. \A v \in Workers : \/ worker'[v] = worker[v] /\ (Busy(v) => TaskAt(v) # own)
                         \/ worker'[v] = IdleThread /\ (Busy(v) => TaskAt(v) = own)
  BY <1>1 DEF TypeOK, ThreadsOK, RunnerInv, SingleRunner
<1>8. IdleWhenDown' /\ toResume' = toResume \ {own}
  BY <1>1, <1>2 DEF IdleWhenDown, Up
<1> QED
  BY <1>1, <1>2, <1>3, <1>4, <1>5, <1>6, <1>7, <1>8, EnteringKeeps

LEMMA ResumingKeeps ==
    ASSUME TypeOK, RunnerInv, KernelInv, NEW t \in Tasks, Resume(t)
    PROVE  KernelInv'
<1>1. /\ t \in toResume /\ Enqueue(t) /\ toResume' = toResume \ {t} /\ ~Up
      /\ UNCHANGED <<phase, worker, client, approver, poll, approvals, dlq, checkpoint>>
  BY DEF Resume, Up
<1>2. /\ dlq = <<>> /\ Len(dlq) = 0
      /\ \A a \in Approvers : approver[a].pc = "idle"
      /\ \A w \in Workers : ~Busy(w)
  BY <1>1, EmptySeq DEF KernelInv, IdleWhenDown
<1>3. checkpoint[t] # "SUCCEEDED" /\ StateOf(t) # "SUCCEEDED"
  BY <1>1 DEF KernelInv, ResumesOpen, StateOf, Absent
<1>4. \A i \in heap : recs[i].task # t
  BY <1>1 DEF RunnerInv, ResumeFree
<1>5. IdleWhenDown'
  BY <1>1 DEF KernelInv, IdleWhenDown, Busy
<1> QED
  BY <1>1, <1>2, <1>3, <1>4, <1>5, EnteringKeeps

LEMMA SubmissionKeeps ==
    ASSUME EarlySubmit = FALSE, TypeOK, RunnerInv, KernelInv, NEW t \in Tasks, SubmitEnqueue(t)
    PROVE  KernelInv'
<1>1. /\ client[t].pc = "new" /\ Up
      /\ UNCHANGED <<phase, toResume, worker, approver, poll, approvals, dlq, checkpoint>>
  BY DEF SubmitEnqueue
<1>2. checkpoint[t] = Absent /\ \A i \in 1..Len(recs) : recs[i].task # t
  BY <1>1 DEF RunnerInv, NewFree
<1>3. StateOf(t) = Absent
  BY <1>2, Registered, Unregistered
<1>4. CASE Enqueue(t) /\ client' = [client EXCEPT ![t] = Thread("enqueued", Len(recs) + 1, NoLine)]
  <2>1. \A i \in heap : recs[i].task # t
    BY <1>2, HeapRec
  <2>4. \A v \in Workers : Busy(v) => TaskAt(v) # t
    BY <1>2, HeldTask DEF TaskAt
  <2>2. \A i \in 1..Len(dlq) : dlq[i] # t
    BY <1>3, <2>4, LetterTasks DEF Letter, AboutToFail, Busy, Absent
  <2>3. \A a \in Approvers : approver[a].pc # "idle" => recs[approver[a].rec].task # t
    BY <1>2, ApproverHolds
  <2>5. \A u \in Tasks : \/ client'[u] = client[u]
                         \/ u = t /\ client'[u] = Thread("enqueued", Len(recs) + 1, NoLine)
    BY <1>4 DEF TypeOK, ThreadsOK
  <2>6. IdleWhenDown' /\ toResume' = toResume \ {t}
    BY <1>1 DEF IdleWhenDown, Up
  <2> QED
    BY <1>1, <1>2, <1>3, <1>4, <2>1, <2>2, <2>3, <2>4, <2>5, <2>6, EnteringKeeps DEF Absent
<1>5. CASE UNCHANGED <<recs, registry, heap>>
           /\ client' = [client EXCEPT ![t] = Thread("commit", 0, "FAILED")]
  <2>1. \A u \in Tasks : \/ client'[u] = client[u]
                         \/ u = t /\ client'[u].pc = "commit" /\ client'[u].line = "FAILED"
    BY <1>5 DEF Thread, TypeOK, ThreadsOK
  <2>2. IdleWhenDown' /\ HoldsLatest' /\ HeapLatest' /\ SuccessLatest' /\ ApproverAlone'
    BY <1>1, <1>5 DEF KernelInv, IdleWhenDown, Up, HoldsLatest, Holds, HeapLatest, SuccessLatest,
                      ApproverAlone, Busy, TaskAt
  <2>3. \A u \in Tasks : StateOf(u)' = StateOf(u)
    BY <1>5 DEF StateOf
  <2>4. ClientsTell'
    BY <1>5, <2>1, <2>3 DEF KernelInv, ClientsTell
  <2>5. ResumesOpen' /\ DurableSuccess'
    BY <1>1, <1>5, <2>1, <2>3 DEF KernelInv, ResumesOpen, DurableSuccess
  <2>6. LettersFinal'
    BY <1>1, <1>5 DEF KernelInv, LettersFinal, DeadLettersFinal, AboutToFail, StateOf, Busy, TaskAt
  <2> QED
    BY <2>2, <2>4, <2>5, <2>6 DEF KernelInv
<1> QED
  BY <1>4, <1>5 DEF SubmitEnqueue

(* The caller builds its line, and then writes it. *)
LEMMA SubmitterKeeps ==
    ASSUME TypeOK, RunnerInv, KernelInv, NEW t \in Tasks, SubmitLine(t) \/ SubmitWrite(t)
    PROVE  KernelInv'
<1>1. /\ Up /\ toResume = {}
      /\ UNCHANGED <<phase, toResume, recs, registry, heap, worker, approver, poll, approvals, dlq>>
  BY DEF SubmitLine, SubmitWrite, KernelInv, IdleWhenDown, Up
<1>2. \A u \in Tasks : StateOf(u)' = StateOf(u)
  BY <1>1 DEF StateOf
<1>3. IdleWhenDown' /\ HoldsLatest' /\ HeapLatest' /\ SuccessLatest' /\ ApproverAlone' /\ ResumesOpen'
  BY <1>1 DEF KernelInv, IdleWhenDown, Up, HoldsLatest, Holds, HeapLatest, SuccessLatest,
              ApproverAlone, ResumesOpen, Busy, TaskAt
<1>4. LettersFinal'
  BY <1>1 DEF KernelInv, LettersFinal, DeadLettersFinal, AboutToFail, StateOf, Busy, TaskAt
<1>5. CASE SubmitLine(t)
  <2> DEFINE r == client[t].rec
  <2>1. client[t].pc = "enqueued" /\ client' = [client EXCEPT ![t] = Thread("commit", r, recs[r].state)]
        /\ UNCHANGED checkpoint
    BY <1>5 DEF SubmitLine
  <2>2. r \in 1..Len(recs) /\ recs[r].task = t /\ registry[t] # 0
    BY <2>1, RecsLen DEF KernelInv, ClientsTell, TypeOK, ThreadsOK, ClientThreads
  <2>3. recs[r].state = "SUCCEEDED" => StateOf(t) = "SUCCEEDED"
    BY <2>2 DEF KernelInv, SuccessLatest, StateOf
  <2>4. \A u \in Tasks : client'[u] = IF u = t THEN Thread("commit", r, recs[r].state) ELSE client[u]
    BY <2>1 DEF TypeOK, ThreadsOK
  <2>5. ClientsTell'
    BY <1>1, <1>2, <2>2, <2>3, <2>4 DEF KernelInv, ClientsTell, Thread
  <2>6. DurableSuccess'
    BY <1>1, <1>2, <2>1, <2>4 DEF KernelInv, DurableSuccess, Thread
  <2> QED
    BY <1>3, <1>4, <2>5, <2>6 DEF KernelInv
<1>6. CASE SubmitWrite(t)
  <2> DEFINE line == client[t].line
  <2>1. /\ client[t].pc = "commit" /\ client' = [client EXCEPT ![t] = Thread("done", 0, NoLine)]
        /\ checkpoint' = [checkpoint EXCEPT ![t] = line]
    BY <1>6 DEF SubmitWrite
  <2>2. /\ line \in TaskState /\ (registry[t] # 0 \/ line = "FAILED")
        /\ line = "SUCCEEDED" => StateOf(t) = "SUCCEEDED"
    BY <2>1 DEF KernelInv, ClientsTell, TypeOK, ThreadsOK, ClientThreads
  <2>3. \A u \in Tasks : /\ client'[u] = IF u = t THEN Thread("done", 0, NoLine) ELSE client[u]
                         /\ checkpoint'[u] = IF u = t THEN line ELSE checkpoint[u]
    BY <2>1 DEF TypeOK, ThreadsOK, RestOK
  <2>4. ClientsTell'
    BY <1>1, <1>2, <2>3 DEF KernelInv, ClientsTell, Thread
  <2>5. DurableSuccess'
    BY <1>2, <2>2, <2>3 DEF KernelInv, DurableSuccess
  <2> QED
    BY <1>3, <1>4, <2>4, <2>5 DEF KernelInv
<1> QED
  BY <1>5, <1>6

-----------------------------------------------------------------------------
(* Decisions. *)

(* An approver takes the record of an escalated task. *)
LEMMA DecidingKeeps ==
    ASSUME TypeOK, RunnerInv, KernelInv, Up, NEW a \in Approvers, NEW t \in Tasks,
           NEW act \in {"approve", "reject"}, Decide(a, t, act), IdleWhenDown',
           UNCHANGED <<phase, toResume, recs, registry, heap, worker, client, approvals, dlq, checkpoint>>
    PROVE  KernelInv'
<1> DEFINE r == registry[t]
<1>1. /\ approver'[a] = Thread(act, r, NoLine)
      /\ \A b \in Approvers : b # a => approver'[b] = approver[b]
  BY DEF Decide, TypeOK, ThreadsOK
<1>2. r \in 1..Len(recs) /\ recs[r].task = t /\ recs[r].state = "ESCALATED"
  BY Registered DEF Decide, StateOf, Absent
<1>3. r \notin heap
  BY <1>2 DEF KernelInv, HeapLatest
<1>4. \A w \in Workers : Busy(w) /\ worker[w].rec = r =>
         worker[w].pc = "commit" /\ worker[w].line = "ESCALATED"
  BY <1>2 DEF KernelInv, HoldsLatest, Holds, Open
<1>5. ApproverAlone'
  <2> SUFFICES ASSUME NEW b \in Approvers, approver'[b].pc # "idle", NEW q, q = approver'[b].rec
               PROVE  /\ registry[recs[q].task] = q
                      /\ recs[q].state \in {"ESCALATED", "QUEUED", "CANCELLED"}
                      /\ approver'[b].pc = "commit" => approver'[b].line \in {"QUEUED", "CANCELLED"}
                      /\ q \notin heap
                      /\ \A w \in Workers : Busy(w) /\ worker[w].rec = q =>
                            worker[w].pc = "commit" /\ worker[w].line = "ESCALATED"
    BY DEF ApproverAlone, Busy
  <2>1. CASE b = a
    BY <1>1, <1>2, <1>3, <1>4, <2>1 DEF Thread
  <2>2. CASE b # a
    BY <1>1, <2>2 DEF KernelInv, ApproverAlone
  <2> QED
    BY <2>1, <2>2
<1>6. HoldsLatest' /\ HeapLatest' /\ SuccessLatest' /\ ClientsTell' /\ ResumesOpen'
  BY DEF KernelInv, HoldsLatest, Holds, HeapLatest, SuccessLatest, ClientsTell, ResumesOpen, Busy,
         TaskAt, StateOf
<1>7. DurableSuccess' /\ LettersFinal'
  BY DEF KernelInv, DurableSuccess, LettersFinal, DeadLettersFinal, AboutToFail, StateOf,
         Busy, TaskAt
<1> QED
  BY <1>5, <1>6, <1>7 DEF KernelInv

LEMMA DecisionKeeps ==
    ASSUME TypeOK, RunnerInv, KernelInv,
           PollDecide \/ \E t \in Tasks, act \in {"approve", "reject"} : ThroneDecide(t, act)
    PROVE  KernelInv'
<1>1. UNCHANGED <<phase, toResume, recs, registry, heap, worker, client, approvals, dlq, checkpoint>>
  BY DEF PollDecide, ThroneDecide, OnlyPoller
<1>2. Up
  BY DEF PollDecide, ThroneDecide, KernelInv, IdleWhenDown
<1>3. IdleWhenDown'
  BY <1>1, <1>2 DEF IdleWhenDown, Up
<1>4. CASE PollDecide
  <2>1. "poller" \in Approvers /\ poll.batch \in Seq(DecisionLines) /\ poll.batch # <<>>
    BY <1>4 DEF PollDecide, TypeOK, RestOK
  <2>2. Head(poll.batch) \in DecisionLines
    BY <2>1, HeadTailProperties
  <2>3. Head(poll.batch).task \in Tasks
    BY <2>2 DEF DecisionLines
  <2> QED
    BY <1>1, <1>2, <1>3, <1>4, <2>1, <2>3, DecidingKeeps DEF PollDecide
<1>5. CASE \E t \in Tasks, act \in {"approve", "reject"} : ThroneDecide(t, act)
  BY <1>1, <1>2, <1>3, <1>5, DecidingKeeps DEF ThroneDecide
<1> QED
  BY <1>4, <1>5

(* The decision changes the state of the record. *)
LEMMA ApplyingKeeps ==
    ASSUME TypeOK, RunnerInv, KernelInv, NEW a \in Approvers, ApplyDecision(a)
    PROVE  KernelInv'
<1> DEFINE r == approver[a].rec
           own == recs[r].task
<1>1. PICK s \in {"QUEUED", "CANCELLED"} :
        SetState(r, s) /\ approver' = [approver EXCEPT ![a] = Thread("commit", r, s)]
  BY DEF ApplyDecision
<1>2. /\ approver[a].pc # "idle" /\ approvals' = approvals \cup {own}
      /\ UNCHANGED <<phase, toResume, registry, heap, worker, client, poll, dlq, checkpoint>>
  BY DEF ApplyDecision
<1>3. /\ Up /\ r \in 1..Len(recs) /\ own \in Tasks /\ registry[own] = r /\ r \notin heap
      /\ StateOf(own) = recs[r].state /\ recs[r].state \in {"ESCALATED", "QUEUED", "CANCELLED"}
      /\ \A w \in Workers : Busy(w) /\ worker[w].rec = r =>
            worker[w].pc = "commit" /\ worker[w].line = "ESCALATED"
  BY <1>2, ApproverHolds DEF KernelInv, ApproverAlone
<1>4. Writes(r, s)
  BY <1>1, <1>3, SetStateWrites DEF TaskState
<1>5. \A t \in Tasks : StateOf(t)' = IF t = own THEN s ELSE StateOf(t)
  BY <1>2, <1>3, <1>4, StatesAfter DEF TaskState
<1>6. \A v \in Workers : Busy(v)' = Busy(v) /\ (Busy(v) => TaskAt(v)' = TaskAt(v))
  BY <1>2, <1>4, HeldTask DEF TaskAt, Writes, Busy
<1>7. /\ Len(recs') = Len(recs) /\ recs'[r].state = s
      /\ \A i \in 1..Len(recs) : recs'[i].task = recs[i].task /\ (i # r => recs'[i].state = recs[i].state)
  BY <1>3, <1>4 DEF Writes
<1>8. /\ approver'[a] = Thread("commit", r, s)
      /\ \A b \in Approvers : b # a => approver'[b] = approver[b]
  BY <1>1 DEF TypeOK, ThreadsOK
<1>9. \A i \in heap : i \in 1..Len(recs)
  BY HeapRec
<1> HIDE DEF r, own
<1>20. IdleWhenDown'
  BY <1>2, <1>3 DEF IdleWhenDown, Up
<1>21. HoldsLatest'
  <2> SUFFICES ASSUME NEW v \in Workers, Busy(v)' PROVE Holds(v)'
    BY DEF HoldsLatest
  <2>1. Holds(v) /\ Busy(v) /\ worker[v].rec \in 1..Len(recs) /\ TaskAt(v)' = TaskAt(v)
    BY <1>6, HeldTask DEF KernelInv, HoldsLatest
  <2>2. CASE worker[v].rec = r
    <3>1. TaskAt(v) = own
      BY <2>2 DEF TaskAt, own
    <3> QED
      BY <1>2, <1>3, <1>7, <2>1, <2>2, <3>1 DEF Holds
  <2>3. CASE worker[v].rec # r
    BY <1>2, <1>7, <2>1, <2>3 DEF Holds
  <2> QED
    BY <2>2, <2>3
<1>22. HeapLatest' /\ SuccessLatest'
  BY <1>1, <1>2, <1>3, <1>7, <1>9 DEF KernelInv, HeapLatest, SuccessLatest
<1>23. ClientsTell'
  <2>1. \A t \in Tasks : client[t].pc = "enqueued" => client[t].rec \in 1..Len(recs)
    BY RecsLen DEF TypeOK, ThreadsOK, ClientThreads
  <2> QED
    BY <1>2, <1>3, <1>5, <1>7, <2>1 DEF KernelInv, ClientsTell
<1>24. ApproverAlone'
  <2> SUFFICES ASSUME NEW b \in Approvers, approver'[b].pc # "idle", NEW q, q = approver'[b].rec
               PROVE  /\ registry[recs'[q].task] = q
                      /\ recs'[q].state \in {"ESCALATED", "QUEUED", "CANCELLED"}
                      /\ approver'[b].pc = "commit" => approver'[b].line \in {"QUEUED", "CANCELLED"}
                      /\ q \notin heap
                      /\ \A w \in Workers : Busy(w)' /\ worker'[w].rec = q =>
                            worker'[w].pc = "commit" /\ worker'[w].line = "ESCALATED"
    BY <1>2 DEF ApproverAlone
  <2>1. CASE b = a
    BY <1>1, <1>2, <1>3, <1>6, <1>7, <1>8, <2>1 DEF Thread, own
  <2>2. CASE b # a
    <3>1. approver[b].pc # "idle" /\ q = approver[b].rec /\ q \in 1..Len(recs)
      BY <1>8, <2>2, ApproverHolds
    <3> QED
      BY <1>1, <1>2, <1>6, <1>7, <1>8, <2>2, <3>1 DEF KernelInv, ApproverAlone
  <2> QED
    BY <2>1, <2>2
<1>25. ResumesOpen'
  BY <1>2 DEF KernelInv, ResumesOpen
<1>26. DurableSuccess'
  BY <1>2, <1>3, <1>5 DEF KernelInv, DurableSuccess, Absent
<1>27. LettersFinal'
  <2>1. ~Letter(own)
    <3>1. ~AboutToFail(own)
      <4> SUFFICES ASSUME NEW v \in Workers, worker[v].pc = "lettered", TaskAt(v) = own PROVE FALSE
        BY DEF AboutToFail
      <4>1. worker[v].rec = r
        BY <1>3, WorkerHolds DEF Busy
      <4> QED
        BY <1>3, <4>1 DEF Busy
    <3> QED
      BY <1>3, <3>1, LetterTasks
  <2>2. \A t \in Tasks : Letter(t) => StateOf(t)' = StateOf(t) /\ registry'[t] \notin heap'
    BY <1>2, <1>5, <2>1, LetterTasks
  <2> QED
    BY <1>2, <1>6, <2>2, LettersStand
<1> QED
  BY <1>20, <1>21, <1>22, <1>23, <1>24, <1>25, <1>26, <1>27 DEF KernelInv

LEMMA DecidedKeeps ==
    ASSUME TypeOK, RunnerInv, KernelInv, NEW a \in Approvers, CommitDecision(a)
    PROVE  KernelInv'
<1> DEFINE own == recs[approver[a].rec].task
           line == approver[a].line
<1>1. /\ approver[a].pc = "commit" /\ checkpoint' = [checkpoint EXCEPT ![own] = line]
      /\ approver' = [approver EXCEPT ![a] = IdleThread]
      /\ UNCHANGED <<phase, toResume, recs, registry, heap, worker, client, poll, approvals, dlq>>
  BY DEF CommitDecision
<1>2. /\ Up /\ own \in Tasks /\ registry[own] = approver[a].rec /\ registry[own] # 0
      /\ line \in {"QUEUED", "CANCELLED"}
  BY <1>1, ApproverHolds DEF KernelInv, ApproverAlone
<1>3. /\ \A t \in Tasks : checkpoint'[t] = IF t = own THEN line ELSE checkpoint[t]
      /\ \A b \in Approvers : approver'[b] = approver[b] \/ approver'[b].pc = "idle"
  BY <1>1 DEF TypeOK, RestOK, ThreadsOK, IdleThread, Thread
<1>4. \A t \in Tasks : StateOf(t)' = StateOf(t)
  BY <1>1 DEF StateOf
<1> HIDE DEF own, line
<1>5. IdleWhenDown' /\ HoldsLatest' /\ HeapLatest' /\ SuccessLatest' /\ ResumesOpen'
  BY <1>1, <1>2 DEF KernelInv, IdleWhenDown, Up, HoldsLatest, Holds, HeapLatest, SuccessLatest,
                    ResumesOpen, Busy, TaskAt
<1>6. ClientsTell'
  BY <1>1, <1>4 DEF KernelInv, ClientsTell
<1>7. ApproverAlone'
  BY <1>1, <1>3 DEF KernelInv, ApproverAlone, Busy
<1>8. DurableSuccess'
  BY <1>1, <1>2, <1>3, <1>4 DEF KernelInv, DurableSuccess, Absent
<1>9. LettersFinal'
  BY <1>1 DEF KernelInv, LettersFinal, DeadLettersFinal, AboutToFail, StateOf, Busy, TaskAt
<1> QED
  BY <1>5, <1>6, <1>7, <1>8, <1>9 DEF KernelInv

-----------------------------------------------------------------------------
(* The poller looks at the file, and a decision line is written. *)
LEMMA LookingKeeps ==
    ASSUME KernelInv, \/ PollStat \/ PollRead \/ PollDrop \/ PollDone \/ UNCHANGED vars
                      \/ \E t \in Tasks, act \in Action : WriteDecision(t, act)
    PROVE  KernelInv'
<1>1. UNCHANGED <<phase, toResume, recs, registry, heap, worker, client, approver, approvals, dlq,
                  checkpoint>>
  BY DEF PollStat, PollRead, PollDrop, PollDone, OnlyPoller, WriteDecision, volatile, vars
<1>2. Up \/ poll' = poll
  BY DEF PollStat, PollRead, PollDrop, PollDone, WriteDecision, volatile, vars, KernelInv, IdleWhenDown
<1>3. IdleWhenDown'
  BY <1>1, <1>2 DEF KernelInv, IdleWhenDown, Up, Busy
<1>4. HoldsLatest' /\ HeapLatest' /\ SuccessLatest' /\ ClientsTell' /\ ApproverAlone' /\ ResumesOpen'
  BY <1>1 DEF KernelInv, HoldsLatest, Holds, HeapLatest, SuccessLatest, ClientsTell, ApproverAlone,
              ResumesOpen, Busy, TaskAt, StateOf
<1>5. DurableSuccess' /\ LettersFinal'
  BY <1>1 DEF KernelInv, DurableSuccess, LettersFinal, DeadLettersFinal, AboutToFail, StateOf,
         Busy, TaskAt
<1> QED
  BY <1>3, <1>4, <1>5 DEF KernelInv

-----------------------------------------------------------------------------
(* The end of one process and the beginning of the next. *)
LEMMA StartingKeeps == TypeOK /\ RunnerInv /\ KernelInv /\ Start => KernelInv'
<1> SUFFICES ASSUME TypeOK, RunnerInv, KernelInv, Start PROVE KernelInv'
  OBVIOUS
<1>1. /\ phase = "down" /\ toResume' = {t \in Tasks : checkpoint[t] \in TaskState \ Terminal}
      /\ UNCHANGED <<recs, registry, heap, worker, client, approver, poll, approvals, dlq, checkpoint>>
  BY DEF Start
<1>2. Len(recs) = 0 /\ \A t \in Tasks : registry[t] = 0
  BY <1>1, EmptySeq DEF RunnerInv, DownFree, TypeOK, QueueOK
<1>3. IdleWhenDown'
  BY <1>1 DEF KernelInv, IdleWhenDown, Up, Busy
<1>4. HoldsLatest' /\ HeapLatest' /\ SuccessLatest' /\ ClientsTell' /\ ApproverAlone'
  BY <1>1 DEF KernelInv, HoldsLatest, Holds, HeapLatest, SuccessLatest, ClientsTell, ApproverAlone,
              Busy, TaskAt, StateOf
<1>5. ResumesOpen'
  BY <1>1, <1>2 DEF ResumesOpen, TaskState, Terminal
<1>6. DurableSuccess' /\ LettersFinal'
  BY <1>1 DEF KernelInv, DurableSuccess, LettersFinal, DeadLettersFinal, AboutToFail, StateOf,
         Busy, TaskAt
<1> QED
  BY <1>3, <1>4, <1>5, <1>6 DEF KernelInv

LEMMA NothingInHand ==
    ASSUME recs = <<>>, \A t \in Tasks : registry[t] = 0, heap = {}, toResume = {}, dlq = <<>>,
           \A w \in Workers : ~Busy(w), \A a \in Approvers : approver[a].pc = "idle", poll.pc = "idle",
           \A t \in Tasks : client[t].pc \notin {"enqueued", "commit"}, phase = "down"
    PROVE  KernelInv
<1>1. Len(recs) = 0 /\ Len(dlq) = 0 /\ \A t \in Tasks : StateOf(t) = Absent
  BY EmptySeq DEF StateOf
<1>2. IdleWhenDown /\ HoldsLatest /\ HeapLatest /\ SuccessLatest
  BY <1>1 DEF IdleWhenDown, HoldsLatest, HeapLatest, SuccessLatest
<1>3. ClientsTell /\ ApproverAlone /\ ResumesOpen /\ DurableSuccess
  BY <1>1 DEF ClientsTell, ApproverAlone, ResumesOpen, DurableSuccess
<1>4. LettersFinal
  BY <1>1 DEF LettersFinal, DeadLettersFinal, Absent
<1> QED
  BY <1>2, <1>3, <1>4 DEF KernelInv

LEMMA CrashingKeeps == KernelInv /\ Crash => KernelInv'
<1> SUFFICES ASSUME KernelInv, Crash PROVE KernelInv'
  OBVIOUS
<1>1. /\ Len(recs') = 0 /\ Len(dlq') = 0 /\ heap' = {} /\ toResume' = {} /\ dlq' = <<>>
      /\ phase' = "down" /\ UNCHANGED checkpoint
      /\ \A t \in Tasks : registry'[t] = 0
  BY EmptySeq DEF Crash
<1>2. /\ \A w \in Workers : ~Busy(w)'
      /\ \A a \in Approvers : approver'[a].pc = "idle"
      /\ poll'.pc = "idle"
      /\ \A t \in Tasks : client'[t].pc \notin {"enqueued", "commit"}
  BY DEF Crash, IdleThread, Thread, IdlePoller, Busy
<1>3. \A t \in Tasks : StateOf(t)' = Absent
  BY <1>1 DEF StateOf
<1>4. IdleWhenDown' /\ HoldsLatest' /\ HeapLatest' /\ SuccessLatest'
  BY <1>1, <1>2 DEF IdleWhenDown, HoldsLatest, HeapLatest, SuccessLatest
<1>5. ClientsTell' /\ ApproverAlone' /\ ResumesOpen' /\ DurableSuccess'
  BY <1>1, <1>2, <1>3 DEF ClientsTell, ApproverAlone, ResumesOpen, DurableSuccess
<1>6. LettersFinal'
  BY <1>1, <1>2, <1>3 DEF KernelInv, LettersFinal, DeadLettersFinal, Absent
<1> QED
  BY <1>4, <1>5, <1>6 DEF KernelInv

LEMMA KernelInit == Init => KernelInv
<1> SUFFICES ASSUME Init PROVE KernelInv
  OBVIOUS
<1>1. /\ \A w \in Workers : ~Busy(w)
      /\ \A a \in Approvers : approver[a].pc = "idle"
      /\ poll.pc = "idle"
      /\ \A t \in Tasks : client[t].pc = "new"
  BY DEF Init, IdleThread, Thread, IdlePoller, Busy
<1> QED
  BY <1>1, NothingInHand DEF Init

(* The steps in which a worker marks its record. *)
LEMMA MarkingSteps ==
    ASSUME TypeOK, NEW w \in Workers,
           \/ GateEscalate(w) \/ OracleEscalate(w) \/ Succeed(w) \/ HandlerEscalate(w) \/ Retry(w)
           \/ StartPlan(w) \/ StartHandler(w) \/ DeadLetter(w)
    PROVE  \E s \in TaskState : Marks(w, s)
<1>1. Busy(w) /\ worker[w].pc # "commit" /\ worker[w].rec \in 1..Len(recs)
  <2>1. worker[w].pc \notin {"idle", "commit"}
    BY DEF GateEscalate, OracleEscalate, Succeed, HandlerEscalate, Retry, StartPlan, StartHandler, DeadLetter
  <2> QED
    BY <2>1, HeldRec DEF Busy
<1>2. UNCHANGED <<phase, toResume, registry, heap, client, approver, poll, approvals, dlq, checkpoint>>
  BY DEF GateEscalate, OracleEscalate, Succeed, HandlerEscalate, Retry, StartPlan, StartHandler,
         DeadLetter, OnlyThisWorker
<1>3. CASE \/ GateEscalate(w) \/ OracleEscalate(w) \/ Succeed(w) \/ HandlerEscalate(w)
           \/ Retry(w) \/ DeadLetter(w)
  <2>1. PICK s \in {"SUCCEEDED", "FAILED", "QUEUED", "ESCALATED"} :
          Mark(w, s) /\ (worker[w].pc = "lettered" => s = "FAILED")
    BY <1>3 DEF GateEscalate, OracleEscalate, Succeed, HandlerEscalate, Retry, DeadLetter, OnlyThisWorker
  <2>2. s \in TaskState
    BY DEF TaskState
  <2>3. Writes(worker[w].rec, s)
    BY <1>1, <2>1, <2>2, SetStateWrites DEF Mark
  <2>4. /\ worker'[w] = Thread("commit", worker[w].rec, s)
        /\ \A v \in Workers : v # w => worker'[v] = worker[v]
    BY <2>1 DEF Mark, TypeOK, ThreadsOK
  <2>5. Marks(w, s)
    BY <1>1, <1>2, <2>1, <2>3, <2>4 DEF Marks, Thread
  <2> QED
    BY <2>2, <2>5
<1>4. CASE StartPlan(w) \/ StartHandler(w)
  <2>1. worker[w].pc # "lettered" /\ \E pc \in {"startPlan", "startHandler"} : MarkRunning(w, pc)
    BY <1>4 DEF StartPlan, StartHandler
  <2>2. Writes(worker[w].rec, "RUNNING")
    BY <1>1, <2>1, MarkRunningWrites DEF Busy
  <2>3. /\ \E pc \in {"startPlan", "startHandler"} : worker'[w] = Thread(pc, worker[w].rec, "RUNNING")
        /\ \A v \in Workers : v # w => worker'[v] = worker[v]
    BY <2>1 DEF MarkRunning, TypeOK, ThreadsOK
  <2>4. Marks(w, "RUNNING") /\ "RUNNING" \in TaskState
    BY <1>1, <1>2, <2>1, <2>2, <2>3 DEF Marks, Thread, TaskState
  <2> QED
    BY <2>4
<1> QED
  BY <1>3, <1>4

(* Where nobody is to cancel, nobody cancels. *)
LEMMA NobodyCancels ==
    ASSUME MaxCancels = 0, TypeOK
    PROVE  (\A t \in Tasks : ~CancelTest(t)) /\ ~CancelWrite
BY DEF CancelTest, CancelWrite, TypeOK, QueueOK, RestOK

LEMMA KernelNext ==
    ASSUME EarlySubmit = FALSE, MaxCancels = 0
    PROVE  TypeOK /\ RunnerInv /\ KernelInv /\ [Next]_vars => KernelInv'
<1> SUFFICES ASSUME TypeOK, RunnerInv, KernelInv, [Next]_vars PROVE KernelInv'
  OBVIOUS
<1>1. ASSUME NEW w \in Workers, WorkerStep(w) PROVE KernelInv'
  BY <1>1, MarkingSteps, MarkingKeeps, MovingKeeps, CommitKeeps, TakingKeeps, RequeuingKeeps
     DEF WorkerStep
<1>2. ASSUME NEW t \in Tasks, ClientStep(t) \/ Resume(t) PROVE KernelInv'
  BY <1>2, SubmissionKeeps, SubmitterKeeps, ResumingKeeps DEF ClientStep
<1>3. CASE PollerStep \/ \E t \in Tasks, act \in {"approve", "reject"} : ThroneDecide(t, act)
  BY <1>3, DecisionKeeps, LookingKeeps DEF PollerStep
<1>4. CASE \E a \in Approvers : ApplyDecision(a) \/ CommitDecision(a)
  BY <1>4, ApplyingKeeps, DecidedKeeps
<1>5. CASE Start \/ Crash
  BY <1>5, StartingKeeps, CrashingKeeps
<1>6. CASE UNCHANGED vars \/ \E t \in Tasks, act \in Action : WriteDecision(t, act)
  BY <1>6, LookingKeeps
<1> QED
  BY <1>1, <1>2, <1>3, <1>4, <1>5, <1>6, NobodyCancels DEF Next

(* If nothing is submitted before start and, as in this repository, nobody   *)
(* calls TaskQueue.cancel, the records, the heap, the threads and the        *)
(* checkpoint agree on every task, whatever fails, crashes and is decided.   *)
THEOREM KernelInvariant == (EarlySubmit = FALSE /\ MaxCancels = 0) => (Spec => []KernelInv)
<1> SUFFICES ASSUME EarlySubmit = FALSE, MaxCancels = 0 PROVE Spec => []KernelInv
  OBVIOUS
<1>1. TypeOK /\ RunnerInv /\ KernelInv /\ [Next]_vars => KernelInv'
  BY KernelNext
<1>2. Spec => []RunnerInv
  BY RunnerInvariant
<1> QED
  BY <1>1, <1>2, KernelInit, TypeCorrect, PTL DEF Spec

(* Then what the checkpoint calls a success is one: no record of its task    *)
(* is anything else, in this process or after a restart.                     *)
THEOREM SuccessEndures == (EarlySubmit = FALSE /\ MaxCancels = 0) => (Spec => []DurableSuccess)
<1>1. KernelInv => DurableSuccess
  BY DEF KernelInv
<1> QED
  BY <1>1, KernelInvariant, PTL

(* And recovery.py files one letter for a task, which is FAILED or about to  *)
(* be marked so by the worker that filed it, and in the heap no more.        *)
THEOREM DeadLettersStay == (EarlySubmit = FALSE /\ MaxCancels = 0) => (Spec => []DeadLettersFinal)
<1>1. KernelInv => DeadLettersFinal
  BY DEF KernelInv, LettersFinal
<1> QED
  BY <1>1, KernelInvariant, PTL

-----------------------------------------------------------------------------
(* What needs no discipline about when submit is called: the registry points *)
(* at records of their tasks, no task is lost, and whatever is QUEUED is in  *)
(* the heap, in hand or approved.                                            *)

(* A record that is QUEUED can be with a worker that has yet to mark it, is  *)
(* backing off, is about to write that it is QUEUED again, or has died.      *)
Waiting == {"popped", "dead", "backoff", "giveUp", "requeue", "lettered"}
Keeps(w) == worker[w].pc \in Waiting \/ (worker[w].pc = "commit" /\ worker[w].line = "QUEUED")
Found(t) ==
    \/ registry[t] \in heap
    \/ \E w \in Workers : Keeps(w) /\ worker[w].rec = registry[t]
    \/ t \in approvals
QueuedFound == \A t \in Tasks : StateOf(t) = "QUEUED" => Found(t)

(* Every task with a record is registered; a caller that returned has left   *)
(* a record or a line.                                                       *)
RecordsKnown == \A i \in 1..Len(recs) : registry[recs[i].task] # 0
ClientsKnown == \A t \in Tasks :
    /\ client[t].pc = "enqueued" => registry[t] # 0
    /\ client[t].pc = "commit" => registry[t] # 0 \/ client[t].line = "FAILED"
    /\ client[t].pc = "done" => checkpoint[t] # Absent
AccountInv == RegistryTasks /\ QueuedFound /\ RecordsKnown /\ ClientsKnown /\ NoTaskLost

(* A step that leaves the registry and the records' tasks alone. *)
LEMMA SameTasksKeep ==
    ASSUME TypeOK, AccountInv, UNCHANGED registry, Len(recs') = Len(recs), SameTasks
    PROVE  RegistryTasks' /\ RecordsKnown'
<1>1. \A t \in Tasks : registry[t] # 0 => registry[t] \in 1..Len(recs)
  BY RecsLen DEF TypeOK, QueueOK
<1> QED
  BY <1>1 DEF AccountInv, RegistryTasks, RecordsKnown, SameTasks

(* One record changes its state, and with QUEUED there is a worker or an     *)
(* approver that accounts for it.                                            *)
LEMMA WritingAccounts ==
    ASSUME TypeOK, AccountInv, NEW r \in 1..Len(recs), NEW s \in TaskState, Writes(r, s),
           UNCHANGED <<registry, heap>>, approvals \subseteq approvals',
           \A v \in Workers : Keeps(v) =>
              \/ Keeps(v)' /\ worker'[v].rec = worker[v].rec
              \/ worker[v].rec = r /\ s # "QUEUED",
           s = "QUEUED" => \/ recs[r].task \in approvals'
                           \/ \E w \in Workers : Keeps(w)' /\ worker'[w].rec = r
    PROVE  RegistryTasks' /\ RecordsKnown' /\ QueuedFound'
<1>1. RegistryTasks' /\ RecordsKnown'
  BY SameTasksKeep DEF Writes, SameTasks
<1>2. QueuedFound'
  <2> SUFFICES ASSUME NEW t \in Tasks, StateOf(t)' = "QUEUED" PROVE Found(t)'
    BY DEF QueuedFound
  <2>1. StateOf(t)' = IF registry[t] = r THEN s ELSE StateOf(t)
    BY StatesWritten
  <2>2. CASE registry[t] = r
    <3>1. s = "QUEUED" /\ recs[r].task = t
      BY <2>1, <2>2 DEF AccountInv, RegistryTasks
    <3> QED
      BY <2>2, <3>1 DEF Found
  <2>3. CASE registry[t] # r
    <3>1. Found(t)
      BY <2>1, <2>3 DEF AccountInv, QueuedFound
    <3> QED
      BY <2>3, <3>1 DEF Found
  <2> QED
    BY <2>2, <2>3
<1> QED
  BY <1>1, <1>2

(* No record changes. *)
LEMMA IdlingAccounts ==
    ASSUME TypeOK, AccountInv, UNCHANGED <<recs, registry, heap>>, approvals \subseteq approvals',
           \A v \in Workers : Keeps(v) => Keeps(v)' /\ worker'[v].rec = worker[v].rec
    PROVE  RegistryTasks' /\ RecordsKnown' /\ QueuedFound'
<1>1. RegistryTasks' /\ RecordsKnown'
  BY SameTasksKeep DEF SameTasks
<1>2. QueuedFound'
  BY DEF AccountInv, QueuedFound, StateOf, Found
<1> QED
  BY <1>1, <1>2

(* A task is enqueued, and a worker may let go of a record of that task. *)
LEMMA EnteringAccounts ==
    ASSUME TypeOK, AccountInv, NEW t \in Tasks, Enqueue(t), UNCHANGED approvals,
           \A v \in Workers : Keeps(v) =>
              \/ Keeps(v)' /\ worker'[v].rec = worker[v].rec
              \/ worker[v].rec \in 1..Len(recs) /\ recs[worker[v].rec].task = t
    PROVE  RegistryTasks' /\ RecordsKnown' /\ QueuedFound'
<1> DEFINE n == Len(recs) + 1
<1>1. /\ Len(recs) \in Nat /\ Len(recs') = n /\ recs'[n].task = t
      /\ \A i \in 1..Len(recs) : recs'[i] = recs[i]
  BY RecsLen, EnqueueRecs
<1>2. /\ heap' = heap \cup {n} /\ registry'[t] = n
      /\ \A u \in Tasks : u # t => registry'[u] = registry[u]
  BY DEF Enqueue, TypeOK, QueueOK
<1>3. \A u \in Tasks : registry[u] \in 0..Len(recs)
  BY DEF TypeOK, QueueOK
<1>4. \A u \in Tasks : u # t => StateOf(u)' = StateOf(u)
  BY <1>1, <1>2, <1>3 DEF StateOf
<1> HIDE DEF n
<1>5. RegistryTasks'
  <2> SUFFICES ASSUME NEW u \in Tasks, registry'[u] # 0 PROVE recs'[registry'[u]].task = u
    BY DEF RegistryTasks
  <2>1. CASE u = t
    BY <1>1, <1>2, <2>1
  <2>2. CASE u # t
    BY <1>1, <1>2, <1>3, <2>2 DEF AccountInv, RegistryTasks
  <2> QED
    BY <2>1, <2>2
<1>6. RecordsKnown'
  <2> SUFFICES ASSUME NEW i \in 1..n PROVE registry'[recs'[i].task] # 0
    BY <1>1 DEF RecordsKnown
  <2>1. CASE i = n
    BY <1>1, <1>2, <2>1 DEF n
  <2>2. CASE i # n
    <3>1. i \in 1..Len(recs) /\ recs'[i] = recs[i]
      BY <1>1, <2>2 DEF n
    <3>2. recs[i].task \in Tasks /\ registry[recs[i].task] # 0
      BY <3>1, RecAt DEF AccountInv, RecordsKnown
    <3> QED
      BY <1>1, <1>2, <3>1, <3>2 DEF n
  <2> QED
    BY <2>1, <2>2
<1>7. QueuedFound'
  <2> SUFFICES ASSUME NEW u \in Tasks, StateOf(u)' = "QUEUED" PROVE Found(u)'
    BY DEF QueuedFound
  <2>1. CASE u = t
    BY <1>2, <2>1 DEF Found
  <2>2. CASE u # t
    <3>1. Found(u) /\ registry'[u] = registry[u] /\ registry[u] # 0
      BY <1>2, <1>4, <2>2 DEF AccountInv, QueuedFound, StateOf, Absent
    <3>2. recs[registry[u]].task = u
      BY <3>1 DEF AccountInv, RegistryTasks
    <3> QED
      BY <1>2, <2>2, <3>1, <3>2 DEF Found
  <2> QED
    BY <2>1, <2>2
<1> QED
  BY <1>5, <1>6, <1>7

(* The heap loses dead entries, and one that a worker takes. *)
LEMMA TakingAccounts ==
    ASSUME TypeOK, AccountInv, NEW w \in Workers, Pop(w) \/ PopNothing(w)
    PROVE  RegistryTasks' /\ RecordsKnown' /\ QueuedFound'
<1>1. UNCHANGED <<recs, registry, approvals>> /\ worker[w].pc = "idle"
  BY DEF Pop, PopNothing
<1>2. RegistryTasks' /\ RecordsKnown'
  BY <1>1, SameTasksKeep DEF SameTasks
<1>3. ASSUME NEW t \in Tasks, StateOf(t) = "QUEUED", registry[t] \in heap \ heap'
      PROVE  worker'[w] = Thread("popped", registry[t], NoLine)
  <2>1. recs[registry[t]].task = t /\ Live(registry[t])
    BY <1>3 DEF AccountInv, RegistryTasks, StateOf, Absent, Live
  <2>2. CASE Pop(w)
    <3>1. PICK i \in heap :
            /\ heap' = heap \ ({i} \cup {j \in heap : Before(j, i) /\ ~Live(j)})
            /\ worker' = [worker EXCEPT ![w] = Thread("popped", registry[recs[i].task], NoLine)]
      BY <2>2 DEF Pop
    <3>2. i = registry[t]
      BY <1>3, <2>1, <3>1
    <3> QED
      BY <2>1, <3>1, <3>2 DEF TypeOK, ThreadsOK
  <2>3. CASE PopNothing(w)
    BY <1>3, <2>1, <2>3 DEF PopNothing
  <2> QED
    BY <2>2, <2>3
<1>4. \A v \in Workers : v # w => worker'[v] = worker[v]
  BY DEF Pop, PopNothing, TypeOK, ThreadsOK
<1>5. QueuedFound'
  <2> SUFFICES ASSUME NEW t \in Tasks, StateOf(t) = "QUEUED" PROVE Found(t)'
    BY <1>1 DEF QueuedFound, StateOf
  <2>1. CASE registry[t] \in heap \ heap'
    <3>1. worker'[w] = Thread("popped", registry[t], NoLine)
      BY <1>3, <2>1
    <3> QED
      BY <1>1, <3>1 DEF Found, Keeps, Waiting, Thread
  <2>2. CASE \E v \in Workers : Keeps(v) /\ worker[v].rec = registry[t]
    <3>1. PICK v \in Workers : Keeps(v) /\ worker[v].rec = registry[t]
      BY <2>2
    <3>2. v # w
      BY <1>1, <3>1 DEF Keeps, Waiting
    <3> QED
      BY <1>1, <1>4, <3>1, <3>2 DEF Found, Keeps
  <2>3. Found(t)
    BY DEF AccountInv, QueuedFound
  <2> QED
    BY <1>1, <2>1, <2>2, <2>3 DEF Found
<1> QED
  BY <1>2, <1>5

LEMMA WorkerAccounts ==
    ASSUME TypeOK, AccountInv, NEW w \in Workers, WorkerStep(w)
    PROVE  RegistryTasks' /\ RecordsKnown' /\ QueuedFound'
<1>1. CASE Pop(w) \/ PopNothing(w)
  BY <1>1, TakingAccounts
<1>2. CASE PolicyDeny(w) \/ Fail(w) \/ FileLetter(w) \/ Commit(w)
  <2>1. UNCHANGED <<recs, registry, heap, approvals>>
    BY <1>2 DEF PolicyDeny, Fail, FileLetter, Commit, OnlyThisWorker
  <2>2. \A v \in Workers : v # w => worker'[v] = worker[v]
    BY <1>2 DEF PolicyDeny, Fail, FileLetter, Commit, TypeOK, ThreadsOK
  <2>3. Keeps(w) => Keeps(w)' /\ worker'[w].rec = worker[w].rec
    <3>1. CASE PolicyDeny(w)
      BY <3>1 DEF PolicyDeny, Keeps, Waiting, Thread, TypeOK, ThreadsOK
    <3>2. CASE Fail(w) \/ FileLetter(w)
      BY <3>2 DEF Fail, FileLetter, Keeps, Waiting, Thread, TypeOK, ThreadsOK
    <3>3. CASE Commit(w)
      BY <3>3 DEF Commit, Keeps, Waiting, Thread, TypeOK, ThreadsOK
    <3> QED
      BY <1>2, <3>1, <3>2, <3>3
  <2> QED
    BY <2>1, <2>2, <2>3, IdlingAccounts DEF Keeps
<1>3. CASE \/ GateEscalate(w) \/ OracleEscalate(w) \/ Succeed(w) \/ HandlerEscalate(w) \/ Retry(w)
           \/ StartPlan(w) \/ StartHandler(w) \/ DeadLetter(w)
  <2>1. PICK s \in TaskState : Marks(w, s)
    BY <1>3, MarkingSteps
  <2>2. worker[w].rec \in 1..Len(recs)
    BY <2>1, HeldRec DEF Marks, Busy
  <2>3. ASSUME s = "QUEUED" PROVE Keeps(w)' /\ worker'[w].rec = worker[w].rec
    BY <2>1, <2>3 DEF Marks, Keeps
  <2>4. \A v \in Workers : v # w => (Keeps(v) => Keeps(v)' /\ worker'[v].rec = worker[v].rec)
    BY <2>1 DEF Marks, Keeps
  <2>5. Writes(worker[w].rec, s) /\ UNCHANGED <<registry, heap, approvals>>
    BY <2>1 DEF Marks
  <2> QED
    BY <2>2, <2>3, <2>4, <2>5, WritingAccounts
<1>4. CASE Requeue(w)
  <2>1. /\ Enqueue(TaskAt(w)) /\ UNCHANGED approvals /\ Busy(w)
        /\ \A v \in Workers : v # w => worker'[v] = worker[v]
    BY <1>4 DEF Requeue, Busy, TypeOK, ThreadsOK
  <2>2. worker[w].rec \in 1..Len(recs) /\ TaskAt(w) \in Tasks
    BY <2>1, HeldTask
  <2>3. \A v \in Workers : Keeps(v) =>
              \/ Keeps(v)' /\ worker'[v].rec = worker[v].rec
              \/ worker[v].rec \in 1..Len(recs) /\ recs[worker[v].rec].task = TaskAt(w)
    BY <2>1, <2>2 DEF Keeps, TaskAt
  <2> QED
    BY <2>1, <2>2, <2>3, EnteringAccounts
<1> QED
  BY <1>1, <1>2, <1>3, <1>4 DEF WorkerStep

LEMMA OthersAccount ==
    ASSUME TypeOK, AccountInv, [Next]_vars, \A w \in Workers : ~WorkerStep(w)
    PROVE  RegistryTasks' /\ RecordsKnown' /\ QueuedFound'
<1>1. CASE \E t \in Tasks : SubmitEnqueue(t) \/ Resume(t)
  <2>1. PICK t \in Tasks : SubmitEnqueue(t) \/ Resume(t)
    BY <1>1
  <2>2. UNCHANGED <<worker, approvals>>
    BY <2>1 DEF SubmitEnqueue, Resume
  <2>3. CASE Enqueue(t)
    BY <2>2, <2>3, EnteringAccounts DEF Keeps
  <2>4. CASE UNCHANGED <<recs, registry, heap>>
    BY <2>2, <2>4, IdlingAccounts DEF Keeps
  <2> QED
    BY <2>1, <2>3, <2>4 DEF SubmitEnqueue, Resume
<1>2. CASE \E a \in Approvers : ApplyDecision(a)
  <2>1. PICK a \in Approvers : ApplyDecision(a)
    BY <1>2
  <2>2. approver[a].rec \in 1..Len(recs)
    BY <2>1, RecsLen DEF ApplyDecision, TypeOK, ThreadsOK, ApproverThreads
  <2>3. PICK s \in TaskState : SetState(approver[a].rec, s)
    BY <2>1 DEF ApplyDecision, TaskState
  <2>4. /\ approvals' = approvals \cup {recs[approver[a].rec].task}
        /\ UNCHANGED <<registry, heap, worker>>
    BY <2>1 DEF ApplyDecision
  <2>5. Writes(approver[a].rec, s)
    BY <2>2, <2>3, SetStateWrites
  <2> QED
    BY <2>2, <2>4, <2>5, WritingAccounts DEF Keeps
<1>3. CASE CancelWrite
  <2>1. Writes(canceller, "CANCELLED") /\ canceller \in 1..Len(recs) /\ "CANCELLED" \in TaskState
    BY <1>3, Cancelling, SetStateWrites DEF TaskState
  <2>2. UNCHANGED <<registry, heap, worker, approvals>>
    BY <1>3 DEF CancelWrite
  <2> QED
    BY <2>1, <2>2, WritingAccounts DEF Keeps
<1>4. CASE Crash
  <2>1. Len(recs') = 0 /\ \A t \in Tasks : registry'[t] = 0
    BY <1>4, EmptySeq DEF Crash
  <2> QED
    BY <2>1 DEF RegistryTasks, RecordsKnown, QueuedFound, StateOf, Absent
<1>5. CASE \/ PollerStep \/ Start \/ UNCHANGED vars
           \/ \E t \in Tasks : SubmitLine(t) \/ SubmitWrite(t) \/ CancelTest(t)
           \/ \E t \in Tasks, act \in {"approve", "reject"} : ThroneDecide(t, act)
           \/ \E t \in Tasks, act \in Action : WriteDecision(t, act)
           \/ \E a \in Approvers : CommitDecision(a)
  <2>1. UNCHANGED <<recs, registry, heap, worker, approvals>>
    BY <1>5 DEF PollerStep, PollStat, PollRead, PollDecide, PollDrop, PollDone, OnlyPoller, Start,
                vars, SubmitLine, SubmitWrite, CancelTest, ThroneDecide, WriteDecision, volatile, CommitDecision
  <2> QED
    BY <2>1, IdlingAccounts DEF Keeps
<1> QED
  BY <1>1, <1>2, <1>3, <1>4, <1>5 DEF Next, ClientStep

(* No line is written about a task of which there is no record, unless by    *)
(* its caller: the lines of the others stay.                                 *)
LEMMA LinesStay ==
    ASSUME TypeOK, AccountInv, [Next]_vars, NEW t \in Tasks, registry[t] = 0,
           client[t].pc \notin {"enqueued", "commit"}
    PROVE  checkpoint'[t] = checkpoint[t]
<1>1. \A i \in 1..Len(recs) : recs[i].task # t
  BY DEF AccountInv, RecordsKnown
<1>2. ASSUME NEW w \in Workers, WorkerStep(w) PROVE checkpoint'[t] = checkpoint[t]
  <2>1. CASE Commit(w)
    <3>1. TaskAt(w) # t /\ checkpoint' = [checkpoint EXCEPT ![TaskAt(w)] = worker[w].line]
      BY <1>1, <2>1, HeldTask DEF Commit, Busy, TaskAt
    <3> QED
      BY <3>1 DEF TypeOK, RestOK
  <2>2. CASE ~Commit(w)
    BY <1>2, <2>2 DEF WorkerStep, Pop, PopNothing, PolicyDeny, GateEscalate, OracleEscalate, StartPlan,
                      StartHandler, Succeed, HandlerEscalate, Fail, Retry, Requeue, FileLetter, DeadLetter,
                      OnlyThisWorker
  <2> QED
    BY <2>1, <2>2
<1>3. CASE \E a \in Approvers : CommitDecision(a)
  <2>1. PICK a \in Approvers : CommitDecision(a)
    BY <1>3
  <2>2. approver[a].rec \in 1..Len(recs)
    BY <2>1, RecsLen DEF CommitDecision, TypeOK, ThreadsOK, ApproverThreads
  <2> QED
    BY <1>1, <2>1, <2>2 DEF CommitDecision, TypeOK, RestOK
<1>4. CASE \E u \in Tasks : SubmitWrite(u)
  BY <1>4 DEF SubmitWrite, TypeOK, RestOK
<1>5. CASE \/ PollerStep \/ CancelWrite \/ Start \/ Crash \/ UNCHANGED vars
           \/ \E u \in Tasks : SubmitEnqueue(u) \/ SubmitLine(u) \/ Resume(u) \/ CancelTest(u)
           \/ \E u \in Tasks, act \in {"approve", "reject"} : ThroneDecide(u, act)
           \/ \E u \in Tasks, act \in Action : WriteDecision(u, act)
           \/ \E a \in Approvers : ApplyDecision(a)
  BY <1>5 DEF PollerStep, CancelWrite, PollStat, PollRead, PollDecide, PollDrop, PollDone, OnlyPoller, Start, vars,
              Crash, SubmitEnqueue, SubmitLine, Resume, CancelTest, ThroneDecide, WriteDecision, volatile,
              ApplyDecision
<1> QED
  BY <1>2, <1>3, <1>4, <1>5 DEF Next, ClientStep

(* A task stays registered until the process dies, and only start and        *)
(* submit bring one in. *)
LEMMA RegistryStays ==
    ASSUME TypeOK, [Next]_vars, ~Crash, NEW t \in Tasks
    PROVE  /\ registry[t] # 0 => registry'[t] # 0
           /\ t \in toResume => t \in toResume' \/ registry'[t] # 0 \/ Start
<1>1. ASSUME NEW u \in Tasks, Enqueue(u)
      PROVE  /\ registry[t] # 0 => registry'[t] # 0
             /\ registry'[u] # 0
  BY <1>1, RecsLen DEF Enqueue, TypeOK, QueueOK
<1>2. ASSUME NEW w \in Workers, WorkerStep(w)
      PROVE  /\ registry[t] # 0 => registry'[t] # 0
             /\ UNCHANGED toResume
  <2>1. CASE Requeue(w)
    BY <1>1, <2>1, HeldTask DEF Requeue, Busy
  <2>2. CASE ~Requeue(w)
    BY <1>2, <2>2 DEF WorkerStep, Pop, PopNothing, PolicyDeny, GateEscalate, OracleEscalate, StartPlan,
                      StartHandler, Commit, Succeed, HandlerEscalate, Fail, Retry, FileLetter, DeadLetter,
                      OnlyThisWorker
  <2> QED
    BY <2>1, <2>2
<1>3. CASE \E u \in Tasks : SubmitEnqueue(u) \/ Resume(u)
  BY <1>1, <1>3 DEF SubmitEnqueue, Resume
<1>4. CASE Start
  BY <1>4 DEF Start
<1>5. CASE \/ PollerStep \/ CancelWrite \/ UNCHANGED vars
           \/ \E u \in Tasks : SubmitLine(u) \/ SubmitWrite(u) \/ CancelTest(u)
           \/ \E u \in Tasks, act \in {"approve", "reject"} : ThroneDecide(u, act)
           \/ \E u \in Tasks, act \in Action : WriteDecision(u, act)
           \/ \E a \in Approvers : ApplyDecision(a) \/ CommitDecision(a)
  BY <1>5 DEF PollerStep, CancelWrite, PollStat, PollRead, PollDecide, PollDrop, PollDone, OnlyPoller, vars,
              SubmitLine, SubmitWrite, CancelTest, ThroneDecide, WriteDecision, volatile, ApplyDecision,
              CommitDecision
<1> QED
  BY <1>2, <1>3, <1>4, <1>5 DEF Next, ClientStep

LEMMA PhaseStays == [Next]_vars /\ ~Start /\ ~Crash => phase' = phase
<1> SUFFICES ASSUME [Next]_vars, ~Start, ~Crash PROVE phase' = phase
  OBVIOUS
<1>1. ASSUME NEW w \in Workers, WorkerStep(w) PROVE phase' = phase
  BY <1>1 DEF WorkerStep, Pop, PopNothing, PolicyDeny, GateEscalate, OracleEscalate, StartPlan,
              StartHandler, Commit, Succeed, HandlerEscalate, Fail, Retry, Requeue, FileLetter, DeadLetter,
              OnlyThisWorker
<1>2. ASSUME NEW t \in Tasks, ClientStep(t) \/ CancelTest(t) \/ Resume(t) PROVE phase' = phase
  BY <1>2 DEF ClientStep, SubmitEnqueue, SubmitLine, SubmitWrite, CancelTest, Resume
<1>3. CASE \/ PollerStep \/ CancelWrite \/ UNCHANGED vars
           \/ \E t \in Tasks, act \in {"approve", "reject"} : ThroneDecide(t, act)
           \/ \E t \in Tasks, act \in Action : WriteDecision(t, act)
           \/ \E a \in Approvers : ApplyDecision(a) \/ CommitDecision(a)
  BY <1>3 DEF PollerStep, CancelWrite, PollStat, PollRead, PollDecide, PollDrop, PollDone, OnlyPoller, vars,
              ThroneDecide, WriteDecision, volatile, ApplyDecision, CommitDecision
<1> QED
  BY <1>1, <1>2, <1>3 DEF Next

(* What is done to the caller of submit, and to the line of its task. *)
LEMMA ClientReturns ==
    ASSUME TypeOK, [Next]_vars, NEW t \in Tasks, client'[t].pc = "done", client[t].pc # "done"
    PROVE  SubmitWrite(t)
<1>1. ASSUME NEW u \in Tasks, ClientStep(u) PROVE SubmitWrite(t)
  <2>1. CASE u # t
    BY <1>1, <2>1 DEF ClientStep, SubmitEnqueue, SubmitLine, SubmitWrite, TypeOK, ThreadsOK
  <2>2. CASE SubmitEnqueue(t) \/ SubmitLine(t)
    BY <2>2 DEF SubmitEnqueue, SubmitLine, Thread, TypeOK, ThreadsOK
  <2> QED
    BY <1>1, <2>1, <2>2 DEF ClientStep
<1>2. ASSUME NEW w \in Workers, WorkerStep(w) PROVE UNCHANGED client
  BY <1>2 DEF WorkerStep, Pop, PopNothing, PolicyDeny, GateEscalate, OracleEscalate, StartPlan,
              StartHandler, Commit, Succeed, HandlerEscalate, Fail, Retry, Requeue, FileLetter, DeadLetter,
              OnlyThisWorker
<1>3. CASE \/ PollerStep \/ CancelWrite \/ Start \/ UNCHANGED vars
           \/ \E u \in Tasks : Resume(u) \/ CancelTest(u)
           \/ \E u \in Tasks, act \in {"approve", "reject"} : ThroneDecide(u, act)
           \/ \E u \in Tasks, act \in Action : WriteDecision(u, act)
           \/ \E a \in Approvers : ApplyDecision(a) \/ CommitDecision(a)
  BY <1>3 DEF PollerStep, CancelWrite, PollStat, PollRead, PollDecide, PollDrop, PollDone, OnlyPoller, vars,
              Start, Resume, CancelTest, ThroneDecide, WriteDecision, volatile, ApplyDecision,
              CommitDecision
<1>4. CASE Crash
  BY <1>4 DEF Crash, Thread
<1> QED
  BY <1>1, <1>2, <1>3, <1>4 DEF Next

(* A line is only ever overwritten by a line. *)
LEMMA LinesWritten ==
    ASSUME TypeOK, [Next]_vars, NEW t \in Tasks, checkpoint[t] # Absent
    PROVE  checkpoint'[t] # Absent
<1>1. ASSUME NEW w \in Workers, WorkerStep(w) PROVE checkpoint'[t] # Absent
  <2>1. CASE Commit(w)
    <3>1. worker[w].line \in TaskState
      BY <2>1 DEF Commit, TypeOK, ThreadsOK, WorkerThreads
    <3> QED
      BY <2>1, <3>1, StatesAreStates DEF Commit, TypeOK, RestOK
  <2>2. CASE ~Commit(w)
    BY <1>1, <2>2 DEF WorkerStep, Pop, PopNothing, PolicyDeny, GateEscalate, OracleEscalate, StartPlan,
                      StartHandler, Succeed, HandlerEscalate, Fail, Retry, Requeue, FileLetter, DeadLetter,
                      OnlyThisWorker
  <2> QED
    BY <2>1, <2>2
<1>2. ASSUME NEW a \in Approvers, CommitDecision(a) PROVE checkpoint'[t] # Absent
  <2>1. approver[a].line \in TaskState
    BY <1>2 DEF CommitDecision, TypeOK, ThreadsOK, ApproverThreads
  <2> QED
    BY <1>2, <2>1, StatesAreStates DEF CommitDecision, TypeOK, RestOK
<1>3. ASSUME NEW u \in Tasks, SubmitWrite(u) PROVE checkpoint'[t] # Absent
  <2>1. client[u].line \in TaskState
    BY <1>3 DEF SubmitWrite, TypeOK, ThreadsOK, ClientThreads
  <2> QED
    BY <1>3, <2>1, StatesAreStates DEF SubmitWrite, TypeOK, RestOK
<1>4. CASE \/ PollerStep \/ CancelWrite \/ Start \/ Crash \/ UNCHANGED vars
           \/ \E u \in Tasks : SubmitEnqueue(u) \/ SubmitLine(u) \/ Resume(u) \/ CancelTest(u)
           \/ \E u \in Tasks, act \in {"approve", "reject"} : ThroneDecide(u, act)
           \/ \E u \in Tasks, act \in Action : WriteDecision(u, act)
           \/ \E a \in Approvers : ApplyDecision(a)
  BY <1>4 DEF PollerStep, CancelWrite, PollStat, PollRead, PollDecide, PollDrop, PollDone, OnlyPoller, Start, vars,
              Crash, SubmitEnqueue, SubmitLine, Resume, CancelTest, ThroneDecide, WriteDecision, volatile,
              ApplyDecision
<1> QED
  BY <1>1, <1>2, <1>3, <1>4 DEF Next, ClientStep

LEMMA ClientsAccount ==
    ASSUME TypeOK, TypeOK', AccountInv, [Next]_vars
    PROVE  ClientsKnown'
<1> SUFFICES ASSUME NEW t \in Tasks
             PROVE  /\ client'[t].pc = "enqueued" => registry'[t] # 0
                    /\ client'[t].pc = "commit" => registry'[t] # 0 \/ client'[t].line = "FAILED"
                    /\ client'[t].pc = "done" => checkpoint'[t] # Absent
  BY DEF ClientsKnown
<1>1. /\ client[t].pc = "enqueued" => registry[t] # 0
      /\ client[t].pc = "commit" => registry[t] # 0 \/ client[t].line = "FAILED"
      /\ client[t].pc = "done" => checkpoint[t] # Absent
  BY DEF AccountInv, ClientsKnown
<1>2. CASE SubmitEnqueue(t)
  <2>1. client'[t].pc = "enqueued" => registry'[t] = Len(recs) + 1
    BY <1>2 DEF SubmitEnqueue, Enqueue, Thread, TypeOK, ThreadsOK, QueueOK
  <2>2. client'[t].pc \in {"enqueued", "commit"} /\ (client'[t].pc = "commit" => client'[t].line = "FAILED")
    BY <1>2 DEF SubmitEnqueue, Thread, TypeOK, ThreadsOK
  <2> QED
    BY <2>1, <2>2, RecsLen
<1>3. CASE SubmitLine(t)
  BY <1>1, <1>3 DEF SubmitLine, Thread, TypeOK, ThreadsOK
<1>4. CASE SubmitWrite(t)
  <2>1. client[t].line \in TaskState
    BY <1>4 DEF SubmitWrite, TypeOK, ThreadsOK, ClientThreads
  <2>2. client'[t].pc = "done" /\ checkpoint'[t] \in TaskState
    BY <1>4, <2>1 DEF SubmitWrite, Thread, TypeOK, ThreadsOK, RestOK
  <2> QED
    BY <2>2, StatesAreStates
<1>5. CASE Crash
  <2>1. client'[t].pc \notin {"enqueued", "commit"} /\ (client'[t].pc = "done" => client[t].pc = "done")
    BY <1>5 DEF Crash, Thread
  <2> QED
    BY <1>1, <1>5, <2>1 DEF Crash
<1>6. CASE ~SubmitEnqueue(t) /\ ~SubmitLine(t) /\ ~SubmitWrite(t) /\ ~Crash
  <2>1. client'[t] = client[t]
    <3>1. ASSUME NEW u \in Tasks, ClientStep(u) PROVE client'[t] = client[t]
      BY <1>6, <3>1 DEF ClientStep, SubmitEnqueue, SubmitLine, SubmitWrite, TypeOK, ThreadsOK
    <3>2. ASSUME NEW w \in Workers, WorkerStep(w) PROVE UNCHANGED client
      BY <3>2 DEF WorkerStep, Pop, PopNothing, PolicyDeny, GateEscalate, OracleEscalate, StartPlan,
                  StartHandler, Commit, Succeed, HandlerEscalate, Fail, Retry, Requeue, FileLetter, DeadLetter,
                  OnlyThisWorker
    <3>3. CASE \/ PollerStep \/ CancelWrite \/ Start \/ UNCHANGED vars
               \/ \E u \in Tasks : Resume(u) \/ CancelTest(u)
               \/ \E u \in Tasks, act \in {"approve", "reject"} : ThroneDecide(u, act)
               \/ \E u \in Tasks, act \in Action : WriteDecision(u, act)
               \/ \E a \in Approvers : ApplyDecision(a) \/ CommitDecision(a)
      BY <3>3 DEF PollerStep, CancelWrite, PollStat, PollRead, PollDecide, PollDrop, PollDone, OnlyPoller, vars,
                  Start, Resume, CancelTest, ThroneDecide, WriteDecision, volatile, ApplyDecision,
                  CommitDecision
    <3> QED
      BY <1>6, <3>1, <3>2, <3>3 DEF Next
  <2>2. registry[t] # 0 => registry'[t] # 0
    BY <1>6, RegistryStays
  <2>3. checkpoint[t] # Absent => checkpoint'[t] # Absent
    BY LinesWritten
  <2> QED
    BY <1>1, <2>1, <2>2, <2>3
<1> QED
  BY <1>2, <1>3, <1>4, <1>5, <1>6

LEMMA LostAccount ==
    ASSUME TypeOK, TypeOK', AccountInv, [Next]_vars
    PROVE  NoTaskLost'
<1> SUFFICES ASSUME NEW t \in Tasks, phase' = "up", client'[t].pc = "done"
             PROVE  registry'[t] # 0 \/ t \in toResume' \/ checkpoint'[t] \in Terminal
  BY DEF NoTaskLost
<1>1. ClientsKnown'
  BY ClientsAccount
<1>2. ~Crash
  BY DEF Crash
<1>3. CASE Start
  <2>1. checkpoint'[t] \in TaskState
    BY <1>1 DEF ClientsKnown, TypeOK, RestOK
  <2> QED
    BY <1>3, <2>1 DEF Start
<1>4. CASE ~Start
  <2>1. phase = "up"
    BY <1>2, <1>4, PhaseStays
  <2>2. CASE registry[t] # 0
    BY <1>2, <2>2, RegistryStays
  <2>3. CASE registry[t] = 0 /\ client[t].pc = "done"
    <3>1. t \in toResume \/ checkpoint[t] \in Terminal
      BY <2>1, <2>3 DEF AccountInv, NoTaskLost
    <3>2. checkpoint'[t] = checkpoint[t]
      BY <2>3, LinesStay
    <3> QED
      BY <1>2, <1>4, <3>1, <3>2, RegistryStays
  <2>4. CASE registry[t] = 0 /\ client[t].pc # "done"
    <3>1. SubmitWrite(t)
      BY <1>2, <2>4, ClientReturns
    <3>2. client[t].pc = "commit" /\ client[t].line = "FAILED"
      BY <2>4, <3>1 DEF SubmitWrite, AccountInv, ClientsKnown
    <3> QED
      BY <3>1, <3>2 DEF SubmitWrite, Terminal, TypeOK, RestOK
  <2> QED
    BY <2>2, <2>3, <2>4
<1> QED
  BY <1>3, <1>4

LEMMA AccountInit == Init => AccountInv
<1> SUFFICES ASSUME Init PROVE AccountInv
  OBVIOUS
<1>1. Len(recs) = 0
  BY EmptySeq DEF Init
<1> QED
  BY <1>1 DEF Init, AccountInv, RegistryTasks, QueuedFound, StateOf, Absent, RecordsKnown, ClientsKnown,
              NoTaskLost, Thread

LEMMA AccountNext == TypeOK /\ TypeOK' /\ AccountInv /\ [Next]_vars => AccountInv'
<1> SUFFICES ASSUME TypeOK, TypeOK', AccountInv, [Next]_vars PROVE AccountInv'
  OBVIOUS
<1>1. RegistryTasks' /\ RecordsKnown' /\ QueuedFound'
  BY WorkerAccounts, OthersAccount
<1> QED
  BY <1>1, ClientsAccount, LostAccount DEF AccountInv

(* However early tasks are submitted, and whatever fails, crashes, is        *)
(* decided and is cancelled, the registry, the heap, the workers and the     *)
(* checkpoint account for every task.                                        *)
THEOREM AccountInvariant == Spec => []AccountInv
BY AccountInit, AccountNext, TypeCorrect, PTL DEF Spec

(* A submission that returned is still known after any number of deaths,     *)
(* submitted before start or after it.                                       *)
THEOREM NothingSubmittedIsLost == Spec => []NoTaskLost
<1>1. AccountInv => NoTaskLost
  BY DEF AccountInv
<1> QED
  BY <1>1, AccountInvariant, PTL

(* A QUEUED task is in the heap or in hand, unless it was approved: also     *)
(* when start requeues a task that submit has enqueued before it.            *)
THEOREM QueuedTasksAccounted == Spec => []QueuedAccounted
<1>1. TypeOK /\ AccountInv => QueuedAccounted
  <2> SUFFICES ASSUME TypeOK, AccountInv, NEW t \in Tasks, StateOf(t) = "QUEUED",
                      registry[t] \notin heap, t \notin approvals
               PROVE  \E w \in Workers : Busy(w) /\ TaskAt(w) = t
    BY DEF QueuedAccounted
  <2>1. registry[t] # 0 /\ Found(t)
    BY DEF AccountInv, QueuedFound, StateOf, Absent
  <2>2. PICK w \in Workers : Keeps(w) /\ worker[w].rec = registry[t]
    BY <2>1 DEF Found
  <2>3. Busy(w)
    BY <2>2 DEF Keeps, Waiting, Busy
  <2> QED
    BY <2>1, <2>2, <2>3 DEF AccountInv, RegistryTasks, TaskAt
<1> QED
  BY <1>1, AccountInvariant, TypeCorrect, PTL

-----------------------------------------------------------------------------
(* With no approvals and no denials every QUEUED task can still run.         *)
LEMMA NobodyDecidesNext ==
    ASSUME Approvers = {}, Deniable = {}
    PROVE  TypeOK /\ NobodyDecides /\ [Next]_vars => NobodyDecides'
<1> SUFFICES ASSUME TypeOK, NobodyDecides, [Next]_vars PROVE NobodyDecides'
  OBVIOUS
<1>1. approvals' = {}
  <2>1. ASSUME NEW w \in Workers, WorkerStep(w) PROVE UNCHANGED approvals
    BY <2>1 DEF WorkerStep, Pop, PopNothing, PolicyDeny, GateEscalate, OracleEscalate, StartPlan,
                StartHandler, Commit, Succeed, HandlerEscalate, Fail, Retry, Requeue, FileLetter, DeadLetter,
                OnlyThisWorker
  <2>2. ASSUME NEW t \in Tasks, ClientStep(t) \/ CancelTest(t) \/ Resume(t) PROVE UNCHANGED approvals
    BY <2>2 DEF ClientStep, SubmitEnqueue, SubmitLine, SubmitWrite, CancelTest, Resume
  <2>3. CASE \/ PollerStep \/ CancelWrite \/ Start \/ Crash \/ UNCHANGED vars
             \/ \E t \in Tasks, act \in {"approve", "reject"} : ThroneDecide(t, act)
             \/ \E t \in Tasks, act \in Action : WriteDecision(t, act)
    BY <2>3 DEF PollerStep, CancelWrite, PollStat, PollRead, PollDecide, PollDrop, PollDone, OnlyPoller, Start,
                Crash, vars, ThroneDecide, WriteDecision, volatile, NobodyDecides
  <2> QED
    BY <2>1, <2>2, <2>3 DEF Next, NobodyDecides
<1>2. ASSUME NEW v \in Workers PROVE worker'[v].pc # "dead"
  <2>1. ASSUME NEW w \in Workers, WorkerStep(w) PROVE worker'[v].pc # "dead"
    <3>1. CASE Commit(w)
      BY <3>1 DEF Commit, NobodyDecides, Thread, IdleThread, TypeOK, ThreadsOK
    <3>2. CASE Fail(w) \/ FileLetter(w)
      BY <3>2 DEF Fail, FileLetter, NobodyDecides, Thread, TypeOK, ThreadsOK
    <3>3. CASE Pop(w) \/ PopNothing(w) \/ Requeue(w)
      BY <3>3 DEF Pop, PopNothing, Requeue, NobodyDecides, Thread, IdleThread, TypeOK, ThreadsOK
    <3>4. CASE \/ GateEscalate(w) \/ OracleEscalate(w) \/ Succeed(w) \/ HandlerEscalate(w) \/ Retry(w)
               \/ StartPlan(w) \/ StartHandler(w) \/ DeadLetter(w)
      BY <3>4, MarkingSteps DEF Marks, NobodyDecides
    <3> QED
      BY <2>1, <3>1, <3>2, <3>3, <3>4 DEF WorkerStep, PolicyDeny
  <2>2. ASSUME NEW t \in Tasks, ClientStep(t) \/ CancelTest(t) \/ Resume(t) PROVE UNCHANGED worker
    BY <2>2 DEF ClientStep, SubmitEnqueue, SubmitLine, SubmitWrite, CancelTest, Resume
  <2>3. CASE \/ PollerStep \/ CancelWrite \/ Start \/ UNCHANGED vars
             \/ \E t \in Tasks, act \in {"approve", "reject"} : ThroneDecide(t, act)
             \/ \E t \in Tasks, act \in Action : WriteDecision(t, act)
    BY <2>3 DEF PollerStep, CancelWrite, PollStat, PollRead, PollDecide, PollDrop, PollDone, OnlyPoller, Start,
                vars, ThroneDecide, WriteDecision, volatile, NobodyDecides
  <2>4. CASE Crash
    BY <2>4 DEF Crash, IdleThread, Thread
  <2> QED
    BY <2>1, <2>2, <2>3, <2>4 DEF Next, NobodyDecides
<1> QED
  BY <1>1, <1>2 DEF NobodyDecides

(* queue.py's promise, where nobody approves and no rule denies: a QUEUED    *)
(* task is in the heap or with a worker that is alive, whenever it was       *)
(* submitted.                                                                *)
THEOREM QueuedTasksPoppable ==
    (Approvers = {} /\ Deniable = {}) => (Spec => []QueuedIsPoppable)
<1> SUFFICES ASSUME Approvers = {}, Deniable = {}
             PROVE  Spec => []QueuedIsPoppable
  OBVIOUS
<1>1. Init => NobodyDecides
  BY DEF Init, NobodyDecides, IdleThread, Thread
<1>2. TypeOK /\ NobodyDecides /\ [Next]_vars => NobodyDecides'
  BY NobodyDecidesNext
<1>3. QueuedAccounted /\ NobodyDecides => QueuedIsPoppable
  BY DEF NobodyDecides, QueuedAccounted, QueuedIsPoppable
<1> QED
  BY <1>1, <1>2, <1>3, QueuedTasksAccounted, TypeCorrect, PTL DEF Spec

-----------------------------------------------------------------------------
(* Dependencies first, when a caller submits a task after the submissions of *)
(* its parents have returned.                                                *)
ParentsEarlier == \A t \in Tasks : \A k \in 1..Len(DependsOn[t]) : DependsOn[t][k] \in SubmitAfter[t]

(* A task that has been submitted keeps its success, or stays unknown.       *)
Stands(t) == StateOf(t) \in {Absent, "SUCCEEDED"}
TasksStand == \A t \in Tasks : client[t].pc = "done" /\ Stands(t) => Stands(t)'

(* The workers that hold a task held it before. *)
NothingTaken == \A w \in Workers : Busy(w)' => Busy(w) /\ TaskAt(w)' = TaskAt(w)

LEMMA StandingKeeps ==
    ASSUME TypeOK, RunnerInv, OrderInv, SpecAssumption, TasksStand, NothingTaken
    PROVE  ParentsStand'
<1> SUFFICES ASSUME NEW w \in Workers, Busy(w)', NEW k \in 1..Len(DependsOn[TaskAt(w)]),
                    NEW p, p = DependsOn[TaskAt(w)][k]
             PROVE  Stands(p)'
  BY DEF ParentsStand, NothingTaken, Stands
<1>1. Busy(w) /\ TaskAt(w) \in Tasks /\ client[TaskAt(w)].pc # "new"
  BY HeldTask, HeldNotNew DEF NothingTaken, RunnerInv, TaskAt
<1>2. p \in Tasks
  BY <1>1, ElementOfSeq DEF SpecAssumption
<1>3. client[p].pc = "done" /\ Stands(p)
  BY <1>1 DEF OrderInv, ParentsSubmitted, ParentsStand, Stands
<1> QED
  BY <1>2, <1>3 DEF TasksStand

(* A step that hands nothing out, and one that changes no state. *)
LEMMA FrameTakesNothing == TypeOK /\ HandsNothingOut => NothingTaken
<1> SUFFICES ASSUME TypeOK, HandsNothingOut, NEW w \in Workers, Busy(w)'
             PROVE  Busy(w) /\ TaskAt(w)' = TaskAt(w)
  BY DEF NothingTaken
<1>1. Busy(w) /\ worker'[w].rec = worker[w].rec
  BY DEF HandsNothingOut, Busy
<1>2. worker[w].rec \in 1..Len(recs)
  BY <1>1, HeldTask
<1> QED
  BY <1>1, <1>2 DEF HandsNothingOut, SameTasks, TaskAt

LEMMA SameRecordsStand == UNCHANGED <<recs, registry>> => TasksStand
BY DEF TasksStand, Stands, StateOf

(* One record leaves a state that is not a success. *)
LEMMA ChangedStand ==
    ASSUME TypeOK, RunnerInv, NEW r \in 1..Len(recs), NEW s \in TaskState, Writes(r, s),
           registry[recs[r].task] = r, recs[r].state # "SUCCEEDED", UNCHANGED registry
    PROVE  TasksStand
<1>1. recs[r].state \in TaskState
  BY RecAt
<1>2. StateOf(recs[r].task) = recs[r].state
  BY DEF StateOf
<1>3. ~Stands(recs[r].task)
  BY <1>1, <1>2, StatesAreStates DEF Stands
<1>4. \A t \in Tasks : t # recs[r].task => StateOf(t)' = StateOf(t)
  BY StatesAfter
<1> QED
  BY <1>3, <1>4 DEF TasksStand, Stands

LEMMA EnqueuedStand ==
    ASSUME TypeOK, RunnerInv, NEW t \in Tasks, Enqueue(t), client[t].pc = "new" \/ ~Stands(t)
    PROVE  TasksStand
<1> SUFFICES ASSUME NEW u \in Tasks, u # t PROVE StateOf(u)' = StateOf(u)
  BY DEF TasksStand, Stands
<1>1. registry'[u] = registry[u]
  BY DEF Enqueue, TypeOK, QueueOK
<1>2. registry[u] # 0 => registry[u] \in 1..Len(recs) /\ recs'[registry[u]] = recs[registry[u]]
  BY Registered, EnqueueRecs
<1> QED
  BY <1>1, <1>2 DEF StateOf

(* Submissions follow those of the parents. *)
LEMMA SubmittedKeeps ==
    ASSUME ParentsEarlier, TypeOK, ParentsSubmitted, [Next]_vars
    PROVE  ParentsSubmitted'
<1>1. ASSUME \A t \in Tasks : /\ client'[t].pc # "new" => client[t].pc # "new"
                              /\ client[t].pc = "done" => client'[t].pc = "done"
      PROVE  ParentsSubmitted'
  <2> SUFFICES ASSUME NEW t \in Tasks, client'[t].pc # "new", NEW k \in 1..Len(DependsOn[t])
               PROVE  client'[DependsOn[t][k]].pc = "done"
    BY DEF ParentsSubmitted
  <2>1. DependsOn[t][k] \in Tasks
    BY SpecAssumption, ElementOfSeq
  <2>2. client[t].pc # "new"
    BY <1>1
  <2>3. client[DependsOn[t][k]].pc = "done"
    BY <2>2 DEF ParentsSubmitted
  <2> QED
    BY <1>1, <2>1, <2>3
<1>2. ASSUME NEW t \in Tasks, SubmitEnqueue(t) PROVE ParentsSubmitted'
  <2>1. /\ client[t].pc = "new" /\ \A p \in SubmitAfter[t] : client[p].pc = "done"
        /\ \A u \in Tasks : u # t => client'[u] = client[u]
    BY <1>2 DEF SubmitEnqueue, TypeOK, ThreadsOK
  <2> SUFFICES ASSUME NEW u \in Tasks, client'[u].pc # "new", NEW k \in 1..Len(DependsOn[u])
               PROVE  client'[DependsOn[u][k]].pc = "done"
    BY DEF ParentsSubmitted
  <2>2. DependsOn[u][k] \in Tasks
    BY SpecAssumption, ElementOfSeq
  <2>3. client[DependsOn[u][k]].pc = "done"
    BY <2>1 DEF ParentsSubmitted, ParentsEarlier
  <2> QED
    BY <2>1, <2>2, <2>3
<1>3. ASSUME NEW t \in Tasks, SubmitLine(t) \/ SubmitWrite(t) PROVE ParentsSubmitted'
  <2>1. \A u \in Tasks : /\ client'[u].pc # "new" => client[u].pc # "new"
                         /\ client[u].pc = "done" => client'[u].pc = "done"
    BY <1>3 DEF SubmitLine, SubmitWrite, Thread, TypeOK, ThreadsOK
  <2> QED
    BY <1>1, <2>1
<1>4. CASE Crash
  <2>1. \A u \in Tasks : /\ client'[u].pc # "new" => client[u].pc # "new"
                         /\ client[u].pc = "done" => client'[u].pc = "done"
    BY <1>4 DEF Crash, Thread
  <2> QED
    BY <1>1, <2>1
<1>5. ASSUME NEW w \in Workers, WorkerStep(w) PROVE UNCHANGED client
  BY <1>5 DEF WorkerStep, Pop, PopNothing, PolicyDeny, GateEscalate, OracleEscalate, StartPlan,
              StartHandler, Commit, Succeed, HandlerEscalate, Fail, Retry, Requeue, FileLetter, DeadLetter,
              OnlyThisWorker
<1>6. ASSUME NEW t \in Tasks, CancelTest(t) \/ Resume(t) PROVE UNCHANGED client
  BY <1>6 DEF CancelTest, Resume
<1>7. ASSUME \/ PollerStep \/ CancelWrite \/ Start \/ UNCHANGED vars
             \/ \E t \in Tasks, act \in {"approve", "reject"} : ThroneDecide(t, act)
             \/ \E t \in Tasks, act \in Action : WriteDecision(t, act)
             \/ \E a \in Approvers : ApplyDecision(a) \/ CommitDecision(a)
      PROVE  UNCHANGED client
  BY <1>7 DEF PollerStep, CancelWrite, PollStat, PollRead, PollDecide, PollDrop, PollDone, OnlyPoller, Start,
              vars, ThroneDecide, WriteDecision, volatile, ApplyDecision, CommitDecision
<1> QED
  BY <1>1, <1>2, <1>3, <1>4, <1>5, <1>6, <1>7 DEF Next, ClientStep

LEMMA StandNext ==
    ASSUME EarlySubmit = FALSE, MaxCancels = 0, TypeOK, RunnerInv, KernelInv, OrderInv, [Next]_vars
    PROVE  ParentsStand'
<1>1. ASSUME NothingTaken, TasksStand PROVE ParentsStand'
  BY <1>1, SpecAssumption, StandingKeeps
<1>2. ASSUME NEW w \in Workers, WorkerStep(w) PROVE ParentsStand'
  <2>1. CASE Pop(w)
    <3>1. PICK i \in heap :
            Runnable(i) /\ worker' = [worker EXCEPT ![w] = Thread("popped", registry[recs[i].task], NoLine)]
      BY <2>1 DEF Pop
    <3>2. UNCHANGED <<recs, registry>> /\ registry[recs[i].task] = i
      BY <2>1 DEF Pop, KernelInv, HeapLatest
    <3>3. TaskAt(w)' = recs[i].task /\ Satisfied(recs[i].task)
      BY <3>1, <3>2 DEF TaskAt, Thread, Runnable, TypeOK, ThreadsOK
    <3>4. \A v \in Workers : v # w => Busy(v)' = Busy(v) /\ TaskAt(v)' = TaskAt(v)
      BY <3>1, <3>2 DEF Busy, TaskAt, TypeOK, ThreadsOK
    <3>5. \A t : StateOf(t)' = StateOf(t)
      BY <3>2 DEF StateOf
    <3> QED
      BY <3>3, <3>4, <3>5 DEF OrderInv, ParentsStand, Satisfied
  <2>2. CASE Requeue(w)
    <3>1. /\ Busy(w) /\ worker[w].pc = "requeue" /\ Enqueue(TaskAt(w))
          /\ worker' = [worker EXCEPT ![w] = IdleThread]
      BY <2>2 DEF Requeue, Busy
    <3>2. TaskAt(w) \in Tasks /\ StateOf(TaskAt(w)) \in Open
      BY <3>1, WorkerHolds
    <3>3. TasksStand
      BY <3>1, <3>2, EnqueuedStand DEF Stands, Open, Absent
    <3>4. NothingTaken
      <4> SUFFICES ASSUME NEW v \in Workers, Busy(v)' PROVE Busy(v) /\ TaskAt(v)' = TaskAt(v)
        BY DEF NothingTaken
      <4>1. worker'[v] = worker[v] /\ Busy(v)
        BY <3>1 DEF Busy, IdleThread, Thread, TypeOK, ThreadsOK
      <4>2. worker[v].rec \in 1..Len(recs)
        BY <4>1, HeldTask
      <4> QED
        BY <3>1, <3>2, <4>1, <4>2, EnqueueRecs DEF TaskAt
    <3> QED
      BY <1>1, <3>3, <3>4
  <2>3. CASE \/ GateEscalate(w) \/ OracleEscalate(w) \/ Succeed(w) \/ HandlerEscalate(w) \/ Retry(w)
             \/ StartPlan(w) \/ StartHandler(w) \/ DeadLetter(w)
    <3>1. PICK s \in TaskState : Marks(w, s)
      BY <2>3, MarkingSteps
    <3>2. /\ worker[w].rec \in 1..Len(recs) /\ registry[recs[worker[w].rec].task] = worker[w].rec
          /\ recs[worker[w].rec].state \in Open
      BY <3>1, WorkerHolds DEF Marks, TaskAt
    <3>3. TasksStand
      BY <3>1, <3>2, ChangedStand DEF Marks, Open
    <3>4. NothingTaken
      BY <2>3, WorkerHandsNothingOut, FrameTakesNothing
    <3> QED
      BY <1>1, <3>3, <3>4
  <2>4. CASE PopNothing(w) \/ PolicyDeny(w) \/ Fail(w) \/ FileLetter(w) \/ Commit(w)
    <3>1. TasksStand
      BY <2>4, SameRecordsStand DEF PopNothing, PolicyDeny, OnlyThisWorker, Fail, FileLetter, Commit
    <3>2. NothingTaken
      BY <2>4, WorkerHandsNothingOut, FrameTakesNothing
    <3> QED
      BY <1>1, <3>1, <3>2
  <2> QED
    BY <1>2, <2>1, <2>2, <2>3, <2>4 DEF WorkerStep
<1>3. ASSUME NEW t \in Tasks, SubmitEnqueue(t) PROVE ParentsStand'
  <2>1. client[t].pc = "new" /\ UNCHANGED worker
    BY <1>3 DEF SubmitEnqueue
  <2>2. CASE Enqueue(t)
    <3>1. TasksStand
      BY <2>1, <2>2, EnqueuedStand
    <3>2. \A v \in Workers : Busy(v) => worker[v].rec \in 1..Len(recs)
      BY HeldTask
    <3>3. NothingTaken
      BY <2>1, <2>2, <3>2, EnqueueRecs DEF NothingTaken, Busy, TaskAt
    <3> QED
      BY <1>1, <3>1, <3>3
  <2>3. CASE UNCHANGED <<recs, registry>>
    BY <1>1, <2>1, <2>3, SameRecordsStand DEF NothingTaken, Busy, TaskAt
  <2> QED
    BY <1>3, <2>2, <2>3 DEF SubmitEnqueue
<1>4. (\A t \in Tasks : ~CancelTest(t)) /\ ~CancelWrite
  BY NobodyCancels
<1>5. ASSUME NEW a \in Approvers, ApplyDecision(a) PROVE ParentsStand'
  <2> DEFINE r == approver[a].rec
  <2>1. PICK s \in {"QUEUED", "CANCELLED"} : SetState(r, s)
    BY <1>5 DEF ApplyDecision
  <2>2. /\ r \in 1..Len(recs) /\ registry[recs[r].task] = r /\ recs[r].state # "SUCCEEDED"
        /\ UNCHANGED registry
    BY <1>5, ApproverHolds DEF ApplyDecision, KernelInv, ApproverAlone
  <2>3. Writes(r, s) /\ s \in TaskState
    BY <2>1, <2>2, SetStateWrites DEF TaskState
  <2>4. TasksStand
    BY <2>2, <2>3, ChangedStand
  <2>5. NothingTaken
    BY <1>5, OthersHandNothingOut, FrameTakesNothing
  <2> QED
    BY <1>1, <2>4, <2>5
<1>6. ASSUME \/ PollerStep \/ UNCHANGED vars
             \/ \E t \in Tasks : SubmitLine(t) \/ SubmitWrite(t)
             \/ \E t \in Tasks, act \in {"approve", "reject"} : ThroneDecide(t, act)
             \/ \E t \in Tasks, act \in Action : WriteDecision(t, act)
             \/ \E a \in Approvers : CommitDecision(a)
      PROVE  ParentsStand'
  <2>1. UNCHANGED <<recs, registry>>
    BY <1>6 DEF PollerStep, PollStat, PollRead, PollDecide, PollDrop, PollDone, OnlyPoller, vars,
                SubmitLine, SubmitWrite, ThroneDecide, WriteDecision, volatile, CommitDecision
  <2>2. HandsNothingOut
    BY <1>6, OthersHandNothingOut
  <2> QED
    BY <1>1, <2>1, <2>2, SameRecordsStand, FrameTakesNothing
<1>7. CASE Start \/ Crash \/ \E t \in Tasks : Resume(t)
  <2>1. Crash \/ (~Up /\ UNCHANGED worker)
    BY <1>7 DEF Start, Resume, Up
  <2>2. \A w \in Workers : ~Busy(w)'
    BY <2>1 DEF Crash, IdleThread, Thread, Busy, KernelInv, IdleWhenDown
  <2> QED
    BY <2>2 DEF ParentsStand
<1> QED
  BY <1>2, <1>3, <1>4, <1>5, <1>6, <1>7 DEF Next, ClientStep

(* Parents have succeeded, or are unknown, while a worker holds the child.   *)
LEMMA OrderInvariant ==
    (EarlySubmit = FALSE /\ MaxCancels = 0 /\ ParentsEarlier) => (Spec => []OrderInv)
<1> SUFFICES ASSUME EarlySubmit = FALSE, MaxCancels = 0, ParentsEarlier PROVE Spec => []OrderInv
  OBVIOUS
<1>1. Init => OrderInv
  BY DEF Init, OrderInv, ParentsSubmitted, ParentsStand, IdleThread, Thread, Busy
<1>2. TypeOK /\ RunnerInv /\ KernelInv /\ OrderInv /\ [Next]_vars => OrderInv'
  BY SubmittedKeeps, StandNext DEF OrderInv
<1>3. Spec => []KernelInv /\ []RunnerInv
  BY KernelInvariant, RunnerInvariant
<1> QED
  BY <1>1, <1>2, <1>3, TypeCorrect, PTL DEF Spec

(* "A task is runnable if all its dependencies have succeeded", for callers  *)
(* that submit parents first, where nobody calls TaskQueue.cancel: no        *)
(* handler starts before, and none is running when a dependency the          *)
(* scheduler knows is anything but a success.                                *)
THEOREM ParentsSucceedFirst ==
    (EarlySubmit = FALSE /\ MaxCancels = 0 /\ ParentsEarlier) => (Spec => []DependenciesFirst)
<1>1. OrderInv => DependenciesFirst
  BY DEF OrderInv, ParentsStand, DependenciesFirst, Running, Busy
<1> QED
  BY <1>1, OrderInvariant, PTL

-----------------------------------------------------------------------------
(* The life cycle. Where one thread at most decides and nobody calls         *)
(* TaskQueue.cancel, which the kernel never does, a record changes under     *)
(* nobody's hands: what a worker is about to do fits the state of its record.*)
OneDecider == \A a, b \in Approvers : a = b

AtWork == {"startPlan", "startHandler", "plan", "handler", "giveUp", "lettered"}
Fits(w) ==
    LET rec == recs[worker[w].rec]  pc == worker[w].pc IN
    /\ pc = "popped" => rec.state = "QUEUED" /\ rec.attempts = 0
    /\ pc \in AtWork => rec.state = "RUNNING"
    /\ pc = "backoff" => rec.state \in {"QUEUED", "RUNNING"}
    /\ pc = "requeue" \/ (pc = "commit" /\ worker[w].line = "QUEUED") => rec.state = "QUEUED"

Deciding(a) == approver[a].pc \in {"approve", "reject"}
Awaits(a) == Deciding(a) => recs[approver[a].rec].state = "ESCALATED"

InStep ==
    /\ \A w \in Workers : Busy(w) => Fits(w)
    /\ \A i \in heap : recs[i].state = "QUEUED" /\ recs[i].attempts = 0
    /\ \A a \in Approvers : Awaits(a)

(* A worker marks its record from one of these places, and no other record.  *)
MarksFrom(w, pcs, s) ==
    /\ Marks(w, s) /\ worker[w].pc \in pcs
    /\ \A i \in 1..Len(recs) : i # worker[w].rec => recs'[i] = recs[i]

LEMMA MarkingFrom ==
    ASSUME TypeOK, NEW w \in Workers,
           \/ GateEscalate(w) \/ OracleEscalate(w) \/ Succeed(w) \/ HandlerEscalate(w) \/ Retry(w)
           \/ StartPlan(w) \/ StartHandler(w) \/ DeadLetter(w)
    PROVE  \/ MarksFrom(w, {"popped", "handler"}, "ESCALATED")
           \/ MarksFrom(w, {"handler", "plan"}, "SUCCEEDED")
           \/ MarksFrom(w, {"backoff"}, "QUEUED")
           \/ MarksFrom(w, {"lettered"}, "FAILED")
           \/ MarksFrom(w, {"popped"}, "RUNNING")
<1>1. PICK s \in TaskState : Marks(w, s)
  BY MarkingSteps
<1>2. worker'[w].line = s /\ worker[w].rec \in 1..Len(recs) /\ recs \in Seq(Records)
  BY <1>1, HeldRec, RecsLen DEF Marks, Busy
<1>3. \E x : recs' = [recs EXCEPT ![worker[w].rec] = x]
  BY DEF GateEscalate, OracleEscalate, Succeed, HandlerEscalate, Retry, StartPlan, StartHandler,
         DeadLetter, Mark, MarkRunning, SetState
<1>4. \A i \in 1..Len(recs) : i # worker[w].rec => recs'[i] = recs[i]
  BY <1>2, <1>3
<1>5. /\ GateEscalate(w) \/ OracleEscalate(w) => s = "ESCALATED" /\ worker[w].pc = "popped"
      /\ HandlerEscalate(w) => s = "ESCALATED" /\ worker[w].pc = "handler"
      /\ Succeed(w) => s = "SUCCEEDED" /\ worker[w].pc \in {"handler", "plan"}
      /\ Retry(w) => s = "QUEUED" /\ worker[w].pc = "backoff"
      /\ DeadLetter(w) => s = "FAILED" /\ worker[w].pc = "lettered"
      /\ StartPlan(w) \/ StartHandler(w) => s = "RUNNING" /\ worker[w].pc = "popped"
  BY <1>2 DEF GateEscalate, OracleEscalate, Succeed, HandlerEscalate, Retry, StartPlan, StartHandler,
              DeadLetter, Mark, MarkRunning, Thread, TypeOK, ThreadsOK
<1> QED
  BY <1>1, <1>4, <1>5 DEF MarksFrom

(* The marking worker's record is in step with what it does next, and in     *)
(* nobody else's hands.                                                      *)
LEMMA MarkingInStep ==
    ASSUME TypeOK, RunnerInv, KernelInv, InStep, NEW w \in Workers, NEW pcs, NEW s \in TaskState,
           MarksFrom(w, pcs, s)
    PROVE  InStep'
<1> DEFINE r == worker[w].rec
<1>1. /\ Busy(w) /\ worker[w].pc # "commit" /\ r \in 1..Len(recs) /\ r \notin heap
      /\ \A v \in Workers : v # w /\ Busy(v) => worker[v].rec # r
  BY WorkerHolds DEF MarksFrom, Marks
<1>2. recs'[r].state = s /\ \A i \in 1..Len(recs) : i # r => recs'[i] = recs[i]
  BY <1>1 DEF MarksFrom, Marks, Writes
<1>3. /\ \A v \in Workers : v # w => worker'[v] = worker[v]
      /\ worker'[w].rec = r /\ worker'[w].line = s /\ UNCHANGED <<heap, approver>>
      /\ \/ worker'[w].pc \in {"startPlan", "startHandler"} /\ s = "RUNNING"
         \/ worker'[w].pc = "commit"
  BY DEF MarksFrom, Marks
<1> HIDE DEF r
<1>4. ASSUME NEW v \in Workers, Busy(v)' PROVE Fits(v)'
  <2>1. CASE v = w
    BY <1>2, <1>3, <2>1 DEF Fits, AtWork
  <2>2. CASE v # w
    <3>1. worker'[v] = worker[v] /\ Busy(v) /\ worker[v].rec \in 1..Len(recs) /\ worker[v].rec # r
      BY <1>1, <1>3, <1>4, <2>2, HeldTask DEF Busy
    <3>2. recs'[worker[v].rec] = recs[worker[v].rec]
      BY <1>2, <3>1
    <3> QED
      BY <3>1, <3>2 DEF Fits, InStep
  <2> QED
    BY <2>1, <2>2
<1>5. \A i \in heap' : recs'[i].state = "QUEUED" /\ recs'[i].attempts = 0
  <2>1. \A i \in heap : i \in 1..Len(recs) /\ i # r
    BY <1>1, HeapRec
  <2> QED
    BY <1>2, <1>3, <2>1 DEF InStep
<1>6. ASSUME NEW a \in Approvers PROVE Awaits(a)'
  <2>1. approver[a].pc # "idle" => approver[a].rec # r /\ approver[a].rec \in 1..Len(recs)
    BY <1>1, ApproverHolds DEF KernelInv, ApproverAlone, r
  <2> QED
    BY <1>2, <1>3, <2>1 DEF Awaits, Deciding, InStep
<1> QED
  BY <1>4, <1>5, <1>6 DEF InStep

(* The records stay: what moves fits its record.                             *)
LEMMA SameRecordsInStep ==
    ASSUME InStep, UNCHANGED recs, heap' \subseteq heap,
           \A w \in Workers : worker'[w] = worker[w] \/ (Busy(w)' => Fits(w)'),
           \A a \in Approvers : approver'[a] = approver[a] \/ Awaits(a)'
    PROVE  InStep'
<1>1. ASSUME NEW w \in Workers, Busy(w)' PROVE Fits(w)'
  BY <1>1 DEF InStep, Fits, Busy
<1>2. ASSUME NEW a \in Approvers PROVE Awaits(a)'
  BY DEF InStep, Awaits, Deciding
<1> QED
  BY <1>1, <1>2 DEF InStep

LEMMA WorkerMovesInStep ==
    ASSUME TypeOK, RunnerInv, KernelInv, InStep, NEW w \in Workers,
           \/ Pop(w) \/ PopNothing(w) \/ PolicyDeny(w) \/ Fail(w) \/ FileLetter(w)
           \/ Commit(w)
    PROVE  InStep'
<1>1. UNCHANGED <<recs, approver>> /\ heap' \subseteq heap
  BY DEF Pop, PopNothing, PolicyDeny, Fail, FileLetter, Commit, OnlyThisWorker
<1>2. \A v \in Workers : v # w => worker'[v] = worker[v]
  BY DEF Pop, PopNothing, PolicyDeny, Fail, FileLetter, Commit, TypeOK, ThreadsOK
<1>3. worker'[w] = worker[w] \/ (Busy(w)' => Fits(w)')
  <2>1. CASE Pop(w)
    <3>1. PICK i \in heap : worker'[w] = Thread("popped", registry[recs[i].task], NoLine)
      BY <2>1 DEF Pop, TypeOK, ThreadsOK
    <3>2. registry[recs[i].task] = i
      BY DEF KernelInv, HeapLatest
    <3> QED
      BY <1>1, <3>1, <3>2 DEF Fits, Thread, AtWork, InStep
  <2>2. CASE PolicyDeny(w)
    BY <2>2 DEF PolicyDeny, Fits, Thread, AtWork, TypeOK, ThreadsOK
  <2>3. CASE Fail(w)
    <3>1. /\ worker[w].pc \in {"handler", "plan", "popped"} /\ Busy(w)
          /\ worker'[w] = Thread(IF recs[worker[w].rec].attempts <= MaxRetries[TaskAt(w)] THEN "backoff"
                                 ELSE "giveUp", worker[w].rec, NoLine)
      BY <2>3 DEF Fail, Busy, TypeOK, ThreadsOK
    <3>2. MaxRetries[TaskAt(w)] \in Nat
      BY <3>1, HeldTask, SpecAssumption
    <3>3. CASE worker[w].pc = "popped"
      <4>1. recs[worker[w].rec].attempts <= MaxRetries[TaskAt(w)] /\ recs[worker[w].rec].state = "QUEUED"
        BY <3>1, <3>2, <3>3 DEF InStep, Fits
      <4> QED
        BY <1>1, <3>1, <4>1 DEF Fits, Thread, AtWork
    <3>4. CASE worker[w].pc \in {"handler", "plan"}
      BY <1>1, <3>1, <3>4 DEF Fits, Thread, AtWork, InStep
    <3> QED
      BY <3>1, <3>3, <3>4
  <2>4. CASE Commit(w)
    <3>1. /\ Busy(w) /\ Fits(w)
          /\ \/ worker[w].pc = "startPlan" /\ worker'[w] = Thread("plan", worker[w].rec, NoLine)
             \/ worker[w].pc = "startHandler" /\ worker'[w] = Thread("handler", worker[w].rec, NoLine)
             \/ /\ worker[w].pc = "commit" /\ worker[w].line = "QUEUED"
                /\ worker'[w] = Thread("requeue", worker[w].rec, NoLine)
             \/ worker'[w] = IdleThread
      BY <2>4 DEF Commit, Busy, InStep, TypeOK, ThreadsOK
    <3> QED
      BY <1>1, <3>1 DEF Fits, Thread, IdleThread, AtWork, Busy
  <2>5. CASE PopNothing(w)
    BY <2>5 DEF PopNothing
  <2>6. CASE FileLetter(w)
    <3>1. /\ worker[w].pc = "giveUp" /\ Busy(w) /\ worker[w].rec \in 1..Len(recs)
          /\ worker'[w] = Thread("lettered", worker[w].rec, NoLine)
      BY <2>6, HeldRec DEF FileLetter, Busy, TypeOK, ThreadsOK
    <3> QED
      BY <1>1, <3>1 DEF Fits, Thread, AtWork, InStep
  <2> QED
    BY <2>1, <2>2, <2>3, <2>4, <2>5, <2>6
<1> QED
  BY <1>1, <1>2, <1>3, SameRecordsInStep

LEMMA EnqueuedInStep ==
    ASSUME TypeOK, RunnerInv, KernelInv, InStep, NEW t \in Tasks, Enqueue(t), UNCHANGED approver,
           \A w \in Workers : worker'[w] = worker[w] \/ worker'[w] = IdleThread
    PROVE  InStep'
<1>1. /\ Len(recs) \in Nat /\ \A i \in 1..Len(recs) : recs'[i] = recs[i]
      /\ heap' = heap \cup {Len(recs) + 1}
  BY RecsLen, EnqueueRecs DEF Enqueue
<1>2. recs'[Len(recs) + 1] = [task |-> t, state |-> "QUEUED", attempts |-> 0]
  BY RecsLen DEF Enqueue
<1>3. ASSUME NEW w \in Workers, Busy(w)' PROVE Fits(w)'
  <2>1. worker'[w] = worker[w] /\ Busy(w) /\ worker[w].rec \in 1..Len(recs)
    BY <1>3, HeldTask DEF Busy, IdleThread, Thread
  <2> QED
    BY <1>1, <2>1 DEF Fits, InStep
<1>4. ASSUME NEW i \in heap' PROVE recs'[i].state = "QUEUED" /\ recs'[i].attempts = 0
  <2>1. CASE i \in heap
    BY <1>1, <2>1, HeapRec DEF InStep
  <2>2. CASE i = Len(recs) + 1
    BY <1>2, <2>2
  <2> QED
    BY <1>1, <1>4, <2>1, <2>2
<1>5. ASSUME NEW a \in Approvers PROVE Awaits(a)'
  <2>1. Deciding(a) => approver[a].rec \in 1..Len(recs)
    BY ApproverHolds DEF Deciding
  <2> QED
    BY <1>1, <2>1 DEF Awaits, Deciding, InStep
<1> QED
  BY <1>3, <1>4, <1>5 DEF InStep

LEMMA AppliedInStep ==
    ASSUME OneDecider, TypeOK, RunnerInv, KernelInv, InStep, NEW a \in Approvers, ApplyDecision(a)
    PROVE  InStep'
<1> DEFINE r == approver[a].rec
<1>1. /\ approver[a].pc # "idle" /\ UNCHANGED <<heap, worker>> /\ r \in 1..Len(recs) /\ r \notin heap
      /\ \A w \in Workers : Busy(w) /\ worker[w].rec = r =>
            worker[w].pc = "commit" /\ worker[w].line = "ESCALATED"
  BY ApproverHolds DEF ApplyDecision, KernelInv, ApproverAlone
<1>2. \A i \in 1..Len(recs) : i # r => recs'[i] = recs[i]
  <2>1. \E x : recs' = [recs EXCEPT ![r] = x]
    BY DEF ApplyDecision, SetState
  <2> QED
    BY <1>1, <2>1, RecsLen
<1>3. ~Deciding(a)' /\ \A b \in Approvers : b = a
  BY DEF ApplyDecision, Deciding, Thread, OneDecider, TypeOK, ThreadsOK
<1> HIDE DEF r
<1>4. ASSUME NEW w \in Workers, Busy(w)' PROVE Fits(w)'
  <2>1. worker'[w] = worker[w] /\ Busy(w) /\ worker[w].rec \in 1..Len(recs)
    BY <1>1, <1>4, HeldTask DEF Busy
  <2>2. CASE worker[w].rec = r
    BY <1>1, <2>1, <2>2 DEF Fits, AtWork
  <2>3. CASE worker[w].rec # r
    BY <1>2, <2>1, <2>3 DEF Fits, InStep
  <2> QED
    BY <2>2, <2>3
<1>5. \A i \in heap' : recs'[i].state = "QUEUED" /\ recs'[i].attempts = 0
  BY <1>1, <1>2, HeapRec DEF InStep
<1> QED
  BY <1>3, <1>4, <1>5 DEF InStep, Awaits

LEMMA DecidesInStep ==
    ASSUME TypeOK, InStep, NEW a \in Approvers, NEW t \in Tasks, NEW act, Decide(a, t, act),
           UNCHANGED <<recs, heap, worker>>
    PROVE  InStep'
<1>1. StateOf(t) = "ESCALATED" /\ recs[registry[t]].state = "ESCALATED"
  BY DEF Decide, StateOf, Absent
<1>2. /\ approver'[a] = Thread(act, registry[t], NoLine)
      /\ \A b \in Approvers : b # a => approver'[b] = approver[b]
  BY DEF Decide, TypeOK, ThreadsOK
<1>3. Awaits(a)'
  BY <1>1, <1>2 DEF Awaits, Thread
<1> QED
  BY <1>2, <1>3, SameRecordsInStep

LEMMA StepInStep ==
    ASSUME EarlySubmit = FALSE, OneDecider, MaxCancels = 0, TypeOK, RunnerInv, KernelInv, InStep, [Next]_vars
    PROVE  InStep'
<1>1. ASSUME NEW w \in Workers, WorkerStep(w) PROVE InStep'
  <2>1. CASE Requeue(w)
    <3>1. Busy(w) /\ Enqueue(TaskAt(w)) /\ worker' = [worker EXCEPT ![w] = IdleThread] /\ UNCHANGED approver
      BY <2>1 DEF Requeue, Busy
    <3>2. TaskAt(w) \in Tasks
      BY <3>1, HeldTask
    <3>3. \A v \in Workers : worker'[v] = worker[v] \/ worker'[v] = IdleThread
      BY <3>1 DEF TypeOK, ThreadsOK
    <3> QED
      BY <3>1, <3>2, <3>3, EnqueuedInStep
  <2>2. CASE \/ Pop(w) \/ PopNothing(w) \/ PolicyDeny(w) \/ Fail(w) \/ FileLetter(w)
             \/ Commit(w)
    BY <2>2, WorkerMovesInStep
  <2>3. CASE \/ GateEscalate(w) \/ OracleEscalate(w) \/ Succeed(w) \/ HandlerEscalate(w) \/ Retry(w)
             \/ StartPlan(w) \/ StartHandler(w) \/ DeadLetter(w)
    BY <2>3, MarkingFrom, MarkingInStep DEF TaskState
  <2> QED
    BY <1>1, <2>1, <2>2, <2>3 DEF WorkerStep
<1>2. ASSUME NEW t \in Tasks, SubmitEnqueue(t) \/ Resume(t) PROVE InStep'
  <2>1. UNCHANGED <<approver, worker>> /\ (Enqueue(t) \/ UNCHANGED <<recs, heap>>)
    BY <1>2 DEF SubmitEnqueue, Resume
  <2> QED
    BY <2>1, EnqueuedInStep, SameRecordsInStep
<1>3. (\A t \in Tasks : ~CancelTest(t)) /\ ~CancelWrite
  BY NobodyCancels
<1>4. ASSUME NEW a \in Approvers, ApplyDecision(a) PROVE InStep'
  BY <1>4, AppliedInStep
<1>5. ASSUME NEW a \in Approvers, CommitDecision(a) PROVE InStep'
  <2>1. UNCHANGED <<recs, heap, worker>> /\ ~Deciding(a)'
        /\ \A b \in Approvers : b # a => approver'[b] = approver[b]
    BY <1>5 DEF CommitDecision, IdleThread, Thread, Deciding, TypeOK, ThreadsOK
  <2> QED
    BY <2>1, SameRecordsInStep DEF Awaits
<1>6. ASSUME NEW t \in Tasks, NEW act \in {"approve", "reject"}, ThroneDecide(t, act) PROVE InStep'
  BY <1>6, DecidesInStep DEF ThroneDecide, OnlyPoller
<1>7. CASE PollDecide
  <2>1. poll.batch \in Seq(DecisionLines) /\ poll.batch # <<>> /\ "poller" \in Approvers
    BY <1>7 DEF PollDecide, TypeOK, RestOK
  <2>2. Head(poll.batch) \in DecisionLines
    BY <2>1, HeadTailProperties
  <2>3. Head(poll.batch).task \in Tasks
    BY <2>2 DEF DecisionLines
  <2> QED
    BY <1>7, <2>1, <2>3, DecidesInStep DEF PollDecide, OnlyPoller
<1>8. CASE \/ PollStat \/ PollRead \/ PollDrop \/ PollDone \/ Start \/ UNCHANGED vars
           \/ \E t \in Tasks : SubmitLine(t) \/ SubmitWrite(t)
           \/ \E t \in Tasks, act \in Action : WriteDecision(t, act)
  <2>1. UNCHANGED <<recs, heap, worker, approver>>
    BY <1>8 DEF PollStat, PollRead, PollDrop, PollDone, OnlyPoller, Start, vars, SubmitLine, SubmitWrite,
                WriteDecision, volatile
  <2> QED
    BY <2>1, SameRecordsInStep
<1>9. CASE Crash
  BY <1>9 DEF Crash, InStep, IdleThread, Thread, Busy, Awaits, Deciding
<1> QED
  BY <1>1, <1>2, <1>3, <1>4, <1>5, <1>6, <1>7, <1>8, <1>9 DEF Next, ClientStep, PollerStep

LEMMA InitInStep == Init => InStep
BY DEF Init, InStep, IdleThread, Thread, Busy, Awaits, Deciding

(* So a step of the kernel changes the state of one record, which is         *)
(* registered and not final, or enters a new one, or leaves them all alone,  *)
(* or forgets them.                                                          *)
LifeMoves == {<<"QUEUED", "QUEUED">>, <<"QUEUED", "RUNNING">>, <<"QUEUED", "ESCALATED">>,
              <<"RUNNING", "SUCCEEDED">>, <<"RUNNING", "FAILED">>, <<"RUNNING", "QUEUED">>,
              <<"RUNNING", "ESCALATED">>, <<"ESCALATED", "QUEUED">>, <<"ESCALATED", "CANCELLED">>}

Changes(r, s) ==
    /\ r \in 1..Len(recs) /\ s \in TaskState /\ Writes(r, s)
    /\ registry[recs[r].task] = r /\ UNCHANGED registry
    /\ <<recs[r].state, s>> \in LifeMoves
    /\ s = "RUNNING" => \E w \in Workers : Busy(w) /\ TaskAt(w) = recs[r].task

Enters(t) == Enqueue(t) /\ StateOf(t) \in {Absent, "QUEUED"}

LEMMA MarkingChanges ==
    ASSUME TypeOK, RunnerInv, KernelInv, InStep, NEW w \in Workers,
           \/ GateEscalate(w) \/ OracleEscalate(w) \/ Succeed(w) \/ HandlerEscalate(w) \/ Retry(w)
           \/ StartPlan(w) \/ StartHandler(w) \/ DeadLetter(w)
    PROVE  \E r, s : Changes(r, s)
<1> DEFINE r == worker[w].rec
<1>1. PICK s \in TaskState :
         \/ s = "ESCALATED" /\ MarksFrom(w, {"popped", "handler"}, s)
         \/ s = "SUCCEEDED" /\ MarksFrom(w, {"handler", "plan"}, s)
         \/ s = "QUEUED" /\ MarksFrom(w, {"backoff"}, s)
         \/ s = "FAILED" /\ MarksFrom(w, {"lettered"}, s)
         \/ s = "RUNNING" /\ MarksFrom(w, {"popped"}, s)
  BY MarkingFrom DEF TaskState
<1>2. Busy(w) /\ Writes(r, s) /\ UNCHANGED registry
  BY <1>1 DEF MarksFrom, Marks
<1>3. r \in 1..Len(recs) /\ TaskAt(w) = recs[r].task /\ registry[recs[r].task] = r
  BY <1>2, WorkerHolds DEF TaskAt
<1>4. <<recs[r].state, s>> \in LifeMoves
  <2>1. Fits(w)
    BY <1>2 DEF InStep
  <2>2. CASE s = "ESCALATED" /\ worker[w].pc \in {"popped", "handler"}
    BY <2>1, <2>2 DEF Fits, AtWork, LifeMoves
  <2>3. CASE s = "SUCCEEDED" /\ worker[w].pc \in {"handler", "plan"}
    BY <2>1, <2>3 DEF Fits, AtWork, LifeMoves
  <2>4. CASE s = "QUEUED" /\ worker[w].pc = "backoff"
    BY <2>1, <2>4 DEF Fits, LifeMoves
  <2>5. CASE s = "FAILED" /\ worker[w].pc = "lettered"
    BY <2>1, <2>5 DEF Fits, AtWork, LifeMoves
  <2>6. CASE s = "RUNNING" /\ worker[w].pc = "popped"
    BY <2>1, <2>6 DEF Fits, LifeMoves
  <2> QED
    BY <1>1, <2>2, <2>3, <2>4, <2>5, <2>6 DEF MarksFrom
<1> QED
  BY <1>2, <1>3, <1>4 DEF Changes

LEMMA ApplyingChanges ==
    ASSUME TypeOK, RunnerInv, KernelInv, InStep, NEW a \in Approvers, ApplyDecision(a)
    PROVE  \E r, s : Changes(r, s)
<1> DEFINE r == approver[a].rec
<1>1. PICK s \in {"QUEUED", "CANCELLED"} : SetState(r, s)
  BY DEF ApplyDecision
<1>2. /\ r \in 1..Len(recs) /\ registry[recs[r].task] = r /\ recs[r].state = "ESCALATED"
      /\ UNCHANGED registry
  BY ApproverHolds DEF ApplyDecision, InStep, Awaits, Deciding
<1>3. Writes(r, s) /\ s \in TaskState
  BY <1>1, <1>2, SetStateWrites DEF TaskState
<1>4. <<recs[r].state, s>> \in LifeMoves /\ s # "RUNNING"
  BY <1>2 DEF LifeMoves
<1> QED
  BY <1>2, <1>3, <1>4 DEF Changes

LEMMA StepKinds ==
    ASSUME EarlySubmit = FALSE, MaxCancels = 0, TypeOK, RunnerInv, KernelInv, InStep, [Next]_vars
    PROVE  \/ UNCHANGED <<recs, registry>>
           \/ \E r, s : Changes(r, s)
           \/ \E t \in Tasks : Enters(t)
           \/ Crash
<1>1. ASSUME NEW w \in Workers, WorkerStep(w)
      PROVE  \/ UNCHANGED <<recs, registry>>
             \/ \E r, s : Changes(r, s)
             \/ \E t \in Tasks : Enters(t)
  <2>1. CASE Requeue(w)
    <3>1. Busy(w) /\ Enqueue(TaskAt(w)) /\ worker[w].pc = "requeue"
      BY <2>1 DEF Requeue, Busy
    <3>2. TaskAt(w) \in Tasks /\ StateOf(TaskAt(w)) = "QUEUED"
      BY <3>1, WorkerHolds DEF InStep, Fits
    <3> QED
      BY <3>1, <3>2 DEF Enters
  <2>2. CASE \/ Pop(w) \/ PopNothing(w) \/ PolicyDeny(w) \/ Fail(w) \/ FileLetter(w)
             \/ Commit(w)
    BY <2>2 DEF Pop, PopNothing, PolicyDeny, Fail, FileLetter, Commit, OnlyThisWorker
  <2> QED
    BY <1>1, <2>1, <2>2, MarkingChanges DEF WorkerStep
<1>2. ASSUME NEW t \in Tasks, SubmitEnqueue(t) PROVE Enters(t) \/ UNCHANGED <<recs, registry>>
  <2>1. \A i \in 1..Len(recs) : recs[i].task # t
    BY <1>2 DEF SubmitEnqueue, RunnerInv, NewFree
  <2>2. StateOf(t) = Absent
    BY <2>1, Registered, Unregistered
  <2> QED
    BY <1>2, <2>2 DEF SubmitEnqueue, Enters
<1>3. ASSUME NEW t \in Tasks, Resume(t) PROVE Enters(t)
  BY <1>3, Unregistered DEF Resume, Enters, KernelInv, ResumesOpen
<1>4. (\A t \in Tasks : ~CancelTest(t)) /\ ~CancelWrite
  BY NobodyCancels
<1>5. ASSUME NEW a \in Approvers, ApplyDecision(a) PROVE \E r, s : Changes(r, s)
  BY <1>5, ApplyingChanges
<1>6. CASE \/ PollerStep \/ Start \/ UNCHANGED vars
           \/ \E t \in Tasks : SubmitLine(t) \/ SubmitWrite(t)
           \/ \E t \in Tasks, act \in {"approve", "reject"} : ThroneDecide(t, act)
           \/ \E t \in Tasks, act \in Action : WriteDecision(t, act)
           \/ \E a \in Approvers : CommitDecision(a)
  BY <1>6 DEF PollerStep, PollStat, PollRead, PollDecide, PollDrop, PollDone, OnlyPoller, Start, vars,
              SubmitLine, SubmitWrite, ThroneDecide, WriteDecision, volatile, CommitDecision
<1> QED
  BY <1>1, <1>2, <1>3, <1>4, <1>5, <1>6 DEF Next, ClientStep

(* A worker's place says what state its task is in, a task in the heap has   *)
(* not been tried, and a decision under way finds its task ESCALATED: where  *)
(* one thread applies decisions and nobody cancels, nothing is written       *)
(* behind a worker's back (scheduler.py and kernel.py write without a lock). *)
THEOREM StaysInStep ==
    (EarlySubmit = FALSE /\ OneDecider /\ MaxCancels = 0) => (Spec => []InStep)
<1> SUFFICES ASSUME EarlySubmit = FALSE, OneDecider, MaxCancels = 0 PROVE Spec => []InStep
  OBVIOUS
<1>1. TypeOK /\ RunnerInv /\ KernelInv /\ InStep /\ [Next]_vars => InStep'
  BY StepInStep
<1>2. Spec => []KernelInv /\ []RunnerInv
  BY KernelInvariant, RunnerInvariant
<1> QED
  BY <1>1, <1>2, InitInStep, TypeCorrect, PTL DEF Spec

(* A record that is SUCCEEDED, FAILED or CANCELLED stays so: workers and the *)
(* one thread that applies decisions write without a lock, and never to it.  *)
THEOREM FinalRecordsStay ==
    (EarlySubmit = FALSE /\ OneDecider /\ MaxCancels = 0) => (Spec => FinalStays)
<1> SUFFICES ASSUME EarlySubmit = FALSE, OneDecider, MaxCancels = 0 PROVE Spec => FinalStays
  OBVIOUS
<1>1. TypeOK /\ RunnerInv /\ KernelInv /\ InStep /\ [Next]_vars =>
        [\A i \in 1..Len(recs) :
           recs[i].state \in Final /\ i <= Len(recs') => recs'[i].state = recs[i].state]_vars
  <2> SUFFICES ASSUME TypeOK, RunnerInv, KernelInv, InStep, [Next]_vars,
                      NEW i \in 1..Len(recs), recs[i].state \in Final, i <= Len(recs')
               PROVE  recs'[i].state = recs[i].state
    OBVIOUS
  <2>1. CASE UNCHANGED <<recs, registry>>
    BY <2>1
  <2>2. ASSUME NEW r, NEW s, Changes(r, s) PROVE recs'[i].state = recs[i].state
    BY <2>2 DEF Changes, Writes, LifeMoves, Final
  <2>3. ASSUME NEW t \in Tasks, Enters(t) PROVE recs'[i].state = recs[i].state
    BY <2>3, EnqueueRecs DEF Enters
  <2>4. CASE Crash
    <3>1. Len(recs') = 0 /\ i \in Nat /\ i >= 1
      BY <2>4, RecsLen DEF Crash
    <3> QED
      BY <3>1
  <2> QED
    BY <2>1, <2>2, <2>3, <2>4, StepKinds
<1>2. Spec => []KernelInv /\ []RunnerInv /\ []InStep
  BY KernelInvariant, RunnerInvariant, StaysInStep
<1> QED
  BY <1>1, <1>2, TypeCorrect, PTL DEF Spec, FinalStays

-----------------------------------------------------------------------------
(* The refinement: what each kind of step is for the life cycle.             *)
States == [t \in Tasks |-> StateOf(t)]
ParentsOf == [t \in Tasks |-> {DependsOn[t][k] : k \in 1..Len(DependsOn[t])}]

LEMMA ChangesIsLife ==
    ASSUME TypeOK, RunnerInv, OrderInv, SpecAssumption, NEW r, NEW s, Changes(r, s)
    PROVE  Life!Next \/ UNCHANGED States
<1> DEFINE t == recs[r].task
<1>1. t \in Tasks /\ StateOf(t) = recs[r].state
  BY RecAt DEF Changes, StateOf
<1>2. States' = [States EXCEPT ![t] = s]
  BY <1>1, StatesAfter DEF Changes, States
<1>3. States[t] = recs[r].state /\ <<States[t], s>> \in LifeMoves
  BY <1>1 DEF States, Changes
<1>4. s = "RUNNING" => \A d \in ParentsOf[t] : States[d] \in {Absent, "SUCCEEDED"}
  <2> SUFFICES ASSUME s = "RUNNING", NEW d \in ParentsOf[t] PROVE States[d] \in {Absent, "SUCCEEDED"}
    OBVIOUS
  <2>1. PICK k \in 1..Len(DependsOn[t]) : d = DependsOn[t][k]
    BY <1>1 DEF ParentsOf
  <2>2. d \in Tasks
    BY <1>1, <2>1, ElementOfSeq DEF SpecAssumption
  <2>3. PICK w \in Workers : Busy(w) /\ TaskAt(w) = t
    BY DEF Changes
  <2> QED
    BY <2>1, <2>2, <2>3 DEF OrderInv, ParentsStand, States
<1> HIDE DEF t
<1>5. CASE s = "RUNNING"
  <2>1. Life!Begin(t)
    BY <1>1, <1>2, <1>3, <1>4, <1>5 DEF Life!Begin, Life!Becomes, LifeMoves, States, ParentsOf, Absent
  <2> QED
    BY <1>1, <2>1 DEF Life!Next
<1>6. CASE s = "ESCALATED"
  <2>1. Life!Escalate(t)
    BY <1>1, <1>2, <1>3, <1>6 DEF Life!Escalate, Life!Becomes, LifeMoves, States
  <2> QED
    BY <1>1, <2>1 DEF Life!Next
<1>7. CASE States[t] = "RUNNING" /\ s \in {"SUCCEEDED", "FAILED", "QUEUED"}
  <2>1. Life!Finish(t)
    BY <1>1, <1>2, <1>7 DEF Life!Finish, Life!Becomes, States
  <2> QED
    BY <1>1, <2>1 DEF Life!Next
<1>8. CASE States[t] = "ESCALATED" /\ s \in {"QUEUED", "CANCELLED"}
  <2>1. Life!Decide(t)
    BY <1>1, <1>2, <1>8 DEF Life!Decide, Life!Becomes, States
  <2> QED
    BY <1>1, <2>1 DEF Life!Next
<1>9. CASE States[t] = "QUEUED" /\ s = "QUEUED"
  BY <1>1, <1>2, <1>9 DEF States
<1> QED
  BY <1>3, <1>5, <1>6, <1>7, <1>8, <1>9 DEF LifeMoves

LEMMA EntersIsLife ==
    ASSUME TypeOK, RunnerInv, NEW t \in Tasks, Enters(t)
    PROVE  Life!Next \/ UNCHANGED States
<1>1. \A u \in Tasks : StateOf(u)' = IF u = t THEN "QUEUED" ELSE StateOf(u)
  <2> SUFFICES ASSUME NEW u \in Tasks PROVE StateOf(u)' = IF u = t THEN "QUEUED" ELSE StateOf(u)
    OBVIOUS
  <2>1. /\ registry' = [registry EXCEPT ![t] = Len(recs) + 1] /\ registry \in [Tasks -> 0..Len(recs)]
        /\ Len(recs) \in Nat /\ recs'[Len(recs) + 1].state = "QUEUED"
    BY RecsLen DEF Enters, Enqueue, TypeOK, QueueOK
  <2>2. CASE u = t
    BY <2>1, <2>2 DEF StateOf
  <2>3. CASE u # t
    <3>1. registry'[u] = registry[u]
      BY <2>1, <2>3
    <3>2. registry[u] # 0 => registry[u] \in 1..Len(recs) /\ recs'[registry[u]] = recs[registry[u]]
      BY Registered, EnqueueRecs DEF Enters
    <3> QED
      BY <2>3, <3>1, <3>2 DEF StateOf
  <2> QED
    BY <2>2, <2>3
<1>2. States' = [States EXCEPT ![t] = "QUEUED"]
  BY <1>1 DEF States
<1>3. CASE StateOf(t) = "QUEUED"
  BY <1>2, <1>3 DEF States
<1>4. CASE StateOf(t) = Absent
  <2>1. Life!Accept(t)
    BY <1>2, <1>4 DEF Life!Accept, Life!Becomes, States, Absent
  <2> QED
    BY <2>1 DEF Life!Next
<1> QED
  BY <1>3, <1>4 DEF Enters

(* The kernel implements the life cycle, step by step, where nothing is      *)
(* submitted before start, parents are submitted first, one thread applies   *)
(* decisions and nobody cancels: whatever fails, escalates, is retried under *)
(* a new record, or dies.                                                    *)
THEOREM KernelImplementsLife ==
    (EarlySubmit = FALSE /\ ParentsEarlier /\ OneDecider /\ MaxCancels = 0) => (Spec => LifeSpec)
<1> SUFFICES ASSUME EarlySubmit = FALSE, ParentsEarlier, OneDecider, MaxCancels = 0
             PROVE  Spec => LifeSpec
  OBVIOUS
<1>1. Init => Life!Init
  BY DEF Init, Life!Init, StateOf, Absent
<1>2. TypeOK /\ RunnerInv /\ KernelInv /\ InStep /\ OrderInv /\ [Next]_vars => Life!Next \/ UNCHANGED States
  <2> SUFFICES ASSUME TypeOK, RunnerInv, KernelInv, InStep, OrderInv, [Next]_vars
               PROVE  Life!Next \/ UNCHANGED States
    OBVIOUS
  <2>1. CASE UNCHANGED <<recs, registry>>
    BY <2>1 DEF States, StateOf
  <2>2. ASSUME NEW r, NEW s, Changes(r, s) PROVE Life!Next \/ UNCHANGED States
    BY <2>2, SpecAssumption, ChangesIsLife
  <2>3. ASSUME NEW t \in Tasks, Enters(t) PROVE Life!Next \/ UNCHANGED States
    BY <2>3, EntersIsLife
  <2>4. CASE Crash
    <3>1. States' = [t \in Tasks |-> Absent]
      BY <2>4 DEF Crash, States, StateOf
    <3> QED
      BY <3>1 DEF Life!Next, Life!Restart, States, Absent
  <2> QED
    BY <2>1, <2>2, <2>3, <2>4, StepKinds
<1>3. TypeOK /\ RunnerInv /\ KernelInv /\ InStep /\ OrderInv /\ [Next]_vars =>
        [Life!Next]_([t \in Tasks |-> StateOf(t)])
  BY <1>2 DEF States
<1>4. Spec => []KernelInv /\ []RunnerInv /\ []InStep /\ []OrderInv
  BY KernelInvariant, RunnerInvariant, StaysInStep, OrderInvariant
<1> QED
  BY <1>1, <1>3, <1>4, TypeCorrect, PTL DEF Spec, LifeSpec, Life!Spec
=============================================================================
