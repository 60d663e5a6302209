------------------------------ MODULE TitanOps ------------------------------
(* TITAN OPS: IMPERIUM's titan.* handler sends an instruction over a socket, *)
(* a thread of the daemon passes it through the constitution, runs it as a   *)
(* subprocess, records it and answers (titan_ops/executor.py, daemon.py).    *)
(* A handler that got no good answer is tried again by IMPERIUM, with an     *)
(* instruction of its own: a call is one job and the number of the attempt.  *)
EXTENDS Integers

CONSTANTS
    Jobs,              \* tasks of a titan.* kind
    Instructions,      \* what they may send: the fields of an instruction, whether a
                       \* constitutional rule matches it (gated), its binary can be
                       \* started (starts), and it has a rollback_hook (hook)
    MaxSends,          \* bound: attempts of one job
    MaxDaemonCrashes   \* bound: deaths of the daemon

ASSUME TitanAssumption == MaxSends \in Nat /\ MaxDaemonCrashes \in Nat

VARIABLES
    order,       \* job -> its instruction
    stage,       \* how far the daemon's thread is with a call
    result,      \* the ExecutionResult it holds
    process,     \* the subprocess and whoever has its pipes: "none", "alive" or "dead"
    answer,      \* what IMPERIUM's handler has been told
    ledger,      \* the audit records and bus events of calls
    hooks,       \* the rollback registry in the daemon's memory
    daemonUp, daemonCrashes

titanVars == <<order, stage, result, process, answer, ledger, hooks, daemonUp, daemonCrashes>>

Calls == Jobs \X (1..MaxSends)
Job(c) == c[1]
Stages == {"none", "inbox", "launch", "running", "overdue", "stuck", "exited", "recorded", "reply", "closed"}
Results == {"none", "malformed", "rejected", "escalated", "unstarted", "zero", "nonzero", "timeout",
            "raised"}
Answers == {"none", "waiting", "ok", "failed", "escalate", "lost"}
Entries == {"command", "REJECTED", "ESCALATED", "titan.completed", "titan.escalated"}

TitanTypeOK ==
    /\ order \in [Jobs -> Instructions]
    /\ stage \in [Calls -> Stages]
    /\ result \in [Calls -> Results]
    /\ process \in [Calls -> {"none", "alive", "dead"}]
    /\ answer \in [Calls -> Answers]
    /\ ledger \subseteq (Calls \X Entries)
    /\ hooks \subseteq Calls
    /\ daemonUp \in BOOLEAN
    /\ daemonCrashes \in 0..MaxDaemonCrashes

-----------------------------------------------------------------------------
(* Which instructions have an argv: the builders of executor.py, on POSIX. *)

PackageManagers == {"apt", "pip", "dnf", "yum", "pacman"}
FileOps == {"stat", "read", "list", "remove", "remove_tree", "mkdir", "chmod", "chown", "write"}
ServiceOps == {"start", "stop", "restart", "reload", "enable", "disable", "status", "mask", "unmask"}

PackageBuilds(o) == o.target /\ o.manager \in PackageManagers
FileBuilds(o) == o.target /\ o.op \in FileOps /\ (o.op \in {"chmod", "chown"} => o.detail)
ServiceBuilds(o) == o.target /\ o.op \in ServiceOps
ProcessBuilds(o) == o.op \in {"list", "tree"} \/ (o.op = "kill" /\ o.target)

Builds(o) ==
    CASE o.kind = "shell"   -> o.target
      [] o.kind = "package" -> PackageBuilds(o)
      [] o.kind = "file"    -> FileBuilds(o)
      [] o.kind = "service" -> ServiceBuilds(o)
      [] o.kind = "process" -> ProcessBuilds(o)

(* What IMPERIUM's handler makes of a result. *)
AnswerTo(r) == CASE r = "zero" -> "ok" [] r = "escalated" -> "escalate" [] OTHER -> "failed"

-----------------------------------------------------------------------------
TitanInit ==
    /\ order \in [Jobs -> Instructions]
    /\ stage = [c \in Calls |-> "none"]
    /\ result = [c \in Calls |-> "none"]
    /\ process = [c \in Calls |-> "none"]
    /\ answer = [c \in Calls |-> "none"]
    /\ ledger = {} /\ hooks = {}
    /\ daemonUp = TRUE /\ daemonCrashes = 0

(* IMPERIUM dispatches the job, or dispatches it again after a failure. *)
MaySend(c) ==
    /\ answer[c] = "none"
    /\ \A k \in 1..(c[2] - 1) : answer[<<Job(c), k>>] \in {"failed", "lost"}

Send(c) ==
    /\ MaySend(c)
    /\ \/ /\ daemonUp
          /\ stage' = [stage EXCEPT ![c] = "inbox"]
          /\ answer' = [answer EXCEPT ![c] = "waiting"]
       \/ /\ ~daemonUp
          /\ answer' = [answer EXCEPT ![c] = "failed"]
          /\ UNCHANGED stage
    /\ UNCHANGED <<order, result, process, ledger, hooks, daemonUp, daemonCrashes>>

(* The socket times out, or the connection breaks, before an answer came. *)
GiveUp(c) ==
    /\ answer[c] = "waiting"
    /\ answer' = [answer EXCEPT ![c] = "lost"]
    /\ UNCHANGED <<order, stage, result, process, ledger, hooks, daemonUp, daemonCrashes>>

(* _dispatch: parse, build, classify. Only what passes all three is run. *)
Malformed(c) == ~order[Job(c)].wellFormed

Refusal(c) ==
    IF Malformed(c) THEN [as |-> "malformed", logs |-> {}]
    ELSE IF ~Builds(order[Job(c)]) THEN [as |-> "rejected", logs |-> {"REJECTED"}]
    ELSE [as |-> "escalated", logs |-> {"ESCALATED", "titan.escalated"}]

Passes(c) == ~Malformed(c) /\ Builds(order[Job(c)]) /\ ~order[Job(c)].gated

Refuse(c) ==
    /\ stage[c] = "inbox" /\ ~Passes(c)
    /\ result' = [result EXCEPT ![c] = Refusal(c).as]
    /\ ledger' = ledger \cup ({c} \X Refusal(c).logs)
    /\ stage' = [stage EXCEPT ![c] = "reply"]
    /\ UNCHANGED <<order, process, answer, hooks, daemonUp, daemonCrashes>>

Admit(c) ==
    /\ stage[c] = "inbox" /\ Passes(c)
    /\ stage' = [stage EXCEPT ![c] = "launch"]
    /\ UNCHANGED <<order, result, process, answer, ledger, hooks, daemonUp, daemonCrashes>>

(* execute raises what it does not catch: no record, no hook, and the thread *)
(* ends, which closes the connection.                                        *)
Raises(c) ==
    /\ result' = [result EXCEPT ![c] = "raised"]
    /\ stage' = [stage EXCEPT ![c] = "reply"]

(* Popen raises an OSError, or a ValueError for what cannot be an argument.  *)
Launch(c) ==
    /\ stage[c] = "launch"
    /\ \/ /\ ~order[Job(c)].starts
          /\ result' = [result EXCEPT ![c] = "unstarted"]
          /\ stage' = [stage EXCEPT ![c] = "exited"]
          /\ UNCHANGED process
       \/ /\ ~order[Job(c)].starts
          /\ Raises(c) /\ UNCHANGED process
       \/ /\ order[Job(c)].starts
          /\ process' = [process EXCEPT ![c] = "alive"]
          /\ stage' = [stage EXCEPT ![c] = "running"]
          /\ UNCHANGED result
    /\ UNCHANGED <<order, answer, ledger, hooks, daemonUp, daemonCrashes>>

(* communicate returns when the pipes are closed, or raises, the process     *)
(* being gone, because the output is not text.                               *)
Collected(c, outcome) ==
    /\ process' = [process EXCEPT ![c] = "dead"]
    /\ \/ /\ result' = [result EXCEPT ![c] = outcome]
          /\ stage' = [stage EXCEPT ![c] = "exited"]
       \/ Raises(c)
    /\ UNCHANGED <<order, answer, ledger, hooks, daemonUp, daemonCrashes>>

Ends(c, code) == stage[c] = "running" /\ Collected(c, code)

(* timeout_sec is over: SIGTERM to the process group, five seconds' grace. *)
Overdue(c) ==
    /\ stage[c] = "running"
    /\ result' = [result EXCEPT ![c] = "timeout"]
    /\ stage' = [stage EXCEPT ![c] = "overdue"]
    /\ UNCHANGED <<order, process, answer, ledger, hooks, daemonUp, daemonCrashes>>

MutKilled(c) == FALSE

(* It is gone within the grace, or SIGKILL ends it: unless both signals are  *)
(* refused (the error is swallowed), or a process out of its group has its   *)
(* pipes. The last communicate has no timeout.                               *)
Killed(c) ==
    /\ stage[c] = "overdue"
    /\ \/ Collected(c, "timeout")
       \/ /\ stage' = [stage EXCEPT ![c] = "stuck"]
          /\ UNCHANGED <<order, result, process, answer, ledger, hooks, daemonUp, daemonCrashes>>

LetsGo(c) == stage[c] = "stuck" /\ Collected(c, "timeout")

Record(c) ==
    /\ stage[c] = "exited"
    /\ ledger' = ledger \cup {<<c, "command">>, <<c, "titan.completed">>}
    /\ stage' = [stage EXCEPT ![c] = "recorded"]
    /\ UNCHANGED <<order, result, process, answer, hooks, daemonUp, daemonCrashes>>

MutRegister(c) ==
    /\ stage[c] = "recorded"
    /\ hooks' = IF order[Job(c)].hook /\ result[c] # "zero" THEN hooks \cup {c} ELSE hooks
    /\ stage' = [stage EXCEPT ![c] = "reply"]
    /\ UNCHANGED <<order, result, process, answer, ledger, daemonUp, daemonCrashes>>

Register(c) ==
    /\ stage[c] = "recorded"
    /\ hooks' = IF order[Job(c)].hook THEN hooks \cup {c} ELSE hooks
    /\ stage' = [stage EXCEPT ![c] = "reply"]
    /\ UNCHANGED <<order, result, process, answer, ledger, daemonUp, daemonCrashes>>

(* The answer, or the end of the connection, reaches a handler that still    *)
(* waits, and nobody otherwise.                                              *)
Reply(c) ==
    /\ stage[c] = "reply"
    /\ stage' = [stage EXCEPT ![c] = "closed"]
    /\ answer' = IF answer[c] = "waiting"
                 THEN [answer EXCEPT ![c] = AnswerTo(result[c])] ELSE answer
    /\ UNCHANGED <<order, result, process, ledger, hooks, daemonUp, daemonCrashes>>

(* The daemon dies with its threads and its registry; the subprocesses have  *)
(* sessions of their own and live on, with nobody to stop them.              *)
DaemonCrash ==
    /\ daemonUp /\ daemonCrashes < MaxDaemonCrashes
    /\ daemonUp' = FALSE
    /\ daemonCrashes' = daemonCrashes + 1
    /\ stage' = [c \in Calls |-> IF stage[c] = "none" THEN "none" ELSE "closed"]
    /\ hooks' = {}
    /\ UNCHANGED <<order, result, process, answer, ledger>>

DaemonRestart ==
    /\ ~daemonUp /\ daemonUp' = TRUE
    /\ UNCHANGED <<order, stage, result, process, answer, ledger, hooks, daemonCrashes>>

OrphanEnds(c) ==
    /\ stage[c] = "closed" /\ process[c] = "alive"
    /\ process' = [process EXCEPT ![c] = "dead"]
    /\ UNCHANGED <<order, stage, result, answer, ledger, hooks, daemonUp, daemonCrashes>>

DaemonStep(c) ==
    \/ Refuse(c) \/ Admit(c) \/ Launch(c)
    \/ Overdue(c) \/ Killed(c) \/ Record(c) \/ Register(c) \/ Reply(c)

TitanNext ==
    \/ \E c \in Calls : \/ Send(c) \/ GiveUp(c) \/ DaemonStep(c) \/ LetsGo(c) \/ OrphanEnds(c)
                        \/ \E code \in {"zero", "nonzero"} : Ends(c, code)
    \/ DaemonCrash \/ DaemonRestart

TitanSpec == TitanInit /\ [][TitanNext]_titanVars

(* The daemon's threads run, and a timer that is due goes off. Nothing says  *)
(* that a command ends, or lets go of its pipes.                             *)
TitanFairness == \A c \in Calls : WF_titanVars(DaemonStep(c))

-----------------------------------------------------------------------------
(* That a retry may then run beside it is what the code does: nothing        *)
(* identifies the two sends as one (kernel.py:631-641 sends no               *)
(* instruction_id).                                                          *)
OverlapsOnlyAfterLoss ==
    \A c, d \in Calls :
        /\ Job(c) = Job(d) /\ c[2] < d[2]
        /\ process[c] = "alive" /\ process[d] # "none"
        => answer[c] = "lost"

(* What IMPERIUM has been told stands in the ledger. An ok answer: the       *)
(* command has run, its record and its event are out, and its rollback hook  *)
(* is registered for as long as this daemon lives. An escalation: no attempt *)
(* of the job has ever started. And an attempt runs beside an earlier one of *)
(* its job only when IMPERIUM has lost sight of the earlier one: a broken or *)
(* timed-out connection.                                                     *)
AnswerIsBacked ==
    /\ OverlapsOnlyAfterLoss
    /\ \A c \in Calls :
           /\ answer[c] = "ok" =>
                /\ process[c] = "dead"
                /\ {<<c, "command">>, <<c, "titan.completed">>} \subseteq ledger
                /\ order[Job(c)].hook /\ daemonCrashes = 0 => c \in hooks
           /\ answer[c] = "escalate" =>
                /\ {<<c, "ESCALATED">>, <<c, "titan.escalated">>} \subseteq ledger
                /\ \A d \in Calls : Job(d) = Job(c) => process[d] = "none"

(* A command that has been started is attributed in the audit log, whatever  *)
(* it does with its SIGTERM: unless the daemon dies first, what it printed   *)
(* is not text, or it holds on to its pipes for ever against SIGKILL.        *)
EveryRunIsAttributed ==
    \A c \in Calls :
        \/ (stage[c] = "running") ~> (\/ <<c, "command">> \in ledger
                                     \/ result[c] = "raised" \/ daemonCrashes > 0)
        \/ <>[](stage[c] = "stuck")
=============================================================================
