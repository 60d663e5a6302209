----------------------------- MODULE TitanProofs -----------------------------
(***************************************************************************)
(* TITAN OPS: what IMPERIUM has been told is so, for any number of jobs,     *)
(* attempts, instructions and deaths of the daemon; and the registry of      *)
(* undos puts back what it has snapshots of, for any files, instructions and *)
(* any number of undos.                                                      *)
(***************************************************************************)
EXTENDS TitanOps, TitanRollback, SequenceTheorems, WellFoundedInduction, NaturalsInduction, TLAPS

(* What stage a call is at says what its process and its result can be.      *)
StageSays(c) ==
    /\ stage[c] \in {"none", "inbox", "launch"} => process[c] = "none" /\ result[c] = "none"
    /\ stage[c] = "running" => process[c] = "alive" /\ result[c] = "none"
    /\ stage[c] \in {"exited", "recorded", "reply"} => process[c] # "alive"
    /\ stage[c] \in {"exited", "recorded", "reply"} /\ result[c] = "zero" => process[c] = "dead"
    /\ stage[c] \in {"overdue", "stuck"} => result[c] = "timeout"
    /\ stage[c] \in {"exited", "recorded"} => result[c] # "escalated"
    /\ stage[c] \in {"launch", "running", "overdue", "stuck", "exited", "recorded"} \/ process[c] # "none" =>
         Passes(c)

(* What has been entered by the time a call is at its reply.                 *)
Backed(c) ==
    /\ stage[c] \in {"recorded", "reply"} /\ result[c] = "zero" =>
         {<<c, "command">>, <<c, "titan.completed">>} \subseteq ledger
    /\ stage[c] = "reply" /\ result[c] = "zero" /\ order[Job(c)].hook /\ daemonCrashes = 0 => c \in hooks
    /\ stage[c] = "reply" /\ result[c] = "escalated" =>
         ~Passes(c) /\ {<<c, "ESCALATED">>, <<c, "titan.escalated">>} \subseteq ledger

(* What has been answered, and when: a call that failed has no process.      *)
Told(c) ==
    /\ answer[c] = "none" => stage[c] = "none"
    /\ answer[c] = "ok" =>
         /\ process[c] = "dead" /\ stage[c] = "closed"
         /\ {<<c, "command">>, <<c, "titan.completed">>} \subseteq ledger
         /\ order[Job(c)].hook /\ daemonCrashes = 0 => c \in hooks
    /\ answer[c] = "escalate" =>
         ~Passes(c) /\ {<<c, "ESCALATED">>, <<c, "titan.escalated">>} \subseteq ledger
    /\ answer[c] = "failed" => process[c] # "alive" /\ stage[c] \in {"none", "closed"}

(* An attempt is made when the ones before it failed or were lost.           *)
InTurn(c) ==
    answer[c] # "none" =>
        \A d \in Calls : Job(d) = Job(c) /\ d[2] < c[2] => answer[d] \in {"failed", "lost"}

TitanInv == TitanTypeOK /\ \A c \in Calls : StageSays(c) /\ Backed(c) /\ Told(c) /\ InTurn(c)

LEMMA TitanInitInv == TitanInit => TitanInv
BY TitanAssumption
DEF TitanInit, TitanInv, TitanTypeOK, StageSays, Backed, Told, InTurn, Stages, Results, Answers

(* Whether a call passes depends on its instruction alone.                   *)
LEMMA PassesStays == order' = order => \A c : Passes(c)' = Passes(c)
BY DEF Passes, Malformed, Builds, PackageBuilds, FileBuilds, ServiceBuilds, ProcessBuilds

LEMMA JobsAlike == \A c, d \in Calls : Job(c) = Job(d) => (Passes(c) <=> Passes(d))
BY DEF Passes, Malformed

(* A step at one call leaves the others as they are, whatever it enters.      *)
Untouched(d) ==
    /\ stage'[d] = stage[d] /\ result'[d] = result[d]
    /\ process'[d] = process[d] /\ answer'[d] = answer[d]

Grows ==
    /\ order' = order /\ ledger \subseteq ledger' /\ hooks \subseteq hooks'
    /\ daemonCrashes' = daemonCrashes

Said(d) == StageSays(d) /\ Backed(d) /\ Told(d)

LEMMA OthersStay == ASSUME NEW d, Grows, Untouched(d), Said(d) PROVE Said(d)'
BY PassesStays DEF Grows, Untouched, Said, StageSays, Backed, Told

LEMMA OneMoves ==
    ASSUME NEW c \in Calls, TitanTypeOK, Grows, \A d \in Calls : Said(d) /\ (d # c => Untouched(d)), Said(c)'
    PROVE  \A d \in Calls : Said(d)'
BY OthersStay

(* The turn is kept while no answer but to a call that waits changes.        *)
LEMMA TurnsStay ==
    ASSUME \A d \in Calls : InTurn(d),
           \A d \in Calls : answer'[d] = answer[d] \/ (answer[d] = "waiting" /\ answer'[d] # "none")
    PROVE  \A d \in Calls : InTurn(d)'
BY DEF InTurn

LEMMA TitanTypeKept == TitanTypeOK /\ [TitanNext]_titanVars => TitanTypeOK'
<1> SUFFICES ASSUME TitanTypeOK, [TitanNext]_titanVars PROVE TitanTypeOK'
  OBVIOUS
<1> USE TitanAssumption DEF TitanTypeOK
<1>1. ASSUME NEW c \in Calls, Send(c) \/ GiveUp(c) \/ Admit(c) \/ Launch(c) \/ Overdue(c)
      PROVE  TitanTypeOK'
  BY <1>1 DEF Send, GiveUp, Admit, Launch, Raises, Overdue, Stages, Results, Answers
<1>2. ASSUME NEW c \in Calls, Refuse(c) PROVE TitanTypeOK'
  BY <1>2 DEF Refuse, Refusal, Stages, Results, Entries
<1>3. ASSUME NEW c \in Calls, NEW code \in {"zero", "nonzero"}, Ends(c, code) PROVE TitanTypeOK'
  BY <1>3 DEF Ends, Collected, Raises, Stages, Results
<1>7. ASSUME NEW c \in Calls, Killed(c) \/ LetsGo(c) PROVE TitanTypeOK'
  BY <1>7 DEF Killed, LetsGo, Collected, Raises, Stages, Results
<1>4. ASSUME NEW c \in Calls, OrphanEnds(c) \/ Record(c) \/ Register(c) \/ Reply(c)
      PROVE  TitanTypeOK'
  BY <1>4 DEF OrphanEnds, Record, Register, Reply, AnswerTo, Stages, Entries, Answers
<1>5. CASE DaemonCrash
  <2>1. \A c \in Calls : stage'[c] \in Stages
    BY <1>5 DEF DaemonCrash, Stages
  <2>2. stage' \in [Calls -> Stages]
    BY <1>5, <2>1 DEF DaemonCrash
  <2>3. daemonCrashes' \in 0..MaxDaemonCrashes
    BY <1>5 DEF DaemonCrash
  <2> QED BY <1>5, <2>2, <2>3 DEF DaemonCrash
<1>6. CASE DaemonRestart \/ UNCHANGED titanVars
  BY <1>6 DEF DaemonRestart, titanVars
<1> QED BY <1>1, <1>2, <1>3, <1>4, <1>5, <1>6, <1>7 DEF TitanNext, DaemonStep

LEMMA TitanStepInv == TitanInv /\ [TitanNext]_titanVars => TitanInv'
<1> SUFFICES ASSUME TitanInv, [TitanNext]_titanVars
             PROVE  \A d \in Calls : Said(d)' /\ InTurn(d)'
  BY TitanTypeKept DEF TitanInv, Said
<1>0. TitanTypeOK /\ \A c \in Calls : Said(c) /\ InTurn(c)
  BY DEF TitanInv, Said
<1> DEFINE Goal == \A d \in Calls : Said(d)' /\ InTurn(d)'
<1> HIDE DEF Goal
<1>1. ASSUME NEW c \in Calls, Send(c) PROVE Goal
  <2>1. /\ answer[c] = "none" /\ stage[c] = "none" /\ process[c] = "none" /\ result[c] = "none"
        /\ \/ answer'[c] = "waiting" /\ stage'[c] = "inbox"
           \/ answer'[c] = "failed" /\ stage'[c] = "none"
        /\ \A d \in Calls : d # c => Untouched(d)
        /\ UNCHANGED <<process, result>> /\ Grows
    BY <1>0, <1>1 DEF Send, MaySend, Untouched, Grows, Said, Told, StageSays, TitanTypeOK
  <2>2. Passes(c)' = Passes(c)
    BY <2>1, PassesStays DEF Grows
  <2>3. Said(c)'
    BY <1>0, <2>1, <2>2 DEF Said, StageSays, Backed, Told
  <2>4. \A d \in Calls : Job(d) = Job(c) /\ d[2] < c[2] => answer[d] \in {"failed", "lost"}
    <3> SUFFICES ASSUME NEW d \in Calls, Job(d) = Job(c), d[2] < c[2]
                 PROVE  answer[d] \in {"failed", "lost"}
      OBVIOUS
    <3>1. d = <<Job(c), d[2]>> /\ d[2] \in 1..(c[2] - 1)
      BY TitanAssumption DEF Calls, Job
    <3> QED BY <1>1, <3>1 DEF Send, MaySend
  <2>5. \A d \in Calls : InTurn(d)'
    BY <1>0, <2>1, <2>4 DEF Untouched, InTurn
  <2> QED BY <1>0, <2>1, <2>3, <2>5, OneMoves DEF Goal
<1>2. ASSUME NEW c \in Calls, Grows, \A d \in Calls : d # c => Untouched(d), Said(c)',
             answer'[c] = answer[c] \/ (answer[c] = "waiting" /\ answer'[c] # "none")
      PROVE  Goal
  <2>1. \A d \in Calls : Said(d)'
    BY <1>0, <1>2, OneMoves
  <2>2. \A d \in Calls : answer'[d] = answer[d] \/ (answer[d] = "waiting" /\ answer'[d] # "none")
    BY <1>2 DEF Untouched
  <2> QED BY <1>0, <2>1, <2>2, TurnsStay DEF Goal
<1>3. ASSUME NEW c \in Calls, GiveUp(c) PROVE Goal
  <2>1. /\ answer[c] = "waiting" /\ answer'[c] = "lost" /\ Grows /\ UNCHANGED <<stage, process, result>>
        /\ \A d \in Calls : d # c => Untouched(d)
        /\ UNCHANGED <<hooks, ledger>>
    BY <1>0, <1>3 DEF GiveUp, Grows, Untouched, TitanTypeOK
  <2>2. Passes(c)' = Passes(c)
    BY <2>1, PassesStays DEF Grows
  <2>3. Said(c)'
    BY <1>0, <2>1, <2>2 DEF Said, StageSays, Backed, Told, Grows
  <2> QED BY <1>2, <2>1, <2>3
<1>4. ASSUME NEW c \in Calls, Refuse(c) PROVE Goal
  <2>1. /\ stage[c] = "inbox" /\ stage'[c] = "reply" /\ ~Passes(c) /\ result'[c] = Refusal(c).as
        /\ ledger' = ledger \cup ({c} \X Refusal(c).logs) /\ Grows /\ UNCHANGED <<answer, process>>
        /\ \A d \in Calls : d # c => Untouched(d)
    BY <1>0, <1>4 DEF Refuse, Grows, Untouched, TitanTypeOK
  <2>2. Passes(c)' = Passes(c)
    BY <2>1, PassesStays DEF Grows
  <2>3. /\ Refusal(c).as \in {"malformed", "rejected", "escalated"}
        /\ Refusal(c).as = "escalated" => Refusal(c).logs = {"ESCALATED", "titan.escalated"}
    BY DEF Refusal
  <2>4. StageSays(c)' /\ Told(c)'
    BY <1>0, <2>1, <2>2, <2>3 DEF Said, StageSays, Told
  <2>5. Backed(c)'
    BY <2>1, <2>2, <2>3 DEF Backed
  <2> QED BY <1>2, <2>1, <2>4, <2>5 DEF Said
<1>5. ASSUME NEW c \in Calls, Admit(c) PROVE Goal
  <2>1. /\ stage[c] = "inbox" /\ stage'[c] = "launch" /\ Passes(c)
        /\ Grows /\ UNCHANGED <<answer, process, result>> /\ \A d \in Calls : d # c => Untouched(d)
    BY <1>0, <1>5 DEF Admit, Grows, Untouched, TitanTypeOK
  <2>2. Said(c)'
    BY <1>0, <2>1, PassesStays DEF Said, StageSays, Backed, Told, Grows
  <2> QED BY <1>2, <2>1, <2>2
<1>6. ASSUME NEW c \in Calls, Launch(c) PROVE Goal
  <2>1. /\ stage[c] = "launch"
        /\ \/ stage'[c] = "exited" /\ result'[c] = "unstarted" /\ process'[c] = process[c]
           \/ stage'[c] = "reply" /\ result'[c] = "raised" /\ process'[c] = process[c]
           \/ stage'[c] = "running" /\ result'[c] = result[c] /\ process'[c] = "alive"
        /\ Grows /\ UNCHANGED answer /\ \A d \in Calls : d # c => Untouched(d)
    BY <1>0, <1>6 DEF Launch, Raises, Grows, Untouched, TitanTypeOK
  <2>2. Said(c)'
    BY <1>0, <2>1, PassesStays DEF Said, StageSays, Backed, Told, Grows
  <2> QED BY <1>2, <2>1, <2>2
<1>16. ASSUME NEW c \in Calls, NEW outcome \in {"zero", "nonzero", "timeout"}, Collected(c, outcome),
             stage[c] \in {"running", "overdue", "stuck"}
       PROVE  Goal
  <2>1. /\ \/ stage'[c] = "exited" /\ result'[c] = outcome
           \/ stage'[c] = "reply" /\ result'[c] = "raised"
        /\ process'[c] = "dead"
        /\ Grows /\ UNCHANGED answer /\ \A d \in Calls : d # c => Untouched(d)
    BY <1>0, <1>16 DEF Collected, Raises, Grows, Untouched, TitanTypeOK
  <2>2. Said(c)'
    BY <1>0, <1>16, <2>1, PassesStays DEF Said, StageSays, Backed, Told, Grows
  <2> QED BY <1>2, <2>1, <2>2
<1>7. ASSUME NEW c \in Calls, NEW code \in {"zero", "nonzero"}, Ends(c, code) PROVE Goal
  BY <1>0, <1>7, <1>16 DEF Ends, Said, StageSays
<1>8. ASSUME NEW c \in Calls, Overdue(c) PROVE Goal
  <2>1. /\ stage[c] = "running" /\ stage'[c] = "overdue" /\ result'[c] = "timeout"
        /\ Grows /\ UNCHANGED <<answer, process>> /\ \A d \in Calls : d # c => Untouched(d)
    BY <1>0, <1>8 DEF Overdue, Grows, Untouched, TitanTypeOK
  <2>2. Said(c)'
    BY <1>0, <2>1, PassesStays DEF Said, StageSays, Backed, Told, Grows
  <2> QED BY <1>2, <2>1, <2>2
<1>9. ASSUME NEW c \in Calls, Killed(c) PROVE Goal
  <2>1. CASE Collected(c, "timeout")
    BY <1>9, <1>16, <2>1 DEF Killed
  <2>2. CASE stage' = [stage EXCEPT ![c] = "stuck"]
             /\ UNCHANGED <<order, result, process, answer, ledger, hooks, daemonUp, daemonCrashes>>
    <3>1. /\ stage[c] = "overdue" /\ stage'[c] = "stuck"
          /\ Grows /\ UNCHANGED <<answer, process, result>> /\ \A d \in Calls : d # c => Untouched(d)
      BY <1>0, <1>9, <2>2 DEF Killed, Grows, Untouched, TitanTypeOK
    <3>2. Said(c)'
      BY <1>0, <3>1, PassesStays DEF Said, StageSays, Backed, Told, Grows
    <3> QED BY <1>2, <3>1, <3>2
  <2> QED BY <1>9, <2>1, <2>2 DEF Killed
<1>17. ASSUME NEW c \in Calls, LetsGo(c) PROVE Goal
  BY <1>16, <1>17 DEF LetsGo
<1>10. ASSUME NEW c \in Calls, OrphanEnds(c) PROVE Goal
  <2>1. /\ stage[c] = "closed" /\ process[c] = "alive" /\ process'[c] = "dead"
        /\ Grows /\ UNCHANGED <<answer, result, stage, ledger, hooks>>
        /\ \A d \in Calls : d # c => Untouched(d)
    BY <1>0, <1>10 DEF OrphanEnds, Grows, Untouched, TitanTypeOK
  <2>2. Said(c)'
    BY <1>0, <2>1, PassesStays DEF Said, StageSays, Backed, Told, Grows
  <2> QED BY <1>2, <2>1, <2>2
<1>11. ASSUME NEW c \in Calls, Record(c) PROVE Goal
  <2>1. /\ stage[c] = "exited" /\ stage'[c] = "recorded"
        /\ ledger' = ledger \cup {<<c, "command">>, <<c, "titan.completed">>}
        /\ Grows /\ UNCHANGED <<answer, result, process>> /\ \A d \in Calls : d # c => Untouched(d)
    BY <1>0, <1>11 DEF Record, Grows, Untouched, TitanTypeOK
  <2>2. Said(c)'
    BY <1>0, <2>1, PassesStays DEF Said, StageSays, Backed, Told, Grows
  <2> QED BY <1>2, <2>1, <2>2
<1>12. ASSUME NEW c \in Calls, Register(c) PROVE Goal
  <2>1. /\ stage[c] = "recorded" /\ stage'[c] = "reply" /\ (order[Job(c)].hook => c \in hooks')
        /\ Grows /\ UNCHANGED <<answer, result, process>> /\ \A d \in Calls : d # c => Untouched(d)
    BY <1>0, <1>12 DEF Register, Grows, Untouched, TitanTypeOK
  <2>2. Said(c)'
    BY <1>0, <2>1, PassesStays DEF Said, StageSays, Backed, Told, Grows
  <2> QED BY <1>2, <2>1, <2>2
<1>13. ASSUME NEW c \in Calls, Reply(c) PROVE Goal
  <2>1. /\ stage[c] = "reply" /\ stage'[c] = "closed"
        /\ answer'[c] = IF answer[c] = "waiting" THEN AnswerTo(result[c]) ELSE answer[c]
        /\ Grows /\ UNCHANGED <<result, process, ledger, hooks>>
        /\ \A d \in Calls : d # c => Untouched(d)
    BY <1>0, <1>13 DEF Reply, Grows, Untouched, TitanTypeOK
  <2>2. /\ AnswerTo(result[c]) \in {"ok", "escalate", "failed"}
        /\ AnswerTo(result[c]) = "ok" => result[c] = "zero"
        /\ AnswerTo(result[c]) = "escalate" => result[c] = "escalated"
    BY DEF AnswerTo
  <2>3. StageSays(c)' /\ Backed(c)'
    BY <1>0, <2>1, PassesStays DEF Said, StageSays, Backed, Grows
  <2>4. Told(c)'
    BY <1>0, <2>1, <2>2, PassesStays DEF Said, StageSays, Backed, Told, Grows
  <2> QED BY <1>2, <2>1, <2>2, <2>3, <2>4 DEF Said
<1>14. CASE DaemonCrash
  <2>1. /\ order' = order /\ UNCHANGED <<answer, result, process, ledger>>
        /\ daemonCrashes' = daemonCrashes + 1 /\ daemonCrashes \in Nat
        /\ \A d \in Calls : stage'[d] = IF stage[d] = "none" THEN "none" ELSE "closed"
    BY <1>0, <1>14, TitanAssumption DEF DaemonCrash, TitanTypeOK
  <2>2. ASSUME NEW d \in Calls PROVE Said(d)'
    <3>1. /\ Passes(d)' = Passes(d) /\ Said(d) /\ daemonCrashes' # 0
          /\ stage'[d] = IF stage[d] = "none" THEN "none" ELSE "closed"
      BY <1>0, <2>1, PassesStays
    <3>2. CASE stage[d] = "none"
      BY <2>1, <3>1, <3>2 DEF Said, StageSays, Backed, Told
    <3>3. CASE stage[d] # "none"
      BY <2>1, <3>1, <3>3 DEF Said, StageSays, Backed, Told
    <3> QED BY <3>2, <3>3
  <2>3. \A d \in Calls : InTurn(d)'
    BY <1>0, <2>1 DEF InTurn
  <2> QED BY <2>2, <2>3 DEF Goal
<1>15. CASE DaemonRestart \/ UNCHANGED titanVars
  <2>1. Grows /\ \A d \in Calls : Untouched(d)
    BY <1>15 DEF DaemonRestart, titanVars, Grows, Untouched
  <2>2. \A d \in Calls : Said(d)'
    BY <1>0, <2>1, OthersStay
  <2>3. \A d \in Calls : InTurn(d)'
    BY <1>0, <2>1 DEF Untouched, InTurn
  <2> QED BY <2>2, <2>3 DEF Goal
<1> QED
  BY <1>1, <1>3, <1>4, <1>5, <1>6, <1>7, <1>8, <1>9, <1>10, <1>11, <1>12, <1>13, <1>14, <1>15, <1>17
  DEF TitanNext, DaemonStep, Goal

(* executor.py, daemon.py and the handler in kernel.py: whatever the number  *)
(* of attempts, lost answers and crashes, an answer IMPERIUM has acted on is *)
(* backed by what the daemon did and recorded, and two attempts of one job   *)
(* run side by side only when the answer to the first was lost.              *)
THEOREM AnswersAreBacked == TitanSpec => []AnswerIsBacked
<1>1. TitanInv => AnswerIsBacked
  <2> SUFFICES ASSUME TitanInv PROVE AnswerIsBacked
    OBVIOUS
  <2>0. TitanTypeOK /\ \A c \in Calls : StageSays(c) /\ Backed(c) /\ Told(c) /\ InTurn(c)
    BY DEF TitanInv
  <2>1. OverlapsOnlyAfterLoss
    <3> SUFFICES ASSUME NEW c \in Calls, NEW d \in Calls, Job(c) = Job(d), c[2] < d[2],
                        process[c] = "alive", process[d] # "none"
                 PROVE  answer[c] = "lost"
      BY DEF OverlapsOnlyAfterLoss
    <3>1. answer[d] # "none"
      BY <2>0 DEF Told, StageSays
    <3>2. answer[c] \in {"failed", "lost"}
      BY <2>0, <3>1 DEF InTurn
    <3> QED BY <2>0, <3>2 DEF Told
  <2>2. ASSUME NEW c \in Calls, answer[c] = "escalate", NEW d \in Calls, Job(d) = Job(c)
        PROVE  process[d] = "none"
    BY <2>0, <2>2, JobsAlike DEF Told, StageSays
  <2> QED BY <2>0, <2>1, <2>2 DEF AnswerIsBacked, Told
<1> QED BY <1>1, TitanInitInv, TitanStepInv, PTL DEF TitanSpec
-----------------------------------------------------------------------------
(***************************************************************************)
(* Undo. Induction over a range of numbers, for a set of them.               *)
(***************************************************************************)
LEMMA RangeReached ==
    ASSUME NEW a \in Nat, NEW b \in Nat, NEW T, a \in T, \A n \in a..(b - 1) : n \in T => n + 1 \in T
    PROVE  \A n \in a..b : n \in T
<1> DEFINE Bad == {n \in a..b : n \notin T}
<1> SUFFICES ASSUME Bad # {} PROVE FALSE
  OBVIOUS
<1> DEFINE R == OpToRel(<, Nat)
<1>1. IsWellFoundedOn(R, Nat)
  BY NatLessThanWellFounded
<1>2. \A k, m \in Nat : k < m => <<k, m>> \in R
  BY DEF OpToRel
<1>3. Bad \subseteq Nat
  OBVIOUS
<1> HIDE DEF R, Bad
<1>4. PICK m \in Bad : \A k \in Bad : <<k, m>> \notin R
  BY <1>1, <1>3, WFMin
<1>5. m \in a..b /\ m \notin T /\ m # a
  BY <1>4 DEF Bad
<1>6. m - 1 \in a..(b - 1) /\ m - 1 \in a..b /\ (m - 1) + 1 = m
  BY <1>5
<1>7. m - 1 \notin Bad
  <2>1. m \in Nat /\ m - 1 \in Nat /\ m - 1 < m
    BY <1>5, <1>6
  <2> QED
    BY <1>2, <1>4, <2>1
<1>8. m - 1 \in T
  BY <1>6, <1>7 DEF Bad
<1> QED
  BY <1>5, <1>6, <1>8

(* What undoing the n newest entries gives, as the equation it is meant by.  *)
UndoneBy(g, n) == IF n = 0 THEN files ELSE Restored(hookList[Len(hookList) - n + 1], g[n - 1])
Unwound(g, m) == g = [n \in 0..m |-> UndoneBy(g, n)]

LEMMA UndoneExists ==
    ASSUME Len(hookList) \in Nat
    PROVE  \E g : Unwound(g, Len(hookList))
<1> DEFINE T == {m \in Nat : \E g : Unwound(g, m)}
<1>1. 0 \in T
  <2> DEFINE g == [n \in 0..0 |-> files]
  <2>1. g = [n \in 0..0 |-> UndoneBy(g, n)]
    BY DEF UndoneBy
  <2> HIDE DEF g
  <2>2. Unwound(g, 0)
    BY <2>1 DEF Unwound
  <2> QED
    BY <2>2
<1>2. ASSUME NEW m \in 0..(Len(hookList) - 1), m \in T PROVE m + 1 \in T
  <2>1. PICK f : Unwound(f, m)
    BY <1>2
  <2> DEFINE g == [n \in 0..(m + 1) |-> UndoneBy(f, n)]
  <2>2. \A n \in 0..(m + 1) : g[n] = UndoneBy(f, n)
    OBVIOUS
  <2>3. \A n \in 0..m : f[n] = UndoneBy(f, n)
    BY <2>1 DEF Unwound
  <2>4. \A n \in 0..(m + 1) : UndoneBy(g, n) = UndoneBy(f, n)
    <3> TAKE n \in 0..(m + 1)
    <3>1. CASE n = 0
      BY <3>1 DEF UndoneBy
    <3>2. CASE n # 0
      <4>1. n - 1 \in 0..m /\ n - 1 \in 0..(m + 1)
        BY <3>2
      <4>2. g[n - 1] = f[n - 1]
        BY <2>2, <2>3, <4>1
      <4> HIDE DEF g
      <4> QED
        BY <4>2 DEF UndoneBy
    <3> QED
      BY <3>1, <3>2
  <2>5. g = [n \in 0..(m + 1) |-> UndoneBy(g, n)]
    BY <2>4
  <2> HIDE DEF g
  <2>6. Unwound(g, m + 1)
    BY <2>5 DEF Unwound
  <2> QED
    BY <2>6
<1> HIDE DEF T
<1>3. \A n \in 0..Len(hookList) : n \in T
  BY <1>1, <1>2, RangeReached
<1> QED
  BY <1>3 DEF T

LEMMA UndoneUnfolds ==
    ASSUME Len(hookList) \in Nat
    PROVE  \A n \in 0..Len(hookList) : Undone[n] = UndoneBy(Undone, n)
<1> DEFINE F(g) == [n \in 0..Len(hookList) |->
                      IF n = 0 THEN files ELSE Restored(hookList[Len(hookList) - n + 1], g[n - 1])]
<1>1. PICK h : h = F(h)
  BY UndoneExists DEF Unwound, UndoneBy
<1>2. Undone = CHOOSE g : g = F(g)
  BY DEF Undone
<1> HIDE DEF F
<1>3. Undone = F(Undone)
  BY <1>1, <1>2
<1> QED
  BY <1>3 DEF F, UndoneBy

-----------------------------------------------------------------------------
(* The registry: an entry is of an instruction that has run, one for each,   *)
(* and a shell hook until the instruction is settled.                        *)
Held == Contents \cup {Absent, DiffText, HookText, TornText, "none"}   \* in a file, or as a copy
Hooks == [instr : Undoables, kind : {"shell", "snapshot", "file_diff"}, copy : Held,
          diffs : BOOLEAN]

RollbackShape ==
    /\ files \in [Paths -> Held] /\ found \in [Paths -> Held]
    /\ progress \in [Undoables -> {"idle", "ready", "ran", "failed", "over"}]
    /\ copies \in [Undoables -> Held]
    /\ hookList \in Seq(Hooks)

EntriesOwn ==
    /\ \A k \in 1..Len(hookList) :
         /\ progress[hookList[k].instr] \in {"ran", "failed", "over"}
         /\ InFlight(hookList[k].instr) => hookList[k].kind = "shell"
    /\ \A k, l \in 1..Len(hookList) : hookList[k].instr = hookList[l].instr => k = l

(* On a path nothing went wrong with, one instruction is under way at a      *)
(* time, and its entry, if it has one, is the newest of the path.            *)
Alone(p) ==
    /\ \A i, j \in Undoables : InFlight(i) /\ InFlight(j) /\ Path(i) = p /\ Path(j) = p => i = j
    /\ \A k, l \in 1..Len(hookList) :
         InFlight(hookList[k].instr) /\ Path(hookList[k].instr) = p /\ Path(hookList[l].instr) = p => l <= k

(* What is undone last on a path is its oldest entry that writes. If that is *)
(* a snapshot, it holds what the file held at the beginning. As long as no   *)
(* settled instruction left one, the file does, but for a hook undone while  *)
(* its instruction is under way, or the instruction that has changed it has  *)
(* a copy.                                                                   *)
Snaps(k, p) == Path(hookList[k].instr) = p /\ GivesBack(hookList[k])
Writes(k, p) == Path(hookList[k].instr) = p /\ (GivesBack(hookList[k]) \/ WritesText(hookList[k]))
Oldest(k, p) == Snaps(k, p) /\ \A l \in 1..(k - 1) : ~Writes(l, p)
Bare(p) == \A k \in 1..Len(hookList) : ~Writes(k, p)
Unsettled(p) == \A k \in 1..Len(hookList) : Writes(k, p) => InFlight(hookList[k].instr)
Changed(p) == \E i \in Undoables : Path(i) = p /\ Destructive(i) /\ progress[i] = "ran"

Covered(p) ==
    /\ \A k \in 1..Len(hookList) : Oldest(k, p) => hookList[k].copy = found[p]
    /\ Unsettled(p) =>
         /\ \A i \in Undoables : Path(i) = p /\ Destructive(i) /\ progress[i] = "ran" =>
               copies[i] = found[p]
         /\ Changed(p) \/ files[p] \in {found[p], HookText}
    /\ Bare(p) => Changed(p) \/ files[p] = found[p]

RollbackInv ==
    /\ RollbackShape /\ EntriesOwn
    /\ \A p \in Paths \ uncovered : Alone(p) /\ (found[p] # Absent => Covered(p))

LEMMA HookAt ==
    ASSUME RollbackShape
    PROVE  /\ Len(hookList) \in Nat
           /\ \A k \in 1..Len(hookList) : hookList[k] \in Hooks /\ hookList[k].instr \in Undoables
<1>1. Len(hookList) \in Nat /\ \A k \in 1..Len(hookList) : hookList[k] \in Hooks
  BY ElementOfSeq, LenProperties DEF RollbackShape
<1> QED
  BY <1>1 DEF Hooks

LEMMA PathsAndContents ==
    ASSUME NEW i \in Undoables
    PROVE  Path(i) \in Paths /\ (RollbackShape => Effect(i) \in Held) /\ Command[i].hook \in BOOLEAN
BY RollbackAssumption DEF Path, Effect, Held, RollbackShape

LEMMA RollbackInitInv == RollbackInit => RollbackInv
<1> SUFFICES ASSUME RollbackInit PROVE RollbackInv
  OBVIOUS
<1>1. Len(hookList) = 0 /\ hookList \in Seq(Hooks)
  BY EmptySeq DEF RollbackInit
<1>2. \A i \in Undoables : progress[i] = "idle"
  BY DEF RollbackInit
<1> QED
  BY <1>1, <1>2
  DEF RollbackInit, RollbackInv, RollbackShape, EntriesOwn, Alone, Covered, InFlight, Held, Oldest

(* A path the step does not touch, and that has nothing new in the registry. *)
LEMMA CaptureInv ==
    ASSUME RollbackInv, NEW i \in Undoables, Capture(i)
    PROVE  RollbackInv'
<1>0. RollbackShape /\ EntriesOwn
  BY DEF RollbackInv
<1>1. /\ progress[i] = "idle" /\ UNCHANGED <<files, found, hookList>> /\ Path(i) \in Paths
      /\ progress' = [progress EXCEPT ![i] = "ready"]
      /\ uncovered \subseteq uncovered'
      /\ Path(i) \notin uncovered' => \A j \in Undoables : InFlight(j) => Path(j) # Path(i)
  BY PathsAndContents DEF Capture, Taken
<1>2. /\ progress'[i] = "ready" /\ \A j \in Undoables \ {i} : progress'[j] = progress[j]
      /\ progress' \in [Undoables -> {"idle", "ready", "ran", "failed", "over"}]
  BY <1>0, <1>1 DEF RollbackShape
<1>3. /\ copies' \in [Undoables -> Held]
      /\ \A j \in Undoables \ {i} : copies'[j] = copies[j]
  <2>1. PICK copy \in Copied(i) : Taken(i, copy)
    BY DEF Capture
  <2>2. copy \in Held
    BY <1>0, <1>1 DEF RollbackShape, Copied, Held
  <2> QED
    BY <1>0, <2>1, <2>2 DEF RollbackShape, Taken
<1>4. \A k \in 1..Len(hookList) : hookList[k].instr \in Undoables \ {i}
  BY <1>0, <1>1, HookAt DEF EntriesOwn
<1>5. RollbackShape'
  BY <1>0, <1>1, <1>2, <1>3 DEF RollbackShape
<1>6. EntriesOwn'
  BY <1>0, <1>1, <1>2, <1>4 DEF EntriesOwn, InFlight
<1>7. ASSUME NEW p \in Paths \ uncovered' PROVE Alone(p)' /\ (found[p] # Absent => Covered(p)')
  <2>1. Alone(p) /\ (found[p] # Absent => Covered(p))
    BY <1>1 DEF RollbackInv
  <2>2. Alone(p)'
    BY <1>1, <1>2, <1>4, <2>1 DEF Alone, InFlight, Path
  <2>3. ASSUME found[p] # Absent PROVE Covered(p)'
    <3>0. Covered(p)
      BY <2>1, <2>3
    <3>1. \A k \in 1..Len(hookList) : (Writes(k, p)' <=> Writes(k, p)) /\ (Oldest(k, p)' <=> Oldest(k, p))
      BY <1>1 DEF Writes, Snaps, Oldest, Path, GivesBack, WritesText
    <3>2. (Bare(p)' <=> Bare(p)) /\ (Unsettled(p)' <=> Unsettled(p))
      BY <1>1, <1>2, <1>4, <3>1 DEF Bare, Unsettled, InFlight
    <3>3. /\ \A j \in Undoables : progress'[j] = "ran" <=> progress[j] = "ran"
          /\ \A j \in Undoables : progress'[j] = "ran" => copies'[j] = copies[j]
      BY <1>1, <1>2, <1>3
    <3>4. Changed(p)' <=> Changed(p)
      BY <3>3 DEF Changed, Path, Destructive
    <3> QED
      BY <1>1, <3>0, <3>1, <3>2, <3>3, <3>4 DEF Covered, Path, Destructive
  <2> QED
    BY <2>2, <2>3
<1> QED
  BY <1>1, <1>5, <1>6, <1>7 DEF RollbackInv

(* The registry has one more entry, or another one in its place.             *)
LEMMA EntryPut ==
    ASSUME RollbackShape, EntriesOwn, NEW i \in Undoables, NEW e \in Hooks, e.instr = i
    PROVE  \E k \in 1..(Len(hookList) + 1) :
             /\ RegisterEntry(i, e) \in Seq(Hooks)
             /\ k \in 1..Len(RegisterEntry(i, e))
             /\ Len(RegisterEntry(i, e)) = (IF k <= Len(hookList) THEN Len(hookList) ELSE Len(hookList) + 1)
             /\ RegisterEntry(i, e)[k] = e
             /\ \A l \in 1..Len(RegisterEntry(i, e)) \ {k} :
                  l \in 1..Len(hookList) /\ RegisterEntry(i, e)[l] = hookList[l]
             /\ k <= Len(hookList) => hookList[k].instr = i
             /\ k = Len(hookList) + 1 => \A l \in 1..Len(hookList) : hookList[l].instr # i
<1> DEFINE N == Len(hookList)
<1>1. N \in Nat /\ hookList \in Seq(Hooks)
  BY HookAt DEF RollbackShape
<1>2. CASE Named(i) = {}
  <2>1. RegisterEntry(i, e) = Append(hookList, e)
    BY <1>2 DEF RegisterEntry
  <2>2. /\ Append(hookList, e) \in Seq(Hooks) /\ Len(Append(hookList, e)) = N + 1
        /\ Append(hookList, e)[N + 1] = e /\ \A l \in 1..N : Append(hookList, e)[l] = hookList[l]
    BY <1>1, AppendProperties
  <2>3. \A l \in 1..N : hookList[l].instr # i
    BY <1>2 DEF Named
  <2>4. /\ N + 1 \in 1..(N + 1) /\ ~(N + 1 <= N)
        /\ \A l \in 1..(N + 1) \ {N + 1} : l \in 1..N
    BY <1>1
  <2> QED
    BY <2>1, <2>2, <2>3, <2>4
<1>3. CASE Named(i) # {}
  <2> DEFINE k == CHOOSE l \in Named(i) : TRUE
  <2>1. k \in 1..N /\ hookList[k].instr = i
    BY <1>3 DEF Named
  <2>2. RegisterEntry(i, e) = [hookList EXCEPT ![k] = e]
    BY <1>3 DEF RegisterEntry
  <2> HIDE DEF k
  <2>3. /\ [hookList EXCEPT ![k] = e] \in Seq(Hooks) /\ Len([hookList EXCEPT ![k] = e]) = N
        /\ [hookList EXCEPT ![k] = e][k] = e
        /\ \A l \in 1..N \ {k} : [hookList EXCEPT ![k] = e][l] = hookList[l]
    BY <1>1, <2>1, ExceptSeq
  <2>4. k \in 1..(N + 1) /\ k <= N /\ k # N + 1
    BY <1>1, <2>1
  <2> QED
    BY <2>1, <2>2, <2>3, <2>4
<1> QED
  BY <1>2, <1>3

LEMMA ExecuteInv ==
    ASSUME RollbackInv, NEW i \in Undoables, NEW ok \in BOOLEAN, NEW took \in BOOLEAN, Execute(i, ok, took)
    PROVE  RollbackInv'
<1>0. RollbackShape /\ EntriesOwn
  BY DEF RollbackInv
<1>1. /\ progress[i] = "ready" /\ UNCHANGED <<found, copies>> /\ Path(i) \in Paths
      /\ progress' = [progress EXCEPT ![i] = IF ok THEN "ran" ELSE "failed"]
      /\ files' = (IF took THEN [files EXCEPT ![Path(i)] = Effect(i)] ELSE files)
      /\ uncovered \subseteq uncovered'
      /\ Path(i) \notin uncovered' => ~took \/ Command[i].op = "read" \/ Covers(i, ok)
      /\ Command[i].op = "read" => Effect(i) = files[Path(i)] /\ ~Destructive(i)
      /\ ok => took
  BY PathsAndContents DEF Execute, Effect, Destructive
<1>2. /\ progress'[i] \in {"ran", "failed"} /\ \A j \in Undoables \ {i} : progress'[j] = progress[j]
      /\ progress' \in [Undoables -> {"idle", "ready", "ran", "failed", "over"}]
      /\ progress'[i] = "ran" <=> ok
  BY <1>0, <1>1 DEF RollbackShape
<1>3. /\ files' \in [Paths -> Held]
      /\ \A p \in Paths : p # Path(i) => files'[p] = files[p]
      /\ Path(i) \notin uncovered' /\ ~(ok /\ Destructive(i)) => files'[Path(i)] = files[Path(i)]
      /\ Path(i) \notin uncovered' /\ ok /\ Destructive(i) => copies[i] = files[Path(i)]
  BY <1>0, <1>1, PathsAndContents DEF RollbackShape, Covers
<1>4. \A k \in 1..Len(hookList) : hookList[k].instr \in Undoables \ {i}
  BY <1>0, <1>1, HookAt DEF EntriesOwn
(* Whatever the new registry is, its old entries stand and a new one, at the *)
(* end, is the shell hook of this instruction.                               *)
<1>5. /\ hookList' \in Seq(Hooks) /\ Len(hookList) \in Nat
      /\ Len(hookList') \in {Len(hookList), Len(hookList) + 1}
      /\ \A k \in 1..Len(hookList) : hookList'[k] = hookList[k]
      /\ \A k \in 1..Len(hookList') : k \notin 1..Len(hookList) =>
            hookList'[k].instr = i /\ hookList'[k].kind = "shell" /\ k = Len(hookList) + 1
  <2>0. Len(hookList) \in Nat /\ hookList \in Seq(Hooks)
    BY <1>0, HookAt DEF RollbackShape
  <2>1. CASE hookList' = hookList
    BY <2>0, <2>1
  <2>2. CASE hookList' = RegisterEntry(i, Shell(i))
    <3>1. Shell(i) \in Hooks /\ Shell(i).instr = i /\ Shell(i).kind = "shell"
      BY DEF Shell, Hooks, Held
    <3>2. Named(i) = {}
      BY <1>4 DEF Named
    <3>3. hookList' = Append(hookList, Shell(i))
      BY <2>2, <3>2 DEF RegisterEntry
    <3>4. /\ hookList' \in Seq(Hooks) /\ Len(hookList') = Len(hookList) + 1
          /\ hookList'[Len(hookList) + 1] = Shell(i)
          /\ \A k \in 1..Len(hookList) : hookList'[k] = hookList[k]
      BY <2>0, <3>1, <3>3, AppendProperties
    <3>5. \A k \in 1..(Len(hookList) + 1) : k \notin 1..Len(hookList) => k = Len(hookList) + 1
      BY <2>0
    <3> QED
      BY <2>0, <3>1, <3>4, <3>5
  <2> QED
    BY <2>1, <2>2 DEF Execute
<1>6. RollbackShape'
  BY <1>0, <1>1, <1>2, <1>3, <1>5 DEF RollbackShape
<1>7. EntriesOwn'
  <2>1. \A k \in 1..Len(hookList) : /\ progress'[hookList[k].instr] = progress[hookList[k].instr]
                                    /\ hookList[k].instr # i
    BY <1>2, <1>4
  <2>2. \A k \in 1..Len(hookList') :
          /\ progress'[hookList'[k].instr] \in {"ran", "failed", "over"}
          /\ progress'[hookList'[k].instr] \in {"ready", "ran", "failed"} => hookList'[k].kind = "shell"
    BY <1>0, <1>2, <1>5, <2>1 DEF EntriesOwn, InFlight
  <2>3. \A k, l \in 1..Len(hookList') : hookList'[k].instr = hookList'[l].instr => k = l
    BY <1>0, <1>5, <2>1 DEF EntriesOwn
  <2> QED
    BY <2>2, <2>3 DEF EntriesOwn, InFlight
<1>8. ASSUME NEW p \in Paths \ uncovered' PROVE Alone(p)' /\ (found[p] # Absent => Covered(p)')
  <2>1. Alone(p) /\ (found[p] # Absent => Covered(p))
    BY <1>1 DEF RollbackInv
  <2>2. /\ \A j, k \in Undoables : progress'[j] \in {"ready", "ran", "failed"} /\ Path(j) = p
              /\ progress'[k] \in {"ready", "ran", "failed"} /\ Path(k) = p => j = k
        /\ Path(i) = p => \A j \in Undoables \ {i} : InFlight(j) => Path(j) # p
    BY <1>1, <1>2, <2>1 DEF Alone, InFlight
  <2>3. Alone(p)'
    <3>1. ASSUME NEW k \in 1..Len(hookList'), NEW l \in 1..Len(hookList'),
                 progress'[hookList'[k].instr] \in {"ready", "ran", "failed"},
                 Path(hookList'[k].instr) = p, Path(hookList'[l].instr) = p
          PROVE  l <= k
      <4>1. CASE k \in 1..Len(hookList)
        <5>1. /\ hookList'[k] = hookList[k] /\ hookList[k].instr \in Undoables \ {i}
              /\ InFlight(hookList[k].instr)
          BY <1>2, <1>4, <1>5, <3>1, <4>1 DEF InFlight
        <5>2. Path(i) # p
          BY <2>2, <3>1, <5>1
        <5>3. l \in 1..Len(hookList) /\ hookList'[l] = hookList[l]
          BY <1>5, <3>1, <5>2
        <5> QED
          BY <2>1, <3>1, <4>1, <5>1, <5>3 DEF Alone
      <4>2. CASE k \notin 1..Len(hookList)
        BY <1>5, <4>2
      <4> QED
        BY <4>1, <4>2
    <3> QED
      BY <2>2, <3>1 DEF Alone, InFlight, Path
  <2>4. ASSUME found[p] # Absent PROVE Covered(p)'
    <3>0. Covered(p)
      BY <2>1, <2>4
    <3>1. \A k \in 1..Len(hookList) : /\ k \in 1..Len(hookList') /\ hookList'[k] = hookList[k]
                                      /\ (Snaps(k, p)' <=> Snaps(k, p)) /\ (Writes(k, p)' <=> Writes(k, p))
      BY <1>5 DEF Snaps, Writes, Path, GivesBack, WritesText
    <3>2. \A k \in 1..Len(hookList') : Snaps(k, p)' => k \in 1..Len(hookList)
      BY <1>5 DEF Snaps, GivesBack
    <3>3. ASSUME NEW k \in 1..Len(hookList'), Oldest(k, p)' PROVE hookList'[k].copy = found[p]
      <4>1. k \in 1..Len(hookList) /\ Snaps(k, p) /\ hookList'[k] = hookList[k]
        BY <3>1, <3>2, <3>3 DEF Oldest
      <4>2. \A l \in 1..(k - 1) : ~Writes(l, p)
        <5> TAKE l \in 1..(k - 1)
        <5>1. l \in 1..Len(hookList)
          BY <1>5, <4>1
        <5> QED
          BY <3>1, <3>3, <5>1 DEF Oldest
      <4> QED
        BY <3>0, <4>1, <4>2 DEF Covered, Oldest
    <3>4. (Bare(p)' => Bare(p)) /\ (Unsettled(p)' => Unsettled(p))
      <4>1. \A k \in 1..Len(hookList) : progress'[hookList[k].instr] = progress[hookList[k].instr]
        BY <1>2, <1>4
      <4>2. ASSUME Unsettled(p)', NEW k \in 1..Len(hookList), Writes(k, p)
            PROVE  InFlight(hookList[k].instr)
        <5>1. k \in 1..Len(hookList') /\ hookList'[k] = hookList[k] /\ Writes(k, p)'
          BY <3>1, <4>2
        <5>2. progress'[hookList[k].instr] \in {"ready", "ran", "failed"}
          BY <4>2, <5>1 DEF Unsettled, InFlight
        <5> QED
          BY <4>1, <5>2 DEF InFlight
      <4> QED
        BY <3>1, <4>2 DEF Bare, Unsettled
    (* On the path of the instruction nothing else is under way.             *)
    <3>5. Path(i) = p => ~Changed(p) /\ (Unsettled(p) => Bare(p))
      <4> SUFFICES ASSUME Path(i) = p PROVE ~Changed(p) /\ (Unsettled(p) => Bare(p))
        OBVIOUS
      <4>1. \A j \in Undoables \ {i} : Path(j) = p => ~InFlight(j)
        BY <2>2
      <4>2. ~Changed(p)
        BY <1>1, <4>1 DEF Changed, InFlight
      <4>3. \A k \in 1..Len(hookList) : Path(hookList[k].instr) = p => ~InFlight(hookList[k].instr)
        BY <1>4, <4>1
      <4> QED
        BY <4>2, <4>3 DEF Unsettled, Bare, Writes
    <3>6. Path(i) # p => (Changed(p)' <=> Changed(p)) /\ files'[p] = files[p]
      <4> SUFFICES ASSUME Path(i) # p PROVE (Changed(p)' <=> Changed(p)) /\ files'[p] = files[p]
        OBVIOUS
      <4>1. \A j \in Undoables : Path(j) = p => progress'[j] = progress[j]
        BY <1>2
      <4>2. Changed(p)' <=> Changed(p)
        BY <4>1 DEF Changed, Path, Destructive
      <4> QED
        BY <1>3, <4>2
    <3>7. Path(i) = p /\ Bare(p) => files[p] = found[p]
      BY <3>0, <3>5 DEF Covered
    <3>8. Unsettled(p)' => \A j \in Undoables : Path(j) = p /\ Destructive(j) /\ progress'[j] = "ran" =>
                             copies[j] = found[p]
      <4> SUFFICES ASSUME Unsettled(p)', NEW j \in Undoables, Path(j) = p, Destructive(j), progress'[j] = "ran"
                   PROVE  copies[j] = found[p]
        OBVIOUS
      <4>1. CASE j = i
        BY <1>2, <1>3, <3>4, <3>5, <3>7, <4>1
      <4>2. CASE j # i
        BY <1>2, <3>0, <3>4, <4>2 DEF Covered
      <4> QED
        BY <4>1, <4>2
    <3>9. /\ Unsettled(p)' => Changed(p)' \/ files'[p] \in {found[p], HookText}
          /\ Bare(p)' => Changed(p)' \/ files'[p] = found[p]
      <4>1. CASE Path(i) # p
        BY <3>0, <3>4, <3>6, <4>1 DEF Covered
      <4>2. CASE Path(i) = p /\ ok /\ Destructive(i)
        <5>1. Changed(p)'
          BY <1>2, <4>2 DEF Changed, Path, Destructive
        <5> QED
          BY <5>1
      <4>3. CASE Path(i) = p /\ ~(ok /\ Destructive(i))
        <5>1. files'[p] = files[p]
          BY <1>3, <4>3
        <5> QED
          BY <3>4, <3>5, <3>7, <4>3, <5>1
      <4> QED
        BY <4>1, <4>2, <4>3
    <3> QED
      BY <1>1, <3>3, <3>8, <3>9 DEF Covered, Path, Destructive
  <2> QED
    BY <2>3, <2>4
<1> QED
  BY <1>1, <1>6, <1>7, <1>8 DEF RollbackInv

LEMMA SettledInv ==
    ASSUME RollbackInv, NEW i \in Undoables, Settled(i)
    PROVE  RollbackInv'
<1> DEFINE put == progress[i] = "ran" /\ (Command[i].hook \/ Destructive(i) \/ files[Path(i)] # Absent)
           e == Upgraded(i)
<1>0. RollbackShape /\ EntriesOwn
  BY DEF RollbackInv
<1>1. /\ progress[i] \in {"ran", "failed"} /\ UNCHANGED <<files, found, copies, uncovered>>
      /\ progress' = [progress EXCEPT ![i] = "over"]
      /\ hookList' = (IF put THEN RegisterEntry(i, e) ELSE hookList)
      /\ Path(i) \in Paths
  BY PathsAndContents DEF Settled
<1>2. /\ progress'[i] = "over" /\ \A j \in Undoables \ {i} : progress'[j] = progress[j]
      /\ progress' \in [Undoables -> {"idle", "ready", "ran", "failed", "over"}]
  BY <1>0, <1>1 DEF RollbackShape
<1>3. /\ e \in Hooks /\ e.instr = i /\ e.copy = copies[i]
      /\ e.kind = IF Destructive(i) THEN "snapshot" ELSE "file_diff"
      /\ files[Path(i)] # Absent => e.diffs
  BY <1>0 DEF Upgraded, Hooks, RollbackShape, Destructive
<1>4. \A k, l \in 1..Len(hookList) : hookList[k].instr = i /\ hookList[l].instr = i => k = l
  BY <1>0 DEF EntriesOwn
<1> HIDE DEF put, e
<1>5. Len(hookList) \in Nat /\ \A k \in 1..Len(hookList) : hookList[k].instr \in Undoables
  BY <1>0, HookAt
<1>6. CASE ~put
  <2>1. hookList' = hookList
    BY <1>1, <1>6
  <2>2. RollbackShape'
    BY <1>0, <1>1, <1>2, <2>1 DEF RollbackShape
  <2>3. EntriesOwn'
    BY <1>0, <1>2, <1>5, <2>1 DEF EntriesOwn, InFlight
  <2>4. ASSUME NEW p \in Paths \ uncovered PROVE Alone(p)' /\ (found[p] # Absent => Covered(p)')
    <3>1. Alone(p) /\ (found[p] # Absent => Covered(p))
      BY DEF RollbackInv
    <3>2. Alone(p)'
      BY <1>2, <1>5, <2>1, <3>1 DEF Alone, InFlight, Path
    <3>3. Path(i) = p /\ Destructive(i) => progress[i] # "ran"
      BY <1>6 DEF put
    <3>4. \A k \in 1..Len(hookList) : (Writes(k, p)' <=> Writes(k, p)) /\ (Oldest(k, p)' <=> Oldest(k, p))
      BY <2>1 DEF Snaps, Writes, Oldest, Path, GivesBack, WritesText
    <3>5. ASSUME found[p] # Absent PROVE Covered(p)'
      <4>1. Covered(p)
        BY <3>1, <3>5
      <4>2. \A j \in Undoables : /\ progress'[j] \in {"ready", "ran", "failed"} => progress[j] = progress'[j]
                                 /\ Path(j) = p /\ Destructive(j) /\ progress[j] = "ran" => progress'[j] = "ran"
        BY <1>2, <3>3
      <4>3. (Bare(p)' <=> Bare(p)) /\ (Unsettled(p)' => Unsettled(p)) /\ (Changed(p)' <=> Changed(p))
        <5>1. Bare(p)' <=> Bare(p)
          BY <2>1, <3>4 DEF Bare
        <5>2. Unsettled(p)' => Unsettled(p)
          BY <1>5, <2>1, <3>4, <4>2 DEF Unsettled, InFlight
        <5>3. Changed(p)' <=> Changed(p)
          BY <4>2 DEF Changed, Path, Destructive
        <5> QED
          BY <5>1, <5>2, <5>3
      <4> QED
        BY <1>1, <2>1, <3>4, <4>1, <4>2, <4>3 DEF Covered, Path, Destructive
    <3> QED
      BY <3>2, <3>5
  <2> QED
    BY <1>1, <2>2, <2>3, <2>4 DEF RollbackInv
<1>7. CASE put
  <2>0. RollbackShape /\ EntriesOwn /\ hookList' = RegisterEntry(i, e) /\ e \in Hooks /\ e.instr = i
    BY <1>0, <1>1, <1>3, <1>7
  <2>1. PICK k \in 1..(Len(hookList) + 1) :
          /\ hookList' \in Seq(Hooks)
          /\ k \in 1..Len(hookList')
          /\ Len(hookList') = (IF k <= Len(hookList) THEN Len(hookList) ELSE Len(hookList) + 1)
          /\ hookList'[k] = e
          /\ \A l \in 1..Len(hookList') \ {k} : l \in 1..Len(hookList) /\ hookList'[l] = hookList[l]
          /\ k <= Len(hookList) => hookList[k].instr = i
          /\ k = Len(hookList) + 1 => \A l \in 1..Len(hookList) : hookList[l].instr # i
    BY <2>0, EntryPut
  <2>2. /\ k \in Nat /\ (k \in 1..Len(hookList) \/ k = Len(hookList) + 1)
        /\ progress[i] = "ran" /\ InFlight(i)
    BY <1>1, <1>5, <1>7 DEF put, InFlight
  <2>3. /\ \A l \in 1..Len(hookList') \ {k} : hookList'[l].instr \in Undoables \ {i}
        /\ \A l \in 1..Len(hookList) \ {k} : l \in 1..Len(hookList')
        /\ k \in 1..Len(hookList) => hookList[k].kind = "shell"
    <3>1. k \in 1..Len(hookList) => hookList[k].kind = "shell"
      BY <1>0, <1>5, <2>1, <2>2 DEF EntriesOwn
    <3>2. \A l \in 1..Len(hookList') \ {k} : hookList'[l].instr \in Undoables \ {i}
      BY <1>4, <1>5, <2>1, <2>2
    <3> QED
      BY <1>5, <2>1, <3>1, <3>2
  <2>4. RollbackShape'
    BY <1>0, <1>1, <1>2, <2>1 DEF RollbackShape
  <2>5. EntriesOwn'
    <3>1. \A l \in 1..Len(hookList') :
            /\ progress'[hookList'[l].instr] \in {"ran", "failed", "over"}
            /\ progress'[hookList'[l].instr] \in {"ready", "ran", "failed"} => hookList'[l].kind = "shell"
      <4> TAKE l \in 1..Len(hookList')
      <4>1. CASE l = k
        BY <1>2, <1>3, <2>1, <4>1
      <4>2. CASE l # k
        <5>1. /\ l \in 1..Len(hookList) /\ hookList'[l] = hookList[l]
              /\ progress'[hookList[l].instr] = progress[hookList[l].instr]
          BY <1>2, <2>1, <2>3, <4>2
        <5> QED
          BY <1>0, <5>1 DEF EntriesOwn, InFlight
      <4> QED
        BY <4>1, <4>2
    <3>2. \A l, m \in 1..Len(hookList') : hookList'[l].instr = hookList'[m].instr => l = m
      <4> TAKE l, m \in 1..Len(hookList')
      <4>1. CASE l = k \/ m = k
        BY <1>3, <2>1, <2>3, <4>1
      <4>2. CASE l # k /\ m # k
        BY <1>0, <2>1, <4>2 DEF EntriesOwn
      <4> QED
        BY <4>1, <4>2
    <3> QED
      BY <3>1, <3>2 DEF EntriesOwn, InFlight
  <2>6. ASSUME NEW p \in Paths \ uncovered PROVE Alone(p)' /\ (found[p] # Absent => Covered(p)')
    <3>1. Alone(p) /\ (found[p] # Absent => Covered(p))
      BY DEF RollbackInv
    (* Every other entry of the path is older than this instruction's.       *)
    <3>2. Path(i) = p => \A l \in 1..Len(hookList) : Path(hookList[l].instr) = p => l <= k
      <4>1. CASE k \in 1..Len(hookList)
        BY <2>1, <2>2, <3>1, <4>1 DEF Alone
      <4>2. CASE k = Len(hookList) + 1
        BY <1>5, <4>2
      <4> QED
        BY <2>2, <4>1, <4>2
    <3>3. Alone(p)'
      <4>0. \A j \in Undoables : progress'[j] \in {"ready", "ran", "failed"} => InFlight(j)
        BY <1>2, <2>2 DEF InFlight
      <4>1. \A j, l \in Undoables :
              progress'[j] \in {"ready", "ran", "failed"} /\ Path(j) = p
              /\ progress'[l] \in {"ready", "ran", "failed"} /\ Path(l) = p => j = l
        BY <3>1, <4>0 DEF Alone
      <4>2. ASSUME NEW m \in 1..Len(hookList'), NEW l \in 1..Len(hookList'),
                   progress'[hookList'[m].instr] \in {"ready", "ran", "failed"},
                   Path(hookList'[m].instr) = p, Path(hookList'[l].instr) = p
            PROVE  l <= m
        <5>1. m # k
          BY <1>2, <1>3, <2>1, <4>2
        <5>2. m \in 1..Len(hookList) /\ hookList'[m] = hookList[m] /\ InFlight(hookList[m].instr)
          BY <1>2, <2>1, <2>3, <4>2, <5>1 DEF InFlight
        <5>3. hookList[m].instr # i /\ hookList[m].instr \in Undoables
          BY <2>1, <2>3, <5>1, <5>2
        <5>4. Path(i) # p
          BY <2>2, <3>1, <4>2, <5>2, <5>3 DEF Alone
        <5>5. l # k
          BY <1>3, <2>1, <4>2, <5>4
        <5>6. l \in 1..Len(hookList) /\ hookList'[l] = hookList[l]
          BY <2>1, <5>5
        <5> QED
          BY <3>1, <4>2, <5>2, <5>6 DEF Alone
      <4> QED
        BY <4>1, <4>2 DEF Alone, InFlight, Path
    <3>4. ASSUME found[p] # Absent PROVE Covered(p)'
      <4>0. Covered(p)
        BY <3>1, <3>4
      <4>1. /\ \A l \in 1..Len(hookList') : l # k => l \in 1..Len(hookList) /\ hookList'[l] = hookList[l]
                    /\ (Snaps(l, p)' <=> Snaps(l, p)) /\ (Writes(l, p)' <=> Writes(l, p))
            /\ \A l \in 1..Len(hookList) : l # k => l \in 1..Len(hookList') /\ hookList'[l] = hookList[l]
                    /\ (Snaps(l, p)' <=> Snaps(l, p)) /\ (Writes(l, p)' <=> Writes(l, p))
        BY <2>1, <2>3 DEF Snaps, Writes, Path, GivesBack, WritesText
      <4>2. Writes(k, p)' => Path(i) = p
        BY <1>3, <2>1 DEF Writes, Path
      <4>3. ASSUME NEW m \in 1..Len(hookList'), Oldest(m, p)' PROVE hookList'[m].copy = found[p]
        <5>1. CASE m # k
          <6>1. m \in 1..Len(hookList) /\ hookList'[m] = hookList[m] /\ Snaps(m, p)
            BY <4>1, <4>3, <5>1 DEF Oldest
          <6>2. \A l \in 1..(m - 1) : ~Writes(l, p)
            <7> TAKE l \in 1..(m - 1)
            <7>1. l \in 1..Len(hookList) /\ l < m
              BY <1>5, <6>1
            <7>2. CASE l # k
              BY <4>1, <4>3, <7>1, <7>2 DEF Oldest
            <7>3. CASE l = k
              BY <2>1, <3>2, <6>1, <7>1, <7>3 DEF Writes, Snaps
            <7> QED
              BY <7>2, <7>3
          <6> QED
            BY <4>0, <6>1, <6>2 DEF Covered, Oldest
        <5>2. CASE m = k
          <6>1. Path(i) = p /\ Destructive(i) /\ copies[i] # Absent
            BY <1>3, <2>1, <4>3, <5>2 DEF Oldest, Snaps, GivesBack, Path
          <6>2. Unsettled(p)
            <7> SUFFICES ASSUME NEW l \in 1..Len(hookList), Writes(l, p) PROVE InFlight(hookList[l].instr)
              BY DEF Unsettled
            <7>1. CASE l # k
              <8>1. l <= k /\ Writes(l, p)'
                BY <3>2, <4>1, <6>1, <7>1 DEF Writes
              <8>2. l \in 1..(k - 1)
                BY <1>5, <2>2, <7>1, <8>1
              <8> QED
                BY <4>3, <5>2, <8>1, <8>2 DEF Oldest
            <7>2. CASE l = k
              BY <2>1, <2>2, <7>2
            <7> QED
              BY <7>1, <7>2
          <6>3. copies[i] = found[p]
            BY <2>2, <4>0, <6>1, <6>2 DEF Covered
          <6> QED
            BY <1>3, <2>1, <5>2, <6>3
        <5> QED
          BY <5>1, <5>2
      <4>4. Unsettled(p)' => Unsettled(p)
        <5> SUFFICES ASSUME Unsettled(p)', NEW l \in 1..Len(hookList), Writes(l, p)
                     PROVE  InFlight(hookList[l].instr)
          BY DEF Unsettled
        <5>1. CASE l # k
          <6>1. /\ l \in 1..Len(hookList') /\ hookList'[l] = hookList[l] /\ Writes(l, p)'
                /\ hookList[l].instr \in Undoables \ {i}
            BY <2>3, <4>1, <5>1
          <6>2. progress'[hookList[l].instr] \in {"ready", "ran", "failed"}
            BY <6>1 DEF Unsettled, InFlight
          <6> QED
            BY <1>2, <6>1, <6>2 DEF InFlight
        <5>2. CASE l = k
          BY <2>1, <2>2, <5>2
        <5> QED
          BY <5>1, <5>2
      (* Settled as it is, its entry writes the path: what stands is not bare. *)
      <4>5. Path(i) = p => (~Bare(p)' /\ ~Unsettled(p)') \/ ~Unsettled(p)
        <5> SUFFICES ASSUME Path(i) = p, Unsettled(p) PROVE ~Bare(p)' /\ ~Unsettled(p)'
          OBVIOUS
        <5>1. \A j \in Undoables \ {i} : Path(j) = p => ~InFlight(j)
          BY <2>2, <3>1 DEF Alone
        <5>2. CASE Destructive(i)
          <6>1. copies[i] = found[p]
            BY <2>2, <4>0, <5>2 DEF Covered
          <6> QED
            BY <1>2, <1>3, <2>1, <3>4, <5>2, <6>1 DEF Bare, Unsettled, Writes, GivesBack, Path, InFlight
        <5>3. CASE ~Destructive(i)
          <6>1. ~Changed(p)
            BY <5>1, <5>3 DEF Changed, InFlight
          <6>2. files[p] \in {found[p], HookText}
            BY <4>0, <6>1 DEF Covered
          <6>3. files[p] # Absent
            BY <3>4, <6>2 DEF HookText, Absent
          <6>4. e.diffs /\ e.kind = "file_diff"
            BY <1>3, <5>3, <6>3
          <6> QED
            BY <1>2, <1>3, <2>1, <6>4 DEF Bare, Unsettled, Writes, WritesText, Path, InFlight
        <5> QED
          BY <5>2, <5>3
      <4>6. Bare(p)' => Unsettled(p)'
        BY DEF Bare, Unsettled
      <4>7. Path(i) # p => (Changed(p)' <=> Changed(p)) /\ (Bare(p)' => Bare(p))
        <5> SUFFICES ASSUME Path(i) # p PROVE (Changed(p)' <=> Changed(p)) /\ (Bare(p)' => Bare(p))
          OBVIOUS
        <5>1. \A j \in Undoables : Path(j) = p => progress'[j] = progress[j]
          BY <1>2
        <5>2. Changed(p)' <=> Changed(p)
          BY <5>1 DEF Changed, Path, Destructive
        <5>3. k \in 1..Len(hookList) => ~Writes(k, p)
          BY <2>1 DEF Writes
        <5>4. Bare(p)' => Bare(p)
          BY <4>1, <5>3 DEF Bare
        <5> QED
          BY <5>2, <5>4
      <4>8. \A j \in Undoables : progress'[j] = "ran" => progress[j] = "ran"
        BY <1>2
      <4> QED
        BY <1>1, <4>0, <4>3, <4>4, <4>5, <4>6, <4>7, <4>8 DEF Covered, Path, Destructive
    <3> QED
      BY <3>3, <3>4
  <2> QED
    BY <1>1, <2>4, <2>5, <2>6 DEF RollbackInv
<1> QED
  BY <1>6, <1>7

LEMMA UndoInv ==
    ASSUME RollbackInv, NEW k \in 1..Len(hookList), Undo(k)
    PROVE  RollbackInv'
<1> DEFINE entry == hookList[k]
           q == Path(entry.instr)
<1>0. RollbackShape /\ EntriesOwn
  BY DEF RollbackInv
<1>1. entry \in Hooks /\ entry.instr \in Undoables /\ q \in Paths /\ Len(hookList) \in Nat
  BY <1>0, HookAt, PathsAndContents
<1>2. /\ UNCHANGED <<found, progress, copies, hookList, uncovered>>
      /\ files' \in [Paths -> Held]
      /\ \A p \in Paths : p # q => files'[p] = files[p]
      /\ ~Writes(k, q) => files' = files
      /\ entry.kind = "shell" => files'[q] = HookText
  <2>0. /\ UNCHANGED <<found, progress, copies, hookList, uncovered>> /\ files \in [Paths -> Held]
        /\ files' = Restored(entry, files)
    BY <1>0 DEF Undo, RollbackShape
  <2>1. entry.copy \in Held /\ DiffText \in Held /\ HookText \in Held
    BY <1>1 DEF Hooks, Held
  <2>2. CASE GivesBack(entry)
    <3>1. files' = [files EXCEPT ![q] = entry.copy] /\ Writes(k, q) /\ entry.kind # "shell"
      BY <2>0, <2>2 DEF Restored, GivesBack, Writes
    <3> QED
      BY <1>1, <2>0, <2>1, <3>1
  <2>3. CASE WritesText(entry)
    <3>1. Writes(k, q)
      BY <2>3 DEF Writes
    <3>2. \/ files' = [files EXCEPT ![q] = DiffText] /\ entry.kind = "file_diff"
          \/ files' = [files EXCEPT ![q] = HookText]
      BY <2>0, <2>3 DEF Restored, WritesText
    <3> QED
      BY <1>1, <2>0, <2>1, <3>1, <3>2
  <2>4. CASE ~GivesBack(entry) /\ ~WritesText(entry)
    <3>1. files' = files /\ entry.kind # "shell"
      BY <2>0, <2>4 DEF Restored, GivesBack, WritesText
    <3> QED
      BY <2>0, <3>1
  <2> QED
    BY <2>2, <2>3, <2>4
<1> HIDE DEF q, entry
<1>3. RollbackShape' /\ EntriesOwn'
  BY <1>0, <1>2 DEF RollbackShape, EntriesOwn, InFlight
<1>4. ASSUME NEW p \in Paths \ uncovered PROVE Alone(p)' /\ (found[p] # Absent => Covered(p)')
  <2>1. Alone(p) /\ (found[p] # Absent => Covered(p)) /\ p \in Paths
    BY DEF RollbackInv
  <2>2. /\ \A l \in 1..Len(hookList) : (Writes(l, p)' <=> Writes(l, p)) /\ (Oldest(l, p)' <=> Oldest(l, p))
        /\ Bare(p)' <=> Bare(p)
        /\ Unsettled(p)' <=> Unsettled(p)
        /\ Changed(p)' <=> Changed(p)
    <3>1. \A l \in 1..Len(hookList) : (Writes(l, p)' <=> Writes(l, p)) /\ (Oldest(l, p)' <=> Oldest(l, p))
      BY <1>2 DEF Snaps, Writes, Oldest, Path, GivesBack, WritesText
    <3> QED
      BY <1>2, <3>1 DEF Bare, Unsettled, Changed, InFlight, Path, Destructive
  <2>3. Bare(p) => files'[p] = files[p]
    BY <1>1, <1>2, <2>1 DEF Bare
  <2>4. Unsettled(p) => files'[p] \in {files[p], HookText}
    <3>1. CASE p # q \/ ~Writes(k, q)
      BY <1>2, <2>1, <3>1
    <3>2. CASE p = q /\ Writes(k, q) /\ Unsettled(p)
      <4>1. InFlight(hookList[k].instr)
        BY <3>2 DEF Unsettled
      <4>2. entry.kind = "shell"
        BY <1>0, <4>1 DEF EntriesOwn, entry
      <4> QED
        BY <1>2, <3>2, <4>2
    <3> QED
      BY <3>1, <3>2
  <2>5. Alone(p)'
    BY <1>2, <2>1 DEF Alone, InFlight, Path
  <2>6. ASSUME found[p] # Absent PROVE Covered(p)'
    <3>1. Covered(p)
      BY <2>1, <2>6
    <3> QED
      BY <1>2, <2>2, <2>3, <2>4, <3>1 DEF Covered, Path, Destructive
  <2> QED
    BY <2>5, <2>6
<1> QED
  BY <1>2, <1>3, <1>4 DEF RollbackInv

LEMMA RollbackStep == RollbackInv /\ [RollbackNext]_rollbackVars => RollbackInv'
<1> SUFFICES ASSUME RollbackInv, [RollbackNext]_rollbackVars PROVE RollbackInv'
  OBVIOUS
<1>1. ASSUME NEW i \in Undoables, Capture(i) PROVE RollbackInv'
  BY <1>1, CaptureInv
<1>2. ASSUME NEW i \in Undoables, Settled(i) PROVE RollbackInv'
  BY <1>2, SettledInv
<1>3. ASSUME NEW i \in Undoables, NEW ok \in BOOLEAN, NEW took \in BOOLEAN, Execute(i, ok, took)
      PROVE  RollbackInv'
  BY <1>3, ExecuteInv
<1>4. ASSUME NEW k \in 1..Len(hookList), Undo(k) PROVE RollbackInv'
  BY <1>4, UndoInv
<1>5. ASSUME UNCHANGED rollbackVars PROVE RollbackInv'
  BY <1>5 DEF rollbackVars, RollbackInv, RollbackShape, EntriesOwn, Alone, Covered, Oldest, Snaps, Writes,
              Bare, Unsettled, Changed, GivesBack, WritesText, InFlight, Path, Destructive
<1> QED
  BY <1>1, <1>2, <1>3, <1>4, <1>5 DEF RollbackNext

-----------------------------------------------------------------------------
(* What going through the registry makes of a path.                          *)
LEMMA UndoneShape ==
    ASSUME RollbackShape
    PROVE  \A n \in 0..Len(hookList) : Undone[n] \in [Paths -> Held]
<1> DEFINE T == {n \in 0..Len(hookList) : Undone[n] \in [Paths -> Held]}
<1>1. Len(hookList) \in Nat /\ \A k \in 1..Len(hookList) : hookList[k] \in Hooks
  BY HookAt
<1>2. 0 \in T
  BY <1>1, UndoneUnfolds DEF UndoneBy, RollbackShape
<1>3. ASSUME NEW n \in 0..(Len(hookList) - 1), n \in T PROVE n + 1 \in T
  <2> DEFINE k == Len(hookList) - (n + 1) + 1
             entry == hookList[k]
  <2>1. n + 1 \in 0..Len(hookList) /\ n + 1 # 0 /\ (n + 1) - 1 = n /\ k \in 1..Len(hookList)
    BY <1>1
  <2>2. Undone[n + 1] = Restored(entry, Undone[n])
    BY <1>1, <2>1, UndoneUnfolds DEF UndoneBy
  <2>3. Undone[n] \in [Paths -> Held] /\ entry.copy \in Held
    BY <1>1, <1>3, <2>1 DEF Hooks
  <2> HIDE DEF entry, k
  <2>4. Restored(entry, Undone[n]) \in [Paths -> Held]
    <3>1. DiffText \in Held /\ HookText \in Held
      BY DEF Held
    <3> QED
      BY <2>3, <3>1 DEF Restored
  <2> QED
    BY <2>1, <2>2, <2>4
<1> HIDE DEF T
<1>4. \A n \in 0..Len(hookList) : n \in T
  BY <1>1, <1>2, <1>3, RangeReached
<1> QED
  BY <1>4 DEF T

(* One entry: a snapshot puts the copy back, and what does not write leaves  *)
(* the path alone.                                                           *)
LEMMA UndoneNext ==
    ASSUME RollbackShape, NEW p \in Paths, NEW n \in 0..(Len(hookList) - 1)
    PROVE  LET k == Len(hookList) - n
           IN  /\ Snaps(k, p) => Undone[n + 1][p] = hookList[k].copy
               /\ ~Writes(k, p) => Undone[n + 1][p] = Undone[n][p]
<1> DEFINE k == Len(hookList) - n
<1>1. Len(hookList) \in Nat
  BY HookAt
<1>2. /\ n + 1 \in 0..Len(hookList) /\ n \in 0..Len(hookList) /\ n + 1 # 0 /\ (n + 1) - 1 = n
      /\ Len(hookList) - (n + 1) + 1 = k
  BY <1>1
<1>3. Undone[n + 1] = Restored(hookList[k], Undone[n])
  BY <1>1, <1>2, UndoneUnfolds DEF UndoneBy
<1>4. Undone[n] \in [Paths -> Held]
  BY <1>2, UndoneShape
<1> HIDE DEF k
<1>5. /\ Snaps(k, p) => Restored(hookList[k], Undone[n])[p] = hookList[k].copy
      /\ ~Writes(k, p) => Restored(hookList[k], Undone[n])[p] = Undone[n][p]
  BY <1>4 DEF Restored, Snaps, Writes, GivesBack, WritesText
<1> QED
  BY <1>3, <1>5 DEF k

(* From the entry m down to the oldest, when none of them but m itself may   *)
(* hold the path: it is what entry m left.                                   *)
LEMMA UntouchedBelow ==
    ASSUME RollbackShape, NEW p \in Paths, NEW m \in 0..Len(hookList),
           \A k \in 1..(Len(hookList) - m) : ~Writes(k, p)
    PROVE  UndoAll[p] = Undone[m][p]
<1> DEFINE T == {n \in Nat : Undone[n][p] = Undone[m][p]}
<1>1. Len(hookList) \in Nat /\ m \in Nat
  BY HookAt
<1>2. m \in T
  BY <1>1
<1>3. ASSUME NEW n \in m..(Len(hookList) - 1), n \in T PROVE n + 1 \in T
  <2>1. n \in 0..(Len(hookList) - 1) /\ Len(hookList) - n \in 1..(Len(hookList) - m) /\ n + 1 \in Nat
    BY <1>1
  <2>2. Undone[n + 1][p] = Undone[n][p]
    BY <2>1, UndoneNext
  <2> QED
    BY <1>3, <2>1, <2>2
<1> HIDE DEF T
<1>4. \A n \in m..Len(hookList) : n \in T
  BY <1>1, <1>2, <1>3, RangeReached
<1>5. Len(hookList) \in m..Len(hookList)
  BY <1>1
<1> QED
  BY <1>4, <1>5 DEF T, UndoAll

LEMMA FirstExists ==
    ASSUME RollbackShape, NEW p \in Paths, NEW l \in 1..Len(hookList), Writes(l, p)
    PROVE  \E k \in 1..Len(hookList) : Writes(k, p) /\ \A j \in 1..(k - 1) : ~Writes(j, p)
<1> DEFINE S == {k \in 1..Len(hookList) : Writes(k, p)}
           R == OpToRel(<, Nat)
<1>1. IsWellFoundedOn(R, Nat)
  BY NatLessThanWellFounded
<1>2. \A k, m \in Nat : k < m => <<k, m>> \in R
  BY DEF OpToRel
<1>3. Len(hookList) \in Nat /\ S \subseteq Nat /\ S # {}
  BY HookAt
<1> HIDE DEF R, S
<1>4. PICK m \in S : \A k \in S : <<k, m>> \notin R
  BY <1>1, <1>3, WFMin
<1>5. m \in 1..Len(hookList) /\ Writes(m, p)
  BY <1>4 DEF S
<1>6. ASSUME NEW k \in 1..(m - 1) PROVE ~Writes(k, p)
  <2>1. k \in Nat /\ m \in Nat /\ k < m /\ k \in 1..Len(hookList)
    BY <1>3, <1>5
  <2>2. k \notin S
    BY <1>2, <1>4, <2>1
  <2> QED
    BY <2>1, <2>2 DEF S
<1> QED
  BY <1>5, <1>6

LEMMA RollbackInvRestores == RollbackInv => UndoRestores
<1> SUFFICES ASSUME RollbackInv, NEW p \in Paths, p \notin uncovered, found[p] # Absent, ~TextLast(p),
                    \A i \in Undoables : Path(i) = p => progress[i] # "ran"
             PROVE  UndoAll[p] = found[p]
  BY DEF UndoRestores
<1>1. RollbackShape /\ Covered(p) /\ ~Changed(p)
  BY DEF RollbackInv, Changed
<1>2. Len(hookList) \in Nat
  BY <1>1, HookAt
<1>3. CASE Bare(p)
  <2>1. files[p] = found[p]
    BY <1>1, <1>3 DEF Covered
  <2>2. 0 \in 0..Len(hookList) /\ Len(hookList) - 0 = Len(hookList)
    BY <1>2
  <2>3. UndoAll[p] = Undone[0][p]
    BY <1>1, <1>3, <2>2, UntouchedBelow DEF Bare
  <2>4. Undone[0] = files
    BY <1>2, <2>2, UndoneUnfolds DEF UndoneBy
  <2> QED
    BY <2>1, <2>3, <2>4
<1>4. ASSUME NEW l \in 1..Len(hookList), Writes(l, p) PROVE UndoAll[p] = found[p]
  <2>1. PICK k \in 1..Len(hookList) : Writes(k, p) /\ \A j \in 1..(k - 1) : ~Writes(j, p)
    BY <1>1, <1>4, FirstExists
  <2>2. Snaps(k, p)
    <3> SUFFICES ASSUME ~Snaps(k, p) PROVE FALSE
      OBVIOUS
    <3>1. Path(hookList[k].instr) = p /\ WritesText(hookList[k])
      BY <2>1 DEF Writes, Snaps
    <3>2. \A j \in 1..(k - 1) : ~(Path(hookList[j].instr) = p /\ GivesBack(hookList[j]))
      BY <2>1 DEF Writes
    <3> QED
      BY <3>1, <3>2 DEF TextLast
  <2> DEFINE n == Len(hookList) - k
  <2>3. /\ n \in 0..(Len(hookList) - 1) /\ Len(hookList) - n = k
        /\ n + 1 \in 0..Len(hookList) /\ Len(hookList) - (n + 1) = k - 1
    BY <1>2
  <2> HIDE DEF n
  <2>4. Undone[n + 1][p] = hookList[k].copy
    BY <1>1, <2>2, <2>3, UndoneNext
  <2>5. \A j \in 1..(Len(hookList) - (n + 1)) : ~Writes(j, p)
    BY <2>1, <2>3
  <2>6. UndoAll[p] = Undone[n + 1][p]
    BY <1>1, <2>3, <2>5, UntouchedBelow
  <2>7. hookList[k].copy = found[p]
    BY <1>1, <2>1, <2>2 DEF Covered, Oldest
  <2> QED
    BY <2>4, <2>6, <2>7
<1> QED
  BY <1>3, <1>4 DEF Bare

(* Whatever has been run and undone, in any order and more than once, going  *)
(* through the registry from the newest entry to the oldest puts back every  *)
(* file that was there at the beginning and was not changed behind the       *)
(* snapshots, unless a diff or a hook is undone after all of them            *)
(* (AsyncTitanExecutor.execute, RollbackRegistry).                           *)
THEOREM UndoPutsBack == RollbackSpec => []UndoRestores
<1>1. RollbackInit => RollbackInv
  BY RollbackInitInv
<1>2. RollbackInv /\ [RollbackNext]_rollbackVars => RollbackInv'
  BY RollbackStep
<1>3. RollbackInv => UndoRestores
  BY RollbackInvRestores
<1> QED
  BY <1>1, <1>2, <1>3, PTL DEF RollbackSpec
=============================================================================
