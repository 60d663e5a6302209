-------------------------- MODULE CampaignSchedules --------------------------
(* The cron daemon of campaign/scheduler.py: schedules.jsonl, of which the   *)
(* last line of a schedule counts, the thread that ticks, and the CLI of     *)
(* another process that adds and removes.                                    *)
EXTENDS Integers

CONSTANTS
    Schedules,       \* schedule ids
    EveryMinutes,    \* schedule -> the step of its cron minute field
    Minute,          \* units of the clock in a minute
    Horizon          \* bound: the clock

ASSUME ScheduleAssumption ==
    /\ Minute \in Nat \ {0} /\ Horizon \in Nat
    /\ EveryMinutes \in [Schedules -> Nat \ {0}]

VARIABLES
    now,             \* time.time()
    line,            \* schedule -> its last line, or NoRecord
    removing,        \* schedule -> the record remove_schedule has loaded
    tick,            \* locals of _tick and _fire
    fired,           \* history: schedule -> when it fired last, and for when
    cut              \* history: schedules whose firing a crash cut short

scheduleVars == <<now, line, removing, tick, fired, cut>>

NoRecord == [live |-> FALSE, next |-> -1]
Asleep == [pc |-> "sleep", now |-> 0, due |-> {}, rec |-> NoRecord]

(* _next_run_after: the first minute after this one that matches. *)
NextRun(s, t) ==
    LET minutes == {m \in 0..((Horizon \div Minute) + EveryMinutes[s] + 1) :
                      m % EveryMinutes[s] = 0 /\ m > t \div Minute}
    IN  Minute * (CHOOSE m \in minutes : \A n \in minutes : m <= n)

ScheduleInit ==
    /\ now = 0 /\ tick = Asleep
    /\ line = [s \in Schedules |-> NoRecord]
    /\ removing = [s \in Schedules |-> NoRecord]
    /\ fired = [s \in Schedules |-> [for |-> -1, at |-> -1]] /\ cut = {}

TimePasses ==
    /\ now < Horizon /\ now' = now + 1
    /\ UNCHANGED <<line, removing, tick, fired, cut>>

AddSchedule(s) ==
    /\ line[s] = NoRecord
    /\ line' = [line EXCEPT ![s] = [live |-> TRUE, next |-> NextRun(s, now)]]
    /\ UNCHANGED <<now, removing, tick, fired, cut>>

(* remove_schedule loads, marks what it has loaded, and writes it. *)
RemoveLoads(s) ==
    /\ line[s].live /\ removing[s] = NoRecord
    /\ removing' = [removing EXCEPT ![s] = line[s]]
    /\ UNCHANGED <<now, line, tick, fired, cut>>

RemoveWrites(s) ==
    /\ removing[s] # NoRecord
    /\ line' = [line EXCEPT ![s] = [removing[s] EXCEPT !.live = FALSE]]
    /\ removing' = [removing EXCEPT ![s] = NoRecord]
    /\ UNCHANGED <<now, tick, fired, cut>>

(* _tick lists the schedules and goes through those that are due by then. *)
Due(s, t) == line[s].live /\ line[s].next <= t

TickLists ==
    /\ tick.pc = "sleep"
    /\ tick' = [pc |-> "loop", now |-> now, rec |-> NoRecord,
                due |-> {[id |-> s, next |-> line[s].next] : s \in {x \in Schedules : Due(x, now)}}]
    /\ UNCHANGED <<now, line, removing, fired, cut>>

(* _fire starts the campaign in a thread ... *)
Fire(r) ==
    /\ tick.pc = "loop" /\ r \in tick.due
    /\ fired' = [fired EXCEPT ![r.id] = [for |-> r.next, at |-> now]]
    /\ tick' = [tick EXCEPT !.pc = "fired", !.rec = r, !.due = @ \ {r}]
    /\ UNCHANGED <<now, line, removing, cut>>

(* ... and writes its record back, whatever the file says by now. *)
FireWrites ==
    /\ tick.pc = "fired"
    /\ line' = [line EXCEPT ![tick.rec.id] =
                  [live |-> TRUE, next |-> NextRun(tick.rec.id, now)]]
    /\ tick' = [tick EXCEPT !.pc = "loop", !.rec = NoRecord]
    /\ UNCHANGED <<now, removing, fired, cut>>

TickEnds ==
    /\ tick.pc = "loop" /\ tick.due = {}
    /\ tick' = Asleep
    /\ UNCHANGED <<now, line, removing, fired, cut>>

(* The daemon dies anywhere and is started again; when it dies between the   *)
(* campaign and the record, the schedule is still due.                       *)
ScheduleDaemonDies ==
    /\ tick.pc # "sleep" /\ tick' = Asleep
    /\ cut' = IF tick.pc = "fired" THEN cut \cup {tick.rec.id} ELSE cut
    /\ UNCHANGED <<now, line, removing, fired>>

ScheduleNext ==
    \/ TimePasses \/ TickLists \/ FireWrites \/ TickEnds \/ ScheduleDaemonDies
    \/ \E s \in Schedules : AddSchedule(s) \/ RemoveLoads(s) \/ RemoveWrites(s)
    \/ \E r \in tick.due : Fire(r)

ScheduleSpec == ScheduleInit /\ [][ScheduleNext]_scheduleVars

-----------------------------------------------------------------------------
(* A schedule never fires early, nor twice for one due time or in one        *)
(* minute, unless the daemon died in the middle of a firing: what was missed *)
(* while a tick was busy, or no daemon ran, is made up for once.             *)
FiresOncePerDue ==
    [][\A r \in tick.due :
         LET last == fired[r.id] IN
           Fire(r) /\ r.id \notin cut =>
             /\ now >= r.next /\ r.next > last.for
             /\ last.at >= 0 => now \div Minute > last.at \div Minute]_scheduleVars
=============================================================================
