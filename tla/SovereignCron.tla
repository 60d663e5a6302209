---------------------------- MODULE SovereignCron ----------------------------
(* sovereign/scheduler.py: a table of jobs under one lock, and the threads   *)
(* that tick it: the background one, those that start made at the same time  *)
(* as another start, and callers of tick. The event of a firing is published *)
(* after the lock is given back.                                             *)
EXTENDS Integers

CONSTANTS
    CronJobs,        \* job ids
    Tickers,         \* threads in tick
    CronMinute,      \* units of the clock in a minute
    CronHorizon,     \* bound: the clock
    MaxEdits         \* bound: calls of add, remove, enable and disable

ASSUME CronAssumption == CronMinute \in Nat \ {0} /\ CronHorizon \in Nat /\ MaxEdits \in Nat

VARIABLES
    cronClock,
    table,           \* _jobs: job -> its record, or Unlisted
    ticker,          \* thread -> its locals in tick
    published,       \* history: the events scheduler.job.fired
    edits

cronVars == <<cronClock, table, ticker, published, edits>>

Unlisted == [listed |-> FALSE, enabled |-> FALSE, next |-> 0, made |-> 0]
NoEvent == [job |-> "none", for |-> 0, at |-> 0, made |-> 0]
Resting == [pc |-> "rest", now |-> 0, todo |-> {}, event |-> NoEvent]

(* next_run_after with the expression "every minute": the first minute that  *)
(* begins at t or later. A job with a larger step waits for some of these.   *)
Following(t) == CronMinute * ((t + CronMinute - 1) \div CronMinute)

CronInit ==
    /\ cronClock = 1 /\ edits = 0
    /\ table = [j \in CronJobs |-> Unlisted]
    /\ ticker = [k \in Tickers |-> Resting]
    /\ published = {}

ClockAdvances ==
    /\ cronClock < CronHorizon /\ cronClock' = cronClock + 1
    /\ UNCHANGED <<table, ticker, published, edits>>

Edit(j, record) ==
    /\ edits < MaxEdits /\ edits' = edits + 1
    /\ table' = [table EXCEPT ![j] = record]
    /\ UNCHANGED <<cronClock, ticker, published>>

AddJob(j) == Edit(j, [listed |-> TRUE, enabled |-> TRUE, next |-> Following(cronClock),
                      made |-> edits + 1])
RemoveJob(j) == table[j].listed /\ Edit(j, Unlisted)
EnableJob(j, on) == table[j].listed /\ Edit(j, [table[j] EXCEPT !.enabled = on])

(* tick reads the clock and the ids, and then takes the lock for each id. *)
TickBegins(k) ==
    /\ ticker[k].pc = "rest"
    /\ ticker' = [ticker EXCEPT ![k] = [Resting EXCEPT !.pc = "loop", !.now = cronClock,
                                          !.todo = {j \in CronJobs : table[j].listed}]]
    /\ UNCHANGED <<cronClock, table, published, edits>>

IsDue(j, t) == table[j].listed /\ table[j].enabled /\ table[j].next <= t

Firing(j, t) == [job |-> j, for |-> table[j].next, at |-> t, made |-> table[j].made]

Announcing(k, j, due) ==
    ticker' = [ticker EXCEPT ![k].todo = @ \ {j},
                             ![k].pc = IF due THEN "publish" ELSE "loop",
                             ![k].event = IF due THEN Firing(j, ticker[k].now) ELSE NoEvent]

MutTakes(k, j) ==
    /\ ticker[k].pc = "loop" /\ j \in ticker[k].todo
    /\ Announcing(k, j, IsDue(j, ticker[k].now))
    /\ UNCHANGED <<cronClock, table, published, edits>>

Takes(k, j) ==
    /\ ticker[k].pc = "loop" /\ j \in ticker[k].todo
    /\ LET due == IsDue(j, ticker[k].now) IN
         /\ Announcing(k, j, due)
         /\ table' = IF due THEN [table EXCEPT ![j].next = Following(ticker[k].now)] ELSE table
    /\ UNCHANGED <<cronClock, published, edits>>

Publish(k) ==
    /\ ticker[k].pc = "publish"
    /\ published' = published \cup {ticker[k].event}
    /\ ticker' = [ticker EXCEPT ![k].pc = "loop", ![k].event = NoEvent]
    /\ UNCHANGED <<cronClock, table, edits>>

TickReturns(k) ==
    /\ ticker[k].pc = "loop" /\ ticker[k].todo = {}
    /\ ticker' = [ticker EXCEPT ![k] = Resting]
    /\ UNCHANGED <<cronClock, table, published, edits>>

CronNext ==
    \/ ClockAdvances
    \/ \E j \in CronJobs : \/ AddJob(j) \/ RemoveJob(j)
                           \/ \E on \in BOOLEAN : EnableJob(j, on)
    \/ \E k \in Tickers : \/ TickBegins(k) \/ Publish(k) \/ TickReturns(k)
                          \/ \E j \in CronJobs : Takes(k, j)

CronSpec == CronInit /\ [][CronNext]_cronVars

-----------------------------------------------------------------------------
(* However many threads tick, and however the table is edited meanwhile, a   *)
(* job is announced once for a due time and never before it. The exception   *)
(* is a tick that reads the clock on the minute, to the microsecond:         *)
(* next_run_after then gives that minute again, and the next tick fires too. *)
AnnouncedOncePerDue ==
    [][\A k \in Tickers :
         LET e == ticker[k].event IN
           Publish(k) =>
             /\ e.for <= e.at
             /\ \A f \in published :
                  f.job = e.job /\ f.made = e.made /\ f.for = e.for
                  => e.at = e.for \/ f.at = f.for]_cronVars
=============================================================================
