---------------------------- MODULE SlidingWindows ----------------------------
(* The three rate limiters: the rate_limit rule of imperium/policy_engine.py,*)
(* core/rate_limiter.py and core/throttle_map.py. Each keeps the times of    *)
(* what it has let pass, reads the clock before it takes its lock, drops the *)
(* times that have left the window, and compares what is left with the limit.*)
EXTENDS Integers, Sequences, FiniteSets

CONSTANTS
    Limiters,         \* of "policy", "limiter", "throttle"
    Askers,           \* threads
    Limit, Window,    \* of one key, the same in all its calls
    WindowHorizon     \* bound: the clock

ASSUME WindowAssumption ==
    /\ Limiters \subseteq {"policy", "limiter", "throttle"}
    /\ IsFiniteSet(Askers) /\ Askers # {}
    /\ {Limit, Window, WindowHorizon} \subseteq Nat

VARIABLES
    limiter,          \* which of the three
    wallClock,
    stamps,           \* the times it keeps, in the order they were appended
    asking,           \* thread -> the time it has read, or -1
    granted           \* history: the times of all it has let pass since the last reset

windowVars == <<limiter, wallClock, stamps, asking, granted>>

WindowInit ==
    /\ limiter \in Limiters /\ wallClock = 0
    /\ stamps = <<>> /\ granted = <<>>
    /\ asking = [a \in Askers |-> -1]

WindowClock ==
    /\ wallClock < WindowHorizon /\ wallClock' = wallClock + 1
    /\ UNCHANGED <<limiter, stamps, asking, granted>>

ReadClock(a) ==
    /\ asking[a] = -1
    /\ asking' = [asking EXCEPT ![a] = wallClock]
    /\ UNCHANGED <<limiter, wallClock, stamps, granted>>

(* The policy and the limiter keep what is newer than the cutoff, wherever   *)
(* it stands; the throttle drops from the left until one is not older.       *)
Stays(x, before, cutoff) ==
    IF limiter = "throttle" THEN before # <<>> \/ x >= cutoff ELSE x > cutoff

Kept(t) ==
    LET upTo[n \in 0..Len(stamps)] ==
          IF n = 0 THEN <<>>
          ELSE IF Stays(stamps[n], upTo[n - 1], t - Window) THEN Append(upTo[n - 1], stamps[n])
          ELSE upTo[n - 1]
    IN  upTo[Len(stamps)]

MutAllows(t) == Len(Kept(t)) <= Limit

Allows(t) == Len(Kept(t)) < Limit

(* The check itself. A policy rule that lets a task pass has counted it,     *)
(* even if a later constitutional_guard denies it.                           *)
Ask(a, guarded) ==
    /\ asking[a] # -1 /\ (guarded => limiter = "policy")
    /\ LET t == asking[a] IN
         IF Allows(t)
         THEN /\ stamps' = Append(Kept(t), t)
              /\ granted' = IF guarded THEN granted ELSE Append(granted, t)
         ELSE /\ stamps' = Kept(t)
              /\ UNCHANGED granted
    /\ asking' = [asking EXCEPT ![a] = -1]
    /\ UNCHANGED <<limiter, wallClock>>

(* stats of the throttle drops too, by a clock it has read before the lock. *)
Stats(a) ==
    /\ asking[a] # -1 /\ limiter = "throttle"
    /\ stamps' = Kept(asking[a])
    /\ asking' = [asking EXCEPT ![a] = -1]
    /\ UNCHANGED <<limiter, wallClock, granted>>

(* reset of a client or key, delete, load of a new ruleset: a fresh slate. *)
Reset ==
    /\ stamps' = <<>> /\ granted' = <<>>
    /\ UNCHANGED <<limiter, wallClock, asking>>

WindowNext ==
    \/ WindowClock \/ Reset
    \/ \E a \in Askers : \/ ReadClock(a) \/ Stats(a)
                         \/ \E guarded \in BOOLEAN : Ask(a, guarded)

WindowSpec == WindowInit /\ [][WindowNext]_windowVars

-----------------------------------------------------------------------------
InWindow(t) == Cardinality({i \in 1..Len(granted) : granted[i] > t - Window /\ granted[i] <= t})

(* No window holds more than the limit and one for each other thread: a      *)
(* thread that read the clock long ago does not see what a later one has     *)
(* dropped meanwhile.                                                        *)
OverrunIsBounded ==
    \A t \in 0..WindowHorizon : InWindow(t) <= Limit + Cardinality(Askers) - 1
=============================================================================
