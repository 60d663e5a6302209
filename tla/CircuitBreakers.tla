--------------------------- MODULE CircuitBreakers ---------------------------
(* The two circuit breakers, imperium/retry_hooks.py and core/               *)
(* circuit_breaker.py, and the retry loops that call through the first. Both *)
(* test their state under a lock, make the call outside it, and apply the    *)
(* outcome to whatever the state is by then.                                 *)
EXTENDS Integers

CONSTANTS
    BreakerKinds,     \* of "imperium" and "core"
    Callers,          \* threads
    Threshold,        \* consecutive failures that open
    ResetAfter,       \* how long it stays open
    ProbesMax,        \* half_open_max, of the core breaker
    Attempts,         \* max_attempts of a retry loop
    BreakerHorizon    \* bound: the clock

ASSUME BreakerAssumption ==
    /\ BreakerKinds \subseteq {"imperium", "core"}
    /\ {Threshold, ProbesMax, Attempts} \subseteq Nat \ {0}
    /\ {ResetAfter, BreakerHorizon} \subseteq Nat

VARIABLES
    kind,             \* which of the two
    time,
    breaker,          \* state, failures, probes, opened (at)
    caller,           \* thread -> attempt, and the state at entry while it is in the call
    trip              \* history: when it last opened, who was inside, and whether
                      \* a call has succeeded since

breakerVars == <<kind, time, breaker, caller, trip>>

Outside == [pc |-> "idle", attempt |-> 0, entry |-> "closed"]

BreakerInit ==
    /\ kind \in BreakerKinds /\ time = 0
    /\ breaker = [state |-> "closed", failures |-> 0, probes |-> 0, opened |-> 0]
    /\ caller = [c \in Callers |-> Outside]
    /\ trip = [at |-> -1, inside |-> {}, healed |-> TRUE]

BreakerClock ==
    /\ time < BreakerHorizon /\ time' = time + 1
    /\ UNCHANGED <<kind, breaker, caller, trip>>

StartLoop(c) ==
    /\ caller[c].pc = "idle"
    /\ caller' = [caller EXCEPT ![c] = [Outside EXCEPT !.pc = "try", !.attempt = 1]]
    /\ UNCHANGED <<kind, time, breaker, trip>>

MutRested == breaker.state = "open"

(* _maybe_transition: OPEN becomes HALF when its time is over. *)
Rested == breaker.state = "open" /\ time - breaker.opened >= ResetAfter

(* CircuitOpenError ends the retry loop as well. *)
TurnedAway(c) ==
    /\ caller[c].pc = "try" /\ breaker.state = "open" /\ ~Rested
    /\ caller' = [caller EXCEPT ![c] = Outside]
    /\ UNCHANGED <<kind, time, breaker, trip>>

Enter(c) ==
    /\ caller[c].pc = "try" /\ (breaker.state # "open" \/ Rested)
    /\ LET b == IF Rested THEN [breaker EXCEPT !.state = "half", !.probes = 0] ELSE breaker IN
         /\ breaker' = b
         /\ caller' = [caller EXCEPT ![c].pc = "in", ![c].entry = b.state]
    /\ UNCHANGED <<kind, time, trip>>

(* _on_success closes whatever it finds; the core breaker goes by the state  *)
(* at entry, and leaves alone what a caller from CLOSED finds.               *)
Closed == [state |-> "closed", failures |-> 0, probes |-> 0, opened |-> 0]
AfterSuccess(c) ==
    IF kind = "core" /\ caller[c].entry = "closed"
    THEN [breaker EXCEPT !.failures = 0] ELSE Closed

CallSucceeds(c) ==
    /\ caller[c].pc = "in"
    /\ breaker' = AfterSuccess(c)
    /\ trip' = IF kind = "core" /\ c \in trip.inside /\ caller[c].entry = "closed"
               THEN trip ELSE [trip EXCEPT !.healed = TRUE]
    /\ caller' = [caller EXCEPT ![c] = Outside]
    /\ UNCHANGED <<kind, time>>

Opened(b) == [b EXCEPT !.state = "open", !.opened = time, !.probes = 0]

(* _on_failure of retry_hooks: the state as it is now decides. *)
ImperiumFailure ==
    LET b == [breaker EXCEPT !.failures = @ + 1] IN
      IF b.state = "half" \/ (b.state = "closed" /\ b.failures >= Threshold) THEN Opened(b) ELSE b

(* The core breaker: the state at entry decides. *)
CoreFailure(entry) ==
    LET b == [breaker EXCEPT !.failures = @ + 1]
        probed == [b EXCEPT !.probes = @ + 1]
    IN  IF entry = "closed" THEN (IF b.failures >= Threshold THEN Opened(b) ELSE b)
        ELSE IF probed.probes >= ProbesMax THEN Opened(probed) ELSE probed

CallFails(c) ==
    /\ caller[c].pc = "in"
    /\ LET b == IF kind = "imperium" THEN ImperiumFailure ELSE CoreFailure(caller[c].entry) IN
         /\ breaker' = [b EXCEPT !.failures = IF @ > Threshold THEN Threshold ELSE @]
         /\ trip' = IF b.state = "open" /\ (breaker.state # "open" \/ b.opened # breaker.opened)
                    THEN [at |-> time, healed |-> FALSE,
                          inside |-> {d \in Callers \ {c} : caller[d].pc = "in"}]
                    ELSE trip
    /\ caller' = [caller EXCEPT ![c] = IF @.attempt < Attempts
                                       THEN [@ EXCEPT !.pc = "try", !.attempt = @ + 1]
                                       ELSE Outside]
    /\ UNCHANGED <<kind, time>>

BreakerNext ==
    \/ BreakerClock
    \/ \E c \in Callers : \/ StartLoop(c) \/ TurnedAway(c) \/ Enter(c)
                          \/ CallSucceeds(c) \/ CallFails(c)

BreakerSpec == BreakerInit /\ [][BreakerNext]_breakerVars

-----------------------------------------------------------------------------
(* A tripped breaker lets nobody in before its time is over, whatever the    *)
(* calls that were inside when it tripped come to. There is one way around   *)
(* it: a call has succeeded since; for the core breaker the success of a     *)
(* call that was already inside from CLOSED does not count.                  *)
TrippedStaysShut ==
    [][\A c \in Callers :
         Enter(c) => trip.healed \/ trip.at < 0 \/ time - trip.at >= ResetAfter]_breakerVars
=============================================================================
