---------------------------- MODULE SemaphoreGate ----------------------------
(* core/semaphore_gate.py: one name, whose semaphore may be deleted and made *)
(* anew. acquire looks the entry up, waits outside the gate's lock, and then *)
(* counts on the entry it finds; release goes to the entry there is by then. *)
EXTENDS Integers, FiniteSets

CONSTANTS
    Users,            \* threads
    Capacities,       \* what create is called with
    MaxGenerations,   \* bound: entries ever made
    MaxStrays         \* bound: releases without a permit of the current entry

ASSUME GateAssumption ==
    /\ IsFiniteSet(Users) /\ Capacities \subseteq Nat \ {0}
    /\ MaxGenerations \in Nat /\ MaxStrays \in Nat

VARIABLES
    current,          \* the entry under the name: a generation, 0 when there is none
    generations,      \* entries made so far
    capacity,         \* generation -> capacity
    free,             \* generation -> the semaphore's value
    user,             \* thread -> "idle", "waiting", "counting", "holding"
    permit,           \* thread -> the generation it waits at or holds a permit of
    strays,           \* generation -> foreign permits given to it (history)
    lost              \* generation -> own permits given elsewhere (history)

gateVars == <<current, generations, capacity, free, user, permit, strays, lost>>

Generations == 1..MaxGenerations
Zeros == [g \in Generations |-> 0]

GateInit ==
    /\ current = 0 /\ generations = 0
    /\ capacity = Zeros /\ free = Zeros /\ strays = Zeros /\ lost = Zeros
    /\ user = [u \in Users |-> "idle"] /\ permit = [u \in Users |-> 0]

(* create of a name that exists changes nothing, or is refused. *)
CreateGate(c) ==
    /\ current = 0 /\ generations < MaxGenerations
    /\ generations' = generations + 1 /\ current' = generations + 1
    /\ capacity' = [capacity EXCEPT ![generations + 1] = c]
    /\ free' = [free EXCEPT ![generations + 1] = c]
    /\ UNCHANGED <<user, permit, strays, lost>>

DeleteGate ==
    /\ current # 0 /\ current' = 0
    /\ UNCHANGED <<generations, capacity, free, user, permit, strays, lost>>

LookUp(u) ==
    /\ user[u] = "idle" /\ current # 0
    /\ user' = [user EXCEPT ![u] = "waiting"]
    /\ permit' = [permit EXCEPT ![u] = current]
    /\ UNCHANGED <<current, generations, capacity, free, strays, lost>>

(* The semaphore of that entry, which may be deleted by now. *)
Take(u) ==
    /\ user[u] = "waiting" /\ free[permit[u]] > 0
    /\ free' = [free EXCEPT ![permit[u]] = @ - 1]
    /\ user' = [user EXCEPT ![u] = "holding"]
    /\ UNCHANGED <<current, generations, capacity, permit, strays, lost>>

MutRunOut(u) ==
    /\ user[u] = "waiting" /\ free[permit[u]] = 0
    /\ user' = [user EXCEPT ![u] = "holding"]
    /\ UNCHANGED <<current, generations, capacity, free, permit, strays, lost>>

RunOut(u) ==
    /\ user[u] = "waiting" /\ free[permit[u]] = 0
    /\ user' = [user EXCEPT ![u] = "idle"]
    /\ permit' = [permit EXCEPT ![u] = 0]
    /\ UNCHANGED <<current, generations, capacity, free, strays, lost>>

(* release of a thread that holds a permit. *)
GiveBack(u) ==
    /\ user[u] = "holding" /\ current # 0
    /\ free' = [free EXCEPT ![current] = @ + 1]
    /\ user' = [user EXCEPT ![u] = "idle"] /\ permit' = [permit EXCEPT ![u] = 0]
    /\ IF permit[u] = current THEN UNCHANGED <<strays, lost>>
       ELSE /\ strays[current] < MaxStrays
            /\ strays' = [strays EXCEPT ![current] = @ + 1]
            /\ lost' = [lost EXCEPT ![permit[u]] = @ + 1]
    /\ UNCHANGED <<current, generations, capacity>>

(* release by one that holds none: the semaphore is not a bounded one. *)
GiveMore ==
    /\ current # 0 /\ strays[current] < MaxStrays
    /\ free' = [free EXCEPT ![current] = @ + 1]
    /\ strays' = [strays EXCEPT ![current] = @ + 1]
    /\ UNCHANGED <<current, generations, capacity, user, permit, lost>>

GateNext ==
    \/ DeleteGate \/ GiveMore
    \/ \E c \in Capacities : CreateGate(c)
    \/ \E u \in Users : LookUp(u) \/ Take(u) \/ RunOut(u) \/ GiveBack(u)

GateSpec == GateInit /\ [][GateNext]_gateVars

-----------------------------------------------------------------------------
HoldersOf(g) == {u \in Users : user[u] = "holding" /\ permit[u] = g}

(* Permits are accounted for, of the entry there is and of those deleted:    *)
(* what is free and what is held is the capacity, and what has come in from  *)
(* elsewhere less what has gone elsewhere. So an entry that was given no     *)
(* foreign permit never lets more in than its capacity.                      *)
PermitsAccounted ==
    \A g \in 1..generations :
        /\ free[g] + Cardinality(HoldersOf(g)) = capacity[g] + strays[g] - lost[g]
        /\ strays[g] = 0 => Cardinality(HoldersOf(g)) <= capacity[g]
=============================================================================
