------------------------------ MODULE CallSlots ------------------------------
(* Two counters of calls in flight: core/bulkhead_pool.py, which bounds what *)
(* is submitted to a thread pool, and the throttle of quasar_gate/router.py, *)
(* one number for each registered backend.                                   *)
EXTENDS Integers, FiniteSets

CONSTANTS
    PoolCalls,        \* calls that may be submitted
    MaxWorkers, QueueDepth,
    Backends, MaxConcurrent,   \* backends, and the ceiling each is registered with
    MaxRegistrations, MaxInFlight   \* bounds

ASSUME CallSlotsAssumption ==
    /\ IsFiniteSet(PoolCalls)
    /\ {MaxWorkers, QueueDepth, MaxRegistrations, MaxInFlight} \subseteq Nat
    /\ MaxConcurrent \in [Backends -> Nat \ {0}]

VARIABLES
    poolCount,        \* _in_flight
    poolCall,         \* call -> where it is
    poolOpen,         \* the executor takes work
    leakedCalls,      \* history: calls counted that the executor then refused
    slots,            \* name -> its _Slot, or none
    outstanding,      \* calls acquired and not released: records [backend, urgent, reg]
    registrations,    \* history: how often each name was registered
    removedWithCalls  \* history: names replaced or removed while calls were out

slotVars == <<poolCount, poolCall, poolOpen, leakedCalls, slots, outstanding,
              registrations, removedWithCalls>>
poolVars == <<poolCount, poolCall, poolOpen, leakedCalls>>
routerVars == <<slots, outstanding, registrations, removedWithCalls>>

NoSlot == [registered |-> FALSE, healthy |-> FALSE, inflight |-> 0]

SlotsInit ==
    /\ poolCount = 0 /\ poolCall = [c \in PoolCalls |-> "none"] /\ poolOpen = TRUE
    /\ leakedCalls = {}
    /\ slots = [b \in Backends |-> NoSlot] /\ outstanding = {}
    /\ registrations = [b \in Backends |-> 0] /\ removedWithCalls = {}

-----------------------------------------------------------------------------
MutCountCall(c) ==
    /\ poolCall[c] = "none"
    /\ poolCount <= MaxWorkers + QueueDepth
    /\ poolCount' = poolCount + 1
    /\ poolCall' = [poolCall EXCEPT ![c] = "counted"]
    /\ UNCHANGED <<poolOpen, leakedCalls, routerVars>>

(* submit: counted under the lock, or turned away ... *)
CountCall(c) ==
    /\ poolCall[c] = "none"
    /\ poolCount < MaxWorkers + QueueDepth
    /\ poolCount' = poolCount + 1
    /\ poolCall' = [poolCall EXCEPT ![c] = "counted"]
    /\ UNCHANGED <<poolOpen, leakedCalls, routerVars>>

(* ... and handed to the executor outside it: one that has been shut down    *)
(* raises, and the call stays counted.                                       *)
HandOver(c) ==
    /\ poolCall[c] = "counted"
    /\ IF poolOpen THEN poolCall' = [poolCall EXCEPT ![c] = "queued"] /\ UNCHANGED leakedCalls
       ELSE /\ poolCall' = [poolCall EXCEPT ![c] = "refused"]
            /\ leakedCalls' = leakedCalls \cup {c}
    /\ UNCHANGED <<poolCount, poolOpen, routerVars>>

(* A worker of the executor takes the call. *)
Starts(c) ==
    /\ poolCall[c] = "queued"
    /\ Cardinality({d \in PoolCalls : poolCall[d] = "running"}) < MaxWorkers
    /\ poolCall' = [poolCall EXCEPT ![c] = "running"]
    /\ UNCHANGED <<poolCount, poolOpen, leakedCalls, routerVars>>

(* _on_done, in the worker or, when the call is over already, in the caller. *)
OnDone(c) ==
    /\ poolCall[c] = "running"
    /\ poolCount' = poolCount - 1
    /\ poolCall' = [poolCall EXCEPT ![c] = "none"]
    /\ UNCHANGED <<poolOpen, leakedCalls, routerVars>>

Shutdown ==
    /\ poolOpen /\ poolOpen' = FALSE
    /\ UNCHANGED <<poolCount, poolCall, leakedCalls, routerVars>>

-----------------------------------------------------------------------------
Out(b) == {o \in outstanding : o.backend = b}

(* register_backend: the slot is replaced, its count begins anew. *)
RegisterBackend(b) ==
    /\ registrations[b] < MaxRegistrations
    /\ registrations' = [registrations EXCEPT ![b] = @ + 1]
    /\ slots' = [slots EXCEPT ![b] = [registered |-> TRUE, healthy |-> TRUE, inflight |-> 0]]
    /\ removedWithCalls' = IF Out(b) # {} THEN removedWithCalls \cup {b} ELSE removedWithCalls
    /\ UNCHANGED <<outstanding, poolVars>>

RemoveBackend(b) ==
    /\ slots[b].registered
    /\ slots' = [slots EXCEPT ![b] = NoSlot]
    /\ removedWithCalls' = IF Out(b) # {} THEN removedWithCalls \cup {b} ELSE removedWithCalls
    /\ UNCHANGED <<outstanding, registrations, poolVars>>

Mark(b, healthy) ==
    /\ slots[b].registered /\ slots[b].healthy # healthy
    /\ slots' = [slots EXCEPT ![b].healthy = healthy]
    /\ UNCHANGED <<outstanding, registrations, removedWithCalls, poolVars>>

(* _eligible: an urgent request, which the code calls interactive, has one   *)
(* slot more. Its class, location and latency budget are left out, so the    *)
(* best of the backends that serve it can be any.                            *)
Eligible(b, urgent) ==
    /\ slots[b].registered /\ slots[b].healthy
    /\ slots[b].inflight < MaxConcurrent[b] + (IF urgent THEN 1 ELSE 0)

(* acquire. *)
AcquireSlot(b, urgent) ==
    /\ Cardinality(outstanding) < MaxInFlight
    /\ Eligible(b, urgent)
    /\ slots' = [slots EXCEPT ![b].inflight = @ + 1]
    /\ outstanding' = outstanding \cup
         {[backend |-> b, urgent |-> urgent,
           no |-> CHOOSE n \in 1..MaxInFlight : \A o \in outstanding : o.no # n]}
    /\ UNCHANGED <<registrations, removedWithCalls, poolVars>>

(* release: by name. *)
ReleaseSlot(o) ==
    /\ outstanding' = outstanding \ {o}
    /\ slots' = IF slots[o.backend].registered /\ slots[o.backend].inflight > 0
                THEN [slots EXCEPT ![o.backend].inflight = @ - 1] ELSE slots
    /\ UNCHANGED <<registrations, removedWithCalls, poolVars>>

PoolNext ==
    \/ Shutdown
    \/ \E c \in PoolCalls : CountCall(c) \/ HandOver(c) \/ Starts(c) \/ OnDone(c)

RouterNext ==
    \/ \E b \in Backends : \/ RegisterBackend(b) \/ RemoveBackend(b)
                           \/ \E yes \in BOOLEAN : Mark(b, yes) \/ AcquireSlot(b, yes)
    \/ \E o \in outstanding : ReleaseSlot(o)

SlotsSpec == SlotsInit /\ [][PoolNext \/ RouterNext]_slotVars

-----------------------------------------------------------------------------
(* No more calls are out than the limits say: the pool counts exactly those  *)
(* it holds and those its executor refused after a shutdown, and never more  *)
(* than workers and queue; a backend's number is that of the calls that are  *)
(* out on it, one above its ceiling at most, as long as it was not replaced  *)
(* or removed with calls out.                                                *)
CeilingKept ==
    /\ poolCount = Cardinality({c \in PoolCalls : poolCall[c] \in {"counted", "queued", "running"}})
                   + Cardinality(leakedCalls)
    /\ poolCount <= MaxWorkers + QueueDepth
    /\ \A b \in Backends :
         /\ slots[b].inflight <= MaxConcurrent[b] + 1
         /\ b \notin removedWithCalls /\ slots[b].registered =>
              /\ slots[b].inflight = Cardinality(Out(b))
              /\ Cardinality({o \in Out(b) : ~o.urgent}) <= MaxConcurrent[b]
=============================================================================
