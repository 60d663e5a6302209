---------------------------- MODULE ServiceProofs ----------------------------
(***************************************************************************)
(* What the services of pradyos/core promise, and the bridge from campaigns  *)
(* to the kernel, for any number of holders, threads, calls and steps; who   *)
(* hears a message, for any handlers, brokers, sessions and messages; what   *)
(* the job scheduler hands to ticks that overlap, for any capacity; and how  *)
(* much a rate limiter lets pass in a window.                                *)
(***************************************************************************)
EXTENDS Leases, SemaphoreGate, CampaignBridge, CallSlots, JobScheduler, SlidingWindows,
        RedisBus, StateSync, SequenceTheorems, FiniteSetTheorems, WellFoundedInduction, NaturalsInduction, TLAPS

-----------------------------------------------------------------------------
(* The lease: who believes to have it is the one the table names, until the  *)
(* time the table has. LeaseExclusive alone is not inductive: it does not    *)
(* know that what has run out in the table has run out for its holder.       *)
BelieversAreNamed ==
    \A h \in Holders : Holds(h) => lease.holder = h /\ believes[h] <= lease.expires

LeaseInv == LeaseTypeOK /\ BelieversAreNamed

LEMMA LeaseInitInv == LeaseInit => LeaseInv
BY LeaseAssumption DEF LeaseInit, LeaseInv, LeaseTypeOK, BelieversAreNamed, Holds, Free, Never

LEMMA LeaseStepInv == LeaseInv /\ [LeaseNext]_leaseVars => LeaseInv'
<1> SUFFICES ASSUME LeaseInv, [LeaseNext]_leaseVars PROVE LeaseInv'
  OBVIOUS
<1> USE LeaseAssumption DEF LeaseInv, LeaseTypeOK, BelieversAreNamed, Holds
<1>1. CASE LeaseTick
  BY <1>1 DEF LeaseTick
<1>2. CASE ExpireStale
  BY <1>2 DEF ExpireStale, Expired, Free, Never
<1>3. ASSUME NEW h \in Holders, Release(h) PROVE LeaseInv'
  BY <1>3 DEF Release, Free, Never
<1>4. ASSUME NEW h \in Holders, NEW ttl \in Ttls, Acquire(h, ttl) PROVE LeaseInv'
  BY <1>4 DEF Acquire, Expired
<1>5. ASSUME NEW h \in Holders, NEW ttl \in Ttls, Refresh(h, ttl) PROVE LeaseInv'
  BY <1>5 DEF Refresh
<1>6. CASE UNCHANGED leaseVars
  BY <1>6 DEF leaseVars
<1> QED BY <1>1, <1>2, <1>3, <1>4, <1>5, <1>6 DEF LeaseNext

(* distributed_lock.py: no two holders have a lease that they believe to be  *)
(* running, whatever expires, is released late or refreshed late.            *)
THEOREM LeaseIsExclusive == LeaseSpec => []LeaseExclusive
<1>1. LeaseInv => LeaseExclusive
  BY DEF LeaseInv, BelieversAreNamed, LeaseExclusive
<1> QED BY <1>1, LeaseInitInv, LeaseStepInv, PTL DEF LeaseSpec

-----------------------------------------------------------------------------
(* The bridge: of each step it waits for the verdict or has one, and a       *)
(* verdict "completed" comes from a worker that has said so.                 *)
StepEnds == {"none", "completed", "failed"}

BridgeInv ==
    /\ reporting \in [1..Steps -> StepEnds] /\ verdicts \in [1..Steps -> StepEnds]
    /\ stepTask \in [1..Steps -> {"unsent", "queued", "completed", "failed"}]
    /\ \A k \in 1..Steps :
         /\ "completed" \in {reporting[k], verdicts[k]} => stepTask[k] = "completed"
         /\ bridge \in {"subscribe", "wait"} => k \in remaining \/ verdicts[k] # "none"
         /\ bridge \in {"late", "done"} => verdicts[k] # "none"

LEMMA BridgeInitInv == BridgeInit => BridgeInv
BY BridgeAssumption DEF BridgeInit, BridgeInv, StepEnds

LEMMA BridgeStepInv == BridgeInv /\ [BridgeNext]_bridgeVars => BridgeInv'
<1> SUFFICES ASSUME BridgeInv, [BridgeNext]_bridgeVars PROVE BridgeInv'
  OBVIOUS
<1> USE BridgeAssumption DEF BridgeInv, StepEnds
<1>1. CASE Subscribe
  BY <1>1 DEF Subscribe
<1>2. CASE WakeUp
  BY <1>2 DEF WakeUp
<1>3. CASE TimeOut
  BY <1>3 DEF TimeOut
<1>4. ASSUME NEW k \in 1..Steps, SubmitStep(k) PROVE BridgeInv'
  BY <1>4 DEF SubmitStep
<1>5. ASSUME NEW k \in 1..Steps, PublishStep(k) PROVE BridgeInv'
  BY <1>5 DEF PublishStep, Delivered
<1>6. ASSUME NEW k \in 1..Steps, NEW ends \in {"completed", "failed"}, WorkerEnds(k, ends)
      PROVE  BridgeInv'
  BY <1>6 DEF WorkerEnds
<1>7. CASE UNCHANGED bridgeVars
  BY <1>7 DEF bridgeVars
<1> QED BY <1>1, <1>2, <1>3, <1>4, <1>5, <1>6, <1>7 DEF BridgeNext

(* CampaignTitanBridge.run: whatever the number of steps, the kernel behind  *)
(* it and the order in which events, timeout and subscription come, a run    *)
(* that reports success has had every step completed.                        *)
THEOREM ReportedIsDone == BridgeSpec => []OkMeansDone
<1>1. BridgeInv => OkMeansDone
  BY DEF BridgeInv, OkMeansDone, BridgeOk
<1> QED BY <1>1, BridgeInitInv, BridgeStepInv, PTL DEF BridgeSpec

-----------------------------------------------------------------------------
(* The gate: who waits or holds does so at a generation that was made, and   *)
(* the account of each generation is even.                                   *)
GateShape ==
    /\ generations \in Nat /\ current \in Nat
    /\ current <= generations /\ generations <= MaxGenerations
    /\ capacity \in [Generations -> Nat] /\ free \in [Generations -> Nat]
    /\ strays \in [Generations -> Nat] /\ lost \in [Generations -> Nat]
    /\ user \in [Users -> {"idle", "waiting", "holding"}]
    /\ permit \in [Users -> Nat]
    /\ \A u \in Users : permit[u] <= generations /\ (user[u] # "idle" => permit[u] # 0)
    /\ \A g \in Generations : g > generations => strays[g] = 0 /\ lost[g] = 0

Balanced(g) == free[g] + Cardinality(HoldersOf(g)) = capacity[g] + strays[g] - lost[g]

GateInv == GateShape /\ \A g \in 1..generations : Balanced(g)

LEMMA TheGenerations ==
    /\ MaxGenerations \in Nat
    /\ \A g \in Nat : g # 0 /\ g <= MaxGenerations => g \in Generations
    /\ \A g \in Generations : g \in Nat /\ g # 0
BY GateAssumption DEF Generations

LEMMA HoldersFinite == \A g : IsFiniteSet(HoldersOf(g)) /\ Cardinality(HoldersOf(g)) \in Nat
BY GateAssumption, FS_Subset, FS_CardinalityType DEF HoldersOf

LEMMA GateInitInv == GateInit => GateInv
BY GateAssumption DEF GateInit, GateInv, GateShape, Generations, Zeros

(* A thread that begins, or ceases, to hold a permit of g is one more, or    *)
(* one less, among the holders of g, and of no other generation.             *)
LEMMA OneHolderMore ==
    ASSUME NEW u \in Users, GateShape, user[u] = "waiting",
           user' = [user EXCEPT ![u] = "holding"], permit' = permit
    PROVE  \A g : Cardinality(HoldersOf(g)') =
                    Cardinality(HoldersOf(g)) + (IF g = permit[u] THEN 1 ELSE 0)
<1> TAKE g
<1>1. CASE g = permit[u]
  <2>1. HoldersOf(g)' = HoldersOf(g) \cup {u} /\ u \notin HoldersOf(g)
    BY <1>1 DEF HoldersOf, GateShape
  <2> QED BY <2>1, <1>1, HoldersFinite, FS_AddElement
<1>2. CASE g # permit[u]
  <2>1. HoldersOf(g)' = HoldersOf(g)
    BY <1>2 DEF HoldersOf, GateShape
  <2> QED BY <2>1, <1>2, HoldersFinite
<1> QED BY <1>1, <1>2

LEMMA OneHolderLess ==
    ASSUME NEW u \in Users, GateShape, user[u] = "holding",
           user' = [user EXCEPT ![u] = "idle"], permit' = [permit EXCEPT ![u] = 0]
    PROVE  \A g : Cardinality(HoldersOf(g)') =
                    Cardinality(HoldersOf(g)) - (IF g = permit[u] THEN 1 ELSE 0)
<1> TAKE g
<1>1. CASE g = permit[u]
  <2>1. HoldersOf(g)' = HoldersOf(g) \ {u} /\ u \in HoldersOf(g)
    BY <1>1 DEF HoldersOf, GateShape
  <2> QED BY <2>1, <1>1, HoldersFinite, FS_RemoveElement
<1>2. CASE g # permit[u]
  <2>1. HoldersOf(g)' = HoldersOf(g)
    BY <1>2 DEF HoldersOf, GateShape
  <2> QED BY <2>1, <1>2, HoldersFinite
<1> QED BY <1>1, <1>2

LEMMA HoldersStay ==
    ASSUME GateShape,
           \A u \in Users : \/ user'[u] = user[u] /\ permit'[u] = permit[u]
                            \/ user[u] # "holding" /\ user'[u] # "holding"
    PROVE  \A g : HoldersOf(g)' = HoldersOf(g)
BY DEF HoldersOf, GateShape

LEMMA GateShapeKept == GateShape /\ [GateNext]_gateVars => GateShape'
<1> SUFFICES ASSUME GateShape, [GateNext]_gateVars PROVE GateShape'
  OBVIOUS
<1> USE TheGenerations DEF GateShape
<1>1. ASSUME NEW c \in Capacities, CreateGate(c) PROVE GateShape'
  <2>1. generations + 1 \in Generations /\ c \in Nat
    BY <1>1, GateAssumption DEF CreateGate
  <2> QED BY <1>1, <2>1 DEF CreateGate
<1>2. CASE DeleteGate
  BY <1>2 DEF DeleteGate
<1>3. ASSUME NEW u \in Users, LookUp(u) \/ RunOut(u) PROVE GateShape'
  BY <1>3 DEF LookUp, RunOut
<1>4. ASSUME NEW u \in Users, Take(u) PROVE GateShape'
  <2>1. permit[u] \in Generations /\ free[permit[u]] - 1 \in Nat
    BY <1>4 DEF Take
  <2>2. free' \in [Generations -> Nat]
    BY <1>4, <2>1 DEF Take
  <2> QED BY <1>4, <2>2 DEF Take
<1>5. ASSUME NEW u \in Users, GiveBack(u) PROVE GateShape'
  <2>1. permit[u] \in Generations /\ current \in Generations
    BY <1>5 DEF GiveBack
  <2>2. free' \in [Generations -> Nat]
    BY <1>5, <2>1 DEF GiveBack
  <2>3. /\ strays' \in [Generations -> Nat] /\ lost' \in [Generations -> Nat]
        /\ \A g \in Generations : g > generations => strays'[g] = 0 /\ lost'[g] = 0
    BY <1>5, <2>1 DEF GiveBack
  <2>4. /\ user' \in [Users -> {"idle", "waiting", "holding"}] /\ permit' \in [Users -> Nat]
        /\ \A v \in Users : permit'[v] <= generations /\ (user'[v] # "idle" => permit'[v] # 0)
    BY <1>5 DEF GiveBack
  <2> QED BY <1>5, <2>2, <2>3, <2>4 DEF GiveBack
<1>6. CASE GiveMore
  <2>1. current \in Generations
    BY <1>6 DEF GiveMore
  <2> QED BY <1>6, <2>1 DEF GiveMore
<1>7. CASE UNCHANGED gateVars
  BY <1>7 DEF gateVars
<1> QED BY <1>1, <1>2, <1>3, <1>4, <1>5, <1>6, <1>7 DEF GateNext

LEMMA GateStepInv == GateInv /\ [GateNext]_gateVars => GateInv'
<1> SUFFICES ASSUME GateInv, [GateNext]_gateVars, NEW g \in 1..generations'
             PROVE  Balanced(g)'
  BY GateShapeKept DEF GateInv
<1>1. /\ GateShape /\ GateShape' /\ \A x \in 1..generations : Balanced(x)
      /\ generations \in Nat /\ generations' \in Nat /\ g \in Generations
  BY GateShapeKept, TheGenerations DEF GateInv, GateShape
<1>2. /\ free[g] \in Nat /\ capacity[g] \in Nat /\ strays[g] \in Nat /\ lost[g] \in Nat
      /\ Cardinality(HoldersOf(g)) \in Nat
  BY <1>1, HoldersFinite DEF GateShape
<1>3. ASSUME NEW c \in Capacities, CreateGate(c) PROVE Balanced(g)'
  <2>1. HoldersOf(g)' = HoldersOf(g)
    BY <1>1, <1>3, HoldersStay DEF CreateGate
  <2>2. CASE g = generations + 1
    <3>1. HoldersOf(g) = {} /\ strays[g] = 0 /\ lost[g] = 0
      BY <1>1, <2>2 DEF HoldersOf, GateShape
    <3>2. Cardinality(HoldersOf(g)) = 0
      BY <3>1, FS_EmptySet
    <3>3. free'[g] = c /\ capacity'[g] = c /\ strays'[g] = 0 /\ lost'[g] = 0 /\ c \in Nat
      BY GateAssumption, <1>1, <1>3, <2>2, <3>1 DEF CreateGate, GateShape
    <3> QED BY <2>1, <3>2, <3>3 DEF Balanced
  <2>3. CASE g # generations + 1
    <3>1. g \in 1..generations /\ UNCHANGED <<free[g], capacity[g], strays[g], lost[g]>>
      BY <1>1, <1>3, <2>3 DEF CreateGate, GateShape
    <3> QED BY <1>1, <2>1, <3>1 DEF Balanced
  <2> QED BY <2>2, <2>3
<1>4. ASSUME DeleteGate \/ UNCHANGED gateVars \/ \E u \in Users : LookUp(u) \/ RunOut(u)
      PROVE  Balanced(g)'
  <2>1. CASE DeleteGate
    BY <1>1, <2>1, HoldersStay DEF DeleteGate, Balanced
  <2>2. CASE UNCHANGED gateVars
    BY <1>1, <2>2, HoldersStay DEF gateVars, Balanced
  <2>3. ASSUME NEW u \in Users, LookUp(u) PROVE Balanced(g)'
    BY <1>1, <2>3, HoldersStay DEF LookUp, GateShape, Balanced
  <2>4. ASSUME NEW u \in Users, RunOut(u) PROVE Balanced(g)'
    BY <1>1, <2>4, HoldersStay DEF RunOut, GateShape, Balanced
  <2> QED BY <1>4, <2>1, <2>2, <2>3, <2>4
<1>5. ASSUME NEW u \in Users, Take(u) PROVE Balanced(g)'
  <2>1. Cardinality(HoldersOf(g)') = Cardinality(HoldersOf(g)) + (IF g = permit[u] THEN 1 ELSE 0)
    BY <1>1, <1>5, OneHolderMore DEF Take
  <2>2. free'[g] = free[g] - (IF g = permit[u] THEN 1 ELSE 0)
    BY <1>1, <1>2, <1>5 DEF Take, GateShape
  <2>3. UNCHANGED <<generations, capacity, strays, lost>>
    BY <1>5 DEF Take
  <2> QED BY <1>1, <1>2, <2>1, <2>2, <2>3 DEF Balanced
<1>6. ASSUME NEW u \in Users, GiveBack(u) PROVE Balanced(g)'
  <2>1. Cardinality(HoldersOf(g)') = Cardinality(HoldersOf(g)) - (IF g = permit[u] THEN 1 ELSE 0)
    BY <1>1, <1>6, OneHolderLess DEF GiveBack
  <2>2. free'[g] = free[g] + (IF g = current THEN 1 ELSE 0)
    BY <1>1, <1>2, <1>6 DEF GiveBack, GateShape
  <2>3. /\ strays'[g] = strays[g] + (IF g = current /\ permit[u] # current THEN 1 ELSE 0)
        /\ lost'[g] = lost[g] + (IF g = permit[u] /\ permit[u] # current THEN 1 ELSE 0)
    BY <1>1, <1>2, <1>6 DEF GiveBack, GateShape
  <2>4. UNCHANGED <<generations, capacity>>
    BY <1>6 DEF GiveBack
  <2> QED BY <1>1, <1>2, <2>1, <2>2, <2>3, <2>4 DEF Balanced
<1>7. CASE GiveMore
  <2>1. HoldersOf(g)' = HoldersOf(g)
    BY <1>1, <1>7, HoldersStay DEF GiveMore
  <2>2. /\ free'[g] = free[g] + (IF g = current THEN 1 ELSE 0)
        /\ strays'[g] = strays[g] + (IF g = current THEN 1 ELSE 0)
    BY <1>1, <1>2, <1>7 DEF GiveMore, GateShape
  <2> QED BY <1>1, <1>2, <1>7, <2>1, <2>2 DEF GiveMore, Balanced
<1> QED BY <1>3, <1>4, <1>5, <1>6, <1>7 DEF GateNext

(* semaphore_gate.py: whatever is deleted, made anew, released late or       *)
(* released without a permit, the permits of every generation are accounted  *)
(* for, and one that got no foreign permit lets no more in than its capacity.*)
THEOREM PermitsAreAccounted == GateSpec => []PermitsAccounted
<1>1. GateInv => PermitsAccounted
  <2> SUFFICES ASSUME GateInv, NEW g \in 1..generations
               PROVE  /\ Balanced(g)
                      /\ strays[g] = 0 => Cardinality(HoldersOf(g)) <= capacity[g]
    BY DEF PermitsAccounted, Balanced
  <2>1. /\ g \in Generations /\ Balanced(g)
        /\ free[g] \in Nat /\ capacity[g] \in Nat /\ strays[g] \in Nat /\ lost[g] \in Nat
    BY TheGenerations DEF GateInv, GateShape
  <2> QED BY <2>1, HoldersFinite DEF Balanced
<1> QED BY <1>1, GateInitInv, GateStepInv, PTL DEF GateSpec
-----------------------------------------------------------------------------
(* The pool of calls: the counter is right, because what its executor        *)
(* refused stays refused, and is among the calls that were leaked.           *)
Held == {c \in PoolCalls : poolCall[c] \in {"counted", "queued", "running"}}

PoolInv ==
    /\ poolCall \in [PoolCalls -> {"none", "counted", "queued", "running", "refused"}]
    /\ leakedCalls = {c \in PoolCalls : poolCall[c] = "refused"}
    /\ poolCount = Cardinality(Held) + Cardinality(leakedCalls)
    /\ poolCount <= MaxWorkers + QueueDepth

LEMMA CallsFinite ==
    PoolInv => /\ IsFiniteSet(Held) /\ Cardinality(Held) \in Nat
               /\ IsFiniteSet(leakedCalls) /\ Cardinality(leakedCalls) \in Nat
BY CallSlotsAssumption, FS_Subset, FS_CardinalityType DEF PoolInv, Held

LEMMA PoolInitInv == SlotsInit => PoolInv
<1> SUFFICES ASSUME SlotsInit PROVE PoolInv
  OBVIOUS
<1>1. Held = {} /\ leakedCalls = {}
  BY DEF SlotsInit, Held
<1>2. Cardinality(Held) = 0 /\ Cardinality(leakedCalls) = 0
  BY <1>1, FS_EmptySet
<1> QED BY <1>2, CallSlotsAssumption DEF SlotsInit, PoolInv

LEMMA PoolStepInv == PoolInv /\ [PoolNext \/ RouterNext]_slotVars => PoolInv'
<1> SUFFICES ASSUME PoolInv, [PoolNext \/ RouterNext]_slotVars PROVE PoolInv'
  OBVIOUS
<1>0. MaxWorkers \in Nat /\ QueueDepth \in Nat
  BY CallSlotsAssumption
<1>1. ASSUME NEW c \in PoolCalls, CountCall(c) PROVE PoolInv'
  <2>1. Held' = Held \cup {c} /\ c \notin Held
    BY <1>1 DEF CountCall, PoolInv, Held
  <2>2. Cardinality(Held') = Cardinality(Held) + 1
    BY <2>1, CallsFinite, FS_AddElement
  <2> QED BY <1>0, <1>1, <2>2, CallsFinite DEF CountCall, PoolInv
<1>2. ASSUME NEW c \in PoolCalls, HandOver(c) PROVE PoolInv'
  <2>1. CASE poolOpen
    <3>1. Held' = Held
      BY <1>2, <2>1 DEF HandOver, PoolInv, Held
    <3> QED BY <1>2, <2>1, <3>1 DEF HandOver, PoolInv
  <2>2. CASE ~poolOpen
    <3>1. Held' = Held \ {c} /\ c \in Held
      BY <1>2, <2>2 DEF HandOver, PoolInv, Held
    <3>2. leakedCalls' = leakedCalls \cup {c} /\ c \notin leakedCalls
      BY <1>2, <2>2 DEF HandOver, PoolInv
    <3>3. Cardinality(Held') = Cardinality(Held) - 1
      BY <3>1, CallsFinite, FS_RemoveElement
    <3>4. Cardinality(leakedCalls') = Cardinality(leakedCalls) + 1
      BY <3>2, CallsFinite, FS_AddElement
    <3>5. /\ poolCall' \in [PoolCalls -> {"none", "counted", "queued", "running", "refused"}]
          /\ leakedCalls' = {d \in PoolCalls : poolCall'[d] = "refused"}
      BY <1>2, <2>2 DEF HandOver, PoolInv
    <3> QED BY <1>0, <1>2, <3>3, <3>4, <3>5, CallsFinite DEF HandOver, PoolInv
  <2> QED BY <2>1, <2>2
<1>3. ASSUME NEW c \in PoolCalls, Starts(c) PROVE PoolInv'
  <2>1. Held' = Held
    BY <1>3 DEF Starts, PoolInv, Held
  <2> QED BY <1>3, <2>1 DEF Starts, PoolInv
<1>4. ASSUME NEW c \in PoolCalls, OnDone(c) PROVE PoolInv'
  <2>1. Held' = Held \ {c} /\ c \in Held
    BY <1>4 DEF OnDone, PoolInv, Held
  <2>2. Cardinality(Held') = Cardinality(Held) - 1
    BY <2>1, CallsFinite, FS_RemoveElement
  <2> QED BY <1>0, <1>4, <2>2, CallsFinite DEF OnDone, PoolInv
<1>5. CASE UNCHANGED <<poolCount, poolCall, leakedCalls>>
  BY <1>5 DEF PoolInv, Held
<1>6. Shutdown \/ RouterNext \/ UNCHANGED slotVars => UNCHANGED <<poolCount, poolCall, leakedCalls>>
  BY DEF Shutdown, RouterNext, RegisterBackend, RemoveBackend, Mark, AcquireSlot, ReleaseSlot,
         poolVars, slotVars
<1> QED BY <1>1, <1>2, <1>3, <1>4, <1>5, <1>6 DEF PoolNext

-----------------------------------------------------------------------------
(* The throttle: a call that is out is known by its number, so that the ones *)
(* out on a backend are as many as were acquired and not released.           *)
Polite(b) == {o \in Out(b) : ~o.urgent}

(* The names whose number can be trusted. *)
Faithful(b) == b \notin removedWithCalls /\ slots[b].registered

RouterShape ==
    /\ slots \in [Backends -> [registered : BOOLEAN, healthy : BOOLEAN, inflight : Nat]]
    /\ outstanding \subseteq [backend : Backends, urgent : BOOLEAN, no : 1..MaxInFlight]
    /\ IsFiniteSet(outstanding)

SlotInv(b) ==
    /\ slots[b].inflight <= MaxConcurrent[b] + 1
    /\ Faithful(b) => /\ slots[b].inflight = Cardinality(Out(b))
                      /\ Cardinality(Polite(b)) <= MaxConcurrent[b]

RouterInv == RouterShape /\ \A b \in Backends : SlotInv(b)

LEMMA OutFinite ==
    RouterShape => \A b : /\ IsFiniteSet(Out(b)) /\ Cardinality(Out(b)) \in Nat
                          /\ IsFiniteSet(Polite(b)) /\ Cardinality(Polite(b)) \in Nat
                          /\ Cardinality(Polite(b)) <= Cardinality(Out(b))
<1> SUFFICES ASSUME RouterShape, NEW b
             PROVE  /\ IsFiniteSet(Out(b)) /\ Cardinality(Out(b)) \in Nat
                    /\ IsFiniteSet(Polite(b)) /\ Cardinality(Polite(b)) \in Nat
                    /\ Cardinality(Polite(b)) <= Cardinality(Out(b))
  OBVIOUS
<1>1. IsFiniteSet(Out(b))
  BY FS_Subset DEF RouterShape, Out
<1>2. Polite(b) \subseteq Out(b)
  BY DEF Polite
<1> QED BY <1>1, <1>2, FS_Subset, FS_CardinalityType

(* As long as not all numbers are out, one of them is free.                  *)
LEMMA NumberIsFree ==
    ASSUME RouterShape, Cardinality(outstanding) < MaxInFlight
    PROVE  \E n \in 1..MaxInFlight : \A o \in outstanding : o.no # n
<1> SUFFICES ASSUME \A n \in 1..MaxInFlight : \E o \in outstanding : o.no = n PROVE FALSE
  OBVIOUS
<1> DEFINE f == [o \in outstanding |-> o.no]
<1>1. f \in Surjection(outstanding, 1..MaxInFlight)
  BY DEF RouterShape, Surjection
<1>2. Cardinality(1..MaxInFlight) <= Cardinality(outstanding)
  BY <1>1, FS_Surjection DEF RouterShape
<1>3. MaxInFlight \in Nat /\ Cardinality(1..MaxInFlight) = MaxInFlight
  BY CallSlotsAssumption, FS_Interval
<1>4. Cardinality(outstanding) \in Nat
  BY FS_CardinalityType DEF RouterShape
<1> HIDE DEF f
<1> QED BY <1>2, <1>3, <1>4

LEMMA RouterInitInv == SlotsInit => RouterInv
<1> SUFFICES ASSUME SlotsInit PROVE RouterInv
  OBVIOUS
<1>1. RouterShape
  BY FS_EmptySet DEF SlotsInit, RouterShape, NoSlot
<1>2. ASSUME NEW b \in Backends PROVE SlotInv(b)
  BY CallSlotsAssumption DEF SlotsInit, SlotInv, NoSlot, Faithful
<1> QED BY <1>1, <1>2 DEF RouterInv
LEMMA RouterStepInv == RouterInv /\ [PoolNext \/ RouterNext]_slotVars => RouterInv'
<1> SUFFICES ASSUME RouterInv, [PoolNext \/ RouterNext]_slotVars PROVE RouterInv'
  OBVIOUS
<1>0. \A b \in Backends : MaxConcurrent[b] \in Nat
  BY CallSlotsAssumption
<1>1. RouterShape /\ \A b \in Backends : SlotInv(b)
  BY DEF RouterInv
<1>2. ASSUME NEW b \in Backends, UNCHANGED outstanding, slots' \in [Backends -> [registered : BOOLEAN,
                 healthy : BOOLEAN, inflight : Nat]],
             \A a \in Backends : slots'[a].inflight <= MaxConcurrent[a] + 1,
             removedWithCalls \subseteq removedWithCalls',
             \A a \in Backends \ {b} : slots'[a] = slots[a],
             Faithful(b)' => \/ Out(b) = {} /\ slots'[b].inflight = 0
                             \/ Faithful(b) /\ slots'[b].inflight = slots[b].inflight
      PROVE  RouterInv'
  <2>1. RouterShape'
    BY <1>1, <1>2 DEF RouterShape
  <2>2. ASSUME NEW a \in Backends PROVE SlotInv(a)'
    <3>1. Out(a)' = Out(a) /\ Polite(a)' = Polite(a)
      BY <1>2 DEF Out, Polite
    <3>2. Out(a) = {} => Polite(a) = {} /\ Cardinality(Out(a)) = 0 /\ Cardinality(Polite(a)) = 0
      BY FS_EmptySet DEF Polite
    <3>3. CASE a = b
      BY <1>0, <1>1, <1>2, <3>1, <3>2, <3>3 DEF SlotInv, Faithful
    <3>4. CASE a # b
      BY <1>1, <1>2, <3>1, <3>4 DEF SlotInv, Faithful
    <3> QED BY <3>3, <3>4
  <2> QED BY <2>1, <2>2 DEF RouterInv
<1>3. ASSUME NEW b \in Backends, RegisterBackend(b) PROVE RouterInv'
  <2>1. UNCHANGED outstanding /\ removedWithCalls \subseteq removedWithCalls'
    BY <1>3 DEF RegisterBackend
  <2>2. /\ slots' \in [Backends -> [registered : BOOLEAN, healthy : BOOLEAN, inflight : Nat]]
        /\ \A a \in Backends : slots'[a].inflight <= MaxConcurrent[a] + 1
        /\ \A a \in Backends \ {b} : slots'[a] = slots[a]
    BY <1>0, <1>1, <1>3 DEF RegisterBackend, RouterShape, SlotInv
  <2>3. Faithful(b)' => Out(b) = {} /\ slots'[b].inflight = 0
    BY <1>1, <1>3 DEF RegisterBackend, RouterShape, Faithful
  <2> QED BY <1>2, <2>1, <2>2, <2>3
<1>4. ASSUME NEW b \in Backends, RemoveBackend(b) PROVE RouterInv'
  <2>1. UNCHANGED outstanding /\ removedWithCalls \subseteq removedWithCalls'
    BY <1>4 DEF RemoveBackend
  <2>2. /\ slots' \in [Backends -> [registered : BOOLEAN, healthy : BOOLEAN, inflight : Nat]]
        /\ \A a \in Backends : slots'[a].inflight <= MaxConcurrent[a] + 1
        /\ \A a \in Backends \ {b} : slots'[a] = slots[a]
    BY <1>0, <1>1, <1>4 DEF RemoveBackend, RouterShape, SlotInv, NoSlot
  <2>3. ~Faithful(b)'
    BY <1>1, <1>4 DEF RemoveBackend, RouterShape, Faithful, NoSlot
  <2> QED BY <1>2, <2>1, <2>2, <2>3
<1>5. ASSUME NEW b \in Backends, NEW yes \in BOOLEAN, Mark(b, yes) PROVE RouterInv'
  <2>1. UNCHANGED outstanding /\ removedWithCalls \subseteq removedWithCalls'
    BY <1>5 DEF Mark
  <2>2. /\ slots' \in [Backends -> [registered : BOOLEAN, healthy : BOOLEAN, inflight : Nat]]
        /\ \A a \in Backends : slots'[a].inflight <= MaxConcurrent[a] + 1
        /\ \A a \in Backends \ {b} : slots'[a] = slots[a]
    BY <1>0, <1>1, <1>5 DEF Mark, RouterShape, SlotInv
  <2>3. Faithful(b)' => Faithful(b) /\ slots'[b].inflight = slots[b].inflight
    BY <1>1, <1>5 DEF Mark, RouterShape, Faithful
  <2> QED BY <1>2, <2>1, <2>2, <2>3
<1>6. ASSUME NEW b \in Backends, NEW yes \in BOOLEAN, AcquireSlot(b, yes) PROVE RouterInv'
  <2>1. PICK n \in 1..MaxInFlight :
          /\ \A o \in outstanding : o.no # n
          /\ outstanding' = outstanding \cup {[backend |-> b, urgent |-> yes, no |-> n]}
    BY <1>1, <1>6, NumberIsFree DEF AcquireSlot
  <2> DEFINE call == [backend |-> b, urgent |-> yes, no |-> n]
  <2>2. call \notin outstanding /\ call.backend = b /\ call.urgent = yes
    BY <2>1
  <2>3. IsFiniteSet(outstanding')
    BY <1>1, <2>1, FS_AddElement DEF RouterShape
  <2>4. /\ slots' \in [Backends -> [registered : BOOLEAN, healthy : BOOLEAN, inflight : Nat]]
        /\ slots'[b].inflight = slots[b].inflight + 1
        /\ slots[b].inflight \in Nat
        /\ slots[b].inflight < MaxConcurrent[b] + (IF yes THEN 1 ELSE 0)
        /\ \A a \in Backends : slots'[a].registered = slots[a].registered
        /\ \A a \in Backends \ {b} : slots'[a] = slots[a]
    BY <1>1, <1>6 DEF AcquireSlot, Eligible, RouterShape
  <2>5. RouterShape'
    BY <1>1, <2>1, <2>3, <2>4 DEF RouterShape
  <2>6. removedWithCalls' = removedWithCalls
    BY <1>6 DEF AcquireSlot
  <2>7. ASSUME NEW a \in Backends, a # b PROVE SlotInv(a)'
    <3>1. Out(a)' = Out(a) /\ Polite(a)' = Polite(a)
      BY <2>1, <2>2, <2>7 DEF Out, Polite
    <3> QED BY <1>1, <2>4, <2>6, <2>7, <3>1 DEF SlotInv, Faithful
  <2>8. SlotInv(b)'
    <3>1. Out(b)' = Out(b) \cup {call} /\ call \notin Out(b)
      BY <2>1, <2>2 DEF Out
    <3>2. Cardinality(Out(b)') = Cardinality(Out(b)) + 1
      BY <1>1, <3>1, OutFinite, FS_AddElement
    <3>3. Polite(b)' = IF yes THEN Polite(b) ELSE Polite(b) \cup {call}
      BY <2>2, <3>1 DEF Polite
    <3>4. Cardinality(Polite(b)') = Cardinality(Polite(b)) + (IF yes THEN 0 ELSE 1)
      <4>1. call \notin Polite(b)
        BY <3>1 DEF Polite
      <4>2. IsFiniteSet(Polite(b)) /\ Cardinality(Polite(b)) \in Nat
        BY <1>1, OutFinite
      <4>3. CASE yes
        BY <3>3, <4>2, <4>3
      <4>4. CASE ~yes
        <5>1. Cardinality(Polite(b) \cup {call}) = Cardinality(Polite(b)) + 1
          BY <4>1, <4>2, FS_AddElement
        <5> QED BY <3>3, <4>4, <5>1
      <4> QED BY <4>3, <4>4
    <3>5. /\ Cardinality(Out(b)) \in Nat /\ Cardinality(Polite(b)) \in Nat
          /\ Cardinality(Polite(b)) <= Cardinality(Out(b))
      BY <1>1, OutFinite
    <3>6. Faithful(b)' => Faithful(b)
      BY <2>4, <2>6 DEF Faithful
    <3> QED BY <1>0, <1>1, <2>4, <3>2, <3>4, <3>5, <3>6 DEF SlotInv
  <2> QED BY <2>5, <2>7, <2>8 DEF RouterInv
<1>7. ASSUME NEW o \in outstanding, ReleaseSlot(o) PROVE RouterInv'
  <2> DEFINE b == o.backend
  <2>1. b \in Backends /\ outstanding' = outstanding \ {o} /\ removedWithCalls' = removedWithCalls
    BY <1>1, <1>7 DEF ReleaseSlot, RouterShape
  <2>2. IsFiniteSet(outstanding')
    BY <1>1, <2>1, FS_RemoveElement DEF RouterShape
  <2>3. /\ slots' \in [Backends -> [registered : BOOLEAN, healthy : BOOLEAN, inflight : Nat]]
        /\ \A a \in Backends : slots'[a].registered = slots[a].registered
        /\ \A a \in Backends \ {b} : slots'[a] = slots[a]
        /\ slots[b].inflight \in Nat
        /\ slots'[b].inflight = IF slots[b].registered /\ slots[b].inflight > 0
                                THEN slots[b].inflight - 1 ELSE slots[b].inflight
    BY <1>1, <1>7, <2>1 DEF ReleaseSlot, RouterShape
  <2>4. RouterShape'
    BY <1>1, <2>1, <2>2, <2>3 DEF RouterShape
  <2>5. ASSUME NEW a \in Backends, a # b PROVE SlotInv(a)'
    <3>1. Out(a)' = Out(a) /\ Polite(a)' = Polite(a)
      BY <2>1, <2>5 DEF Out, Polite
    <3> QED BY <1>1, <2>1, <2>3, <2>5, <3>1 DEF SlotInv, Faithful
  <2>6. SlotInv(b)'
    <3>1. Out(b)' = Out(b) \ {o} /\ o \in Out(b)
      BY <2>1 DEF Out
    <3>2. Cardinality(Out(b)') = Cardinality(Out(b)) - 1
      BY <1>1, <3>1, OutFinite, FS_RemoveElement
    <3>3. Polite(b)' \subseteq Polite(b)
      BY <3>1 DEF Polite
    <3>4. Cardinality(Polite(b)') <= Cardinality(Polite(b)) /\ Cardinality(Polite(b)') \in Nat
      BY <1>1, <2>4, <3>3, OutFinite, FS_Subset, FS_CardinalityType
    <3>5. /\ Cardinality(Out(b)) \in Nat /\ Cardinality(Polite(b)) \in Nat
          /\ Cardinality(Out(b)') \in Nat
      BY <1>1, <3>1, OutFinite, FS_RemoveElement, FS_CardinalityType
    <3>6. Faithful(b)' => Faithful(b) /\ slots[b].registered
      BY <2>1, <2>3 DEF Faithful
    <3> HIDE DEF b
    <3> QED BY <1>0, <1>1, <2>1, <2>3, <3>2, <3>4, <3>5, <3>6 DEF SlotInv
  <2> QED BY <2>4, <2>5, <2>6 DEF RouterInv
<1>8. PoolNext \/ UNCHANGED slotVars => UNCHANGED routerVars
  BY DEF PoolNext, CountCall, HandOver, Starts, OnDone, Shutdown, slotVars, routerVars
<1>9. CASE UNCHANGED routerVars
  BY <1>1, <1>9 DEF routerVars, RouterInv, RouterShape, SlotInv, Faithful, Out, Polite
<1> QED BY <1>3, <1>4, <1>5, <1>6, <1>7, <1>8, <1>9 DEF RouterNext

(* bulkhead_pool.py and quasar_gate/router.py: whatever the number of calls, *)
(* backends and limits, a call is counted once and given back once, so that  *)
(* no more are out than the limits say.                                      *)
THEOREM CeilingIsKept == SlotsSpec => []CeilingKept
<1>1. PoolInv /\ RouterInv => CeilingKept
  BY DEF PoolInv, RouterInv, SlotInv, CeilingKept, Held, Polite, Faithful
<1>2. SlotsInit => PoolInv /\ RouterInv
  BY PoolInitInv, RouterInitInv
<1>3. PoolInv /\ RouterInv /\ [PoolNext \/ RouterNext]_slotVars => PoolInv' /\ RouterInv'
  BY PoolStepInv, RouterStepInv
<1> QED BY <1>1, <1>2, <1>3, PTL DEF SlotsSpec

-----------------------------------------------------------------------------
(***************************************************************************)
(* The bus on Redis: unless its topic is adrift, a call that is under way is *)
(* the only one of its topic, and knows what it will change.                 *)
(***************************************************************************)
InboxKind == [message : Nat, for : BusTopics]

BusShape ==
    /\ local \in [BusTopics -> SUBSET Handlers] /\ remote \subseteq BusTopics
    /\ telling \in [Handlers -> {"nothing", "subscribe", "unsubscribe"}]
    /\ inbox \in Seq(InboxKind) /\ sent \in Nat
    /\ owing \subseteq Nat \X Handlers /\ adrift \subseteq BusTopics
    /\ \A t \in BusTopics : \A h \in local[t] : TopicOf[h] = t

OneCallPerTopic ==
    \A f, g \in Handlers :
        telling[f] # "nothing" /\ telling[g] # "nothing" /\ TopicOf[f] = TopicOf[g]
            /\ TopicOf[g] \notin adrift => f = g

CallKnows ==
    \A h \in Handlers :
        /\ telling[h] = "subscribe" => h \in local[TopicOf[h]]
        /\ telling[h] = "unsubscribe" /\ TopicOf[h] \notin adrift => local[TopicOf[h]] = {}

RemoteIsLocal == \A t \in BusTopics : InTouch(t) => (t \in remote <=> local[t] # {})

Comes(o) == \E i \in 1..Len(inbox) : inbox[i] = [message |-> o[1], for |-> TopicOf[o[2]]]
OwedComes == \A o \in owing : o[2] \in local[TopicOf[o[2]]] /\ Comes(o)

BusInv == BusShape /\ OneCallPerTopic /\ CallKnows /\ RemoteIsLocal /\ OwedComes

LEMMA BusInitInv == BusInit => BusInv
<1> SUFFICES ASSUME BusInit PROVE BusInv
  OBVIOUS
<1>1. <<>> \in Seq(InboxKind)
  BY EmptySeq
<1>2. BusShape
  BY <1>1 DEF BusInit, BusShape
<1>3. OneCallPerTopic /\ CallKnows /\ OwedComes
  BY DEF BusInit, OneCallPerTopic, CallKnows, OwedComes
<1>4. RemoteIsLocal
  BY DEF BusInit, RemoteIsLocal
<1> QED
  BY <1>2, <1>3, <1>4 DEF BusInv

(* subscribe and unsubscribe, under the lock. *)
LEMMA BeginsInv ==
    ASSUME BusInv, NEW h \in Handlers, SubscribeTo(h) \/ UnsubscribeFrom(h)
    PROVE  BusInv'
<1> DEFINE t == TopicOf[h]
<1>1. t \in BusTopics /\ BusInv /\ BusShape /\ telling[h] = "nothing"
  BY BusAssumption DEF BusInv, BusTopics, SubscribeTo, UnsubscribeFrom
<1>2. PICK fns, tells :
         /\ local' = [local EXCEPT ![t] = fns] /\ telling' = [telling EXCEPT ![h] = tells]
         /\ adrift' = (IF tells = "nothing" THEN adrift
                       ELSE IF UnderWay(t) THEN adrift \cup {t} ELSE adrift \ {t})
         /\ UNCHANGED <<remote, inbox, sent>>
         /\ tells \in {"nothing", "subscribe", "unsubscribe"} /\ fns \subseteq local[t] \cup {h}
         /\ tells = "subscribe" => local[t] = {} /\ h \in fns
         /\ tells = "unsubscribe" => local[t] # {} /\ fns = {} /\ local[t] = {h}
         /\ tells = "nothing" => local[t] # {} /\ fns # {}
         /\ owing' \subseteq owing
         /\ \A o \in owing' : o[2] = h => h \in fns
         /\ \A g \in local[t] : g # h => g \in fns
  <2>1. CASE SubscribeTo(h)
    <3> DEFINE fns == local[t] \cup {h}
               tells == IF local[t] = {} THEN "subscribe" ELSE "nothing"
    <3>1. /\ local' = [local EXCEPT ![t] = fns] /\ telling' = [telling EXCEPT ![h] = tells]
          /\ adrift' = (IF tells = "nothing" THEN adrift
                        ELSE IF UnderWay(t) THEN adrift \cup {t} ELSE adrift \ {t})
          /\ UNCHANGED <<remote, inbox, sent, owing>>
      BY <2>1 DEF SubscribeTo, Begins
    <3>2. /\ tells \in {"nothing", "subscribe", "unsubscribe"} /\ fns \subseteq local[t] \cup {h}
          /\ tells # "unsubscribe" /\ (tells = "subscribe" <=> local[t] = {}) /\ fns # {} /\ h \in fns
          /\ \A g \in local[t] : g # h => g \in fns
      OBVIOUS
    <3> HIDE DEF fns, tells
    <3> QED
      BY <3>1, <3>2
  <2>2. CASE UnsubscribeFrom(h)
    <3> DEFINE fns == local[t] \ {h}
               tells == IF local[t] = {h} THEN "unsubscribe" ELSE "nothing"
    <3>1. /\ local' = [local EXCEPT ![t] = fns] /\ telling' = [telling EXCEPT ![h] = tells]
          /\ adrift' = (IF tells = "nothing" THEN adrift
                        ELSE IF UnderWay(t) THEN adrift \cup {t} ELSE adrift \ {t})
          /\ UNCHANGED <<remote, inbox, sent>>
          /\ owing' = {o \in owing : o[2] # h} /\ h \in local[t]
      BY <2>2 DEF UnsubscribeFrom, Begins
    <3>2. fns = {} <=> local[t] = {h}
      BY <3>1
    <3>3. /\ tells \in {"nothing", "subscribe", "unsubscribe"} /\ fns \subseteq local[t] \cup {h}
          /\ tells # "subscribe" /\ (tells = "unsubscribe" <=> fns = {} /\ local[t] = {h})
          /\ (tells = "nothing" => fns # {})
          /\ \A g \in local[t] : g # h => g \in fns
      BY <3>2
    <3> HIDE DEF fns, tells
    <3> QED
      BY <3>1, <3>3
  <2> QED
    BY <2>1, <2>2
<1> HIDE DEF t
<1>3. BusShape'
  <2>1. local' \in [BusTopics -> SUBSET Handlers]
    BY <1>1, <1>2 DEF BusShape
  <2>2. \A x \in BusTopics : \A g \in local'[x] : TopicOf[g] = x
    BY <1>1, <1>2 DEF BusShape, t
  <2>3. adrift' \subseteq BusTopics
    BY <1>1, <1>2 DEF BusShape
  <2> QED
    BY <1>1, <1>2, <2>1, <2>2, <2>3 DEF BusShape
<1>4. OneCallPerTopic /\ CallKnows /\ RemoteIsLocal /\ OwedComes
  BY DEF BusInv
<1>5. /\ telling'[h] = tells /\ \A g \in Handlers \ {h} : telling'[g] = telling[g]
      /\ local'[t] = fns /\ \A x \in BusTopics \ {t} : local'[x] = local[x]
      /\ \A g \in Handlers : TopicOf[g] \in BusTopics
      /\ \A x \in BusTopics \ {t} : x \in adrift' <=> x \in adrift
  BY <1>1, <1>2, BusAssumption DEF BusShape, BusTopics
\* a topic that is in touch after a call that tells had no call under way
<1>6. ASSUME t \notin adrift', tells # "nothing"
      PROVE  \A g \in Handlers : TopicOf[g] = t => telling[g] = "nothing"
  BY <1>2, <1>6 DEF UnderWay
<1>7. ASSUME tells = "nothing" PROVE adrift' = adrift /\ telling' = telling
  BY <1>1, <1>2, <1>7 DEF BusShape
<1>8. OneCallPerTopic'
  <2> SUFFICES ASSUME NEW f \in Handlers, NEW g \in Handlers, telling'[f] # "nothing",
                      telling'[g] # "nothing", TopicOf[f] = TopicOf[g], TopicOf[g] \notin adrift'
               PROVE  f = g
    BY DEF OneCallPerTopic
  <2>1. CASE tells = "nothing"
    BY <1>4, <1>7, <2>1 DEF OneCallPerTopic
  <2>2. CASE tells # "nothing" /\ TopicOf[g] = t
    BY <1>5, <1>6, <2>2
  <2>3. CASE TopicOf[g] # t
    BY <1>4, <1>5, <2>3 DEF OneCallPerTopic, t
  <2> QED
    BY <2>1, <2>2, <2>3
<1>9. CallKnows'
  <2> SUFFICES ASSUME NEW g \in Handlers
               PROVE  /\ telling'[g] = "subscribe" => g \in local'[TopicOf[g]]
                      /\ telling'[g] = "unsubscribe" /\ TopicOf[g] \notin adrift' => local'[TopicOf[g]] = {}
    BY DEF CallKnows
  <2>1. CASE g = h
    BY <1>2, <1>5, <2>1 DEF t
  <2>2. CASE g # h /\ TopicOf[g] # t
    BY <1>4, <1>5, <2>2 DEF CallKnows
  <2>3. CASE g # h /\ TopicOf[g] = t
    <3>1. telling'[g] = "subscribe" => g \in local'[TopicOf[g]]
      BY <1>2, <1>4, <1>5, <2>3 DEF CallKnows
    <3>2. ASSUME telling'[g] = "unsubscribe", TopicOf[g] \notin adrift' PROVE FALSE
      <4>1. telling[g] = "unsubscribe"
        BY <1>5, <2>3, <3>2
      <4>2. tells = "nothing"
        BY <1>6, <2>3, <3>2, <4>1
      <4>3. local[t] = {}
        BY <1>4, <1>7, <2>3, <3>2, <4>1, <4>2 DEF CallKnows
      <4> QED
        BY <1>2, <4>2, <4>3
    <3> QED
      BY <3>1, <3>2
  <2> QED
    BY <2>1, <2>2, <2>3
<1>10. RemoteIsLocal'
  <2> SUFFICES ASSUME NEW x \in BusTopics, InTouch(x)' PROVE x \in remote' <=> local'[x] # {}
    BY DEF RemoteIsLocal
  <2>1. CASE x = t
    <3>1. tells = "nothing"
      BY <1>5, <2>1 DEF InTouch, UnderWay, t
    <3>2. InTouch(t)
      BY <1>7, <2>1, <3>1 DEF InTouch, UnderWay
    <3> QED
      BY <1>2, <1>4, <1>5, <2>1, <3>1, <3>2 DEF RemoteIsLocal
  <2>2. CASE x # t
    <3>1. InTouch(x)
      BY <1>5, <2>2 DEF InTouch, UnderWay, t
    <3> QED
      BY <1>2, <1>4, <1>5, <2>2, <3>1 DEF RemoteIsLocal
  <2> QED
    BY <2>1, <2>2
<1>11. OwedComes'
  <2> SUFFICES ASSUME NEW o \in owing' PROVE o[2] \in local'[TopicOf[o[2]]] /\ Comes(o)'
    BY DEF OwedComes
  <2>1. o \in owing /\ o[2] \in Handlers /\ o[2] \in local[TopicOf[o[2]]] /\ Comes(o)
    BY <1>1, <1>2, <1>4 DEF OwedComes, BusShape
  <2>2. Comes(o)'
    BY <1>2, <2>1 DEF Comes
  <2>3. o[2] \in local'[TopicOf[o[2]]]
    BY <1>2, <1>5, <2>1
  <2> QED
    BY <2>2, <2>3
<1> QED
  BY <1>3, <1>8, <1>9, <1>10, <1>11 DEF BusInv

(* What Redis is told reaches it, or the call raises. *)
LEMMA TellsInv ==
    ASSUME BusInv, NEW h \in Handlers, Tells(h) \/ TellRaises(h)
    PROVE  BusInv'
<1> DEFINE t == TopicOf[h]
<1>1. /\ t \in BusTopics /\ BusShape /\ telling[h] \in {"subscribe", "unsubscribe"}
      /\ telling' = [telling EXCEPT ![h] = "nothing"]
      /\ remote' \in {remote, remote \cup {t}, remote \ {t}}
      /\ adrift' \in {adrift, adrift \cup {t}}
      /\ t \notin adrift' =>
             remote' = IF telling[h] = "subscribe" THEN remote \cup {t} ELSE remote \ {t}
      /\ UNCHANGED <<local, inbox, sent, owing>>
  BY BusAssumption DEF BusInv, BusShape, BusTopics, Tells, TellRaises, Commanded
<1> HIDE DEF t
<1>2. BusShape'
  BY <1>1 DEF BusShape
<1>3. OneCallPerTopic /\ CallKnows /\ RemoteIsLocal /\ OwedComes
  BY DEF BusInv
<1>4. telling'[h] = "nothing" /\ \A g \in Handlers \ {h} : telling'[g] = telling[g]
  BY <1>1 DEF BusShape
<1>5. adrift \subseteq adrift' /\ \A x \in BusTopics \ {t} : x \in adrift' <=> x \in adrift
  BY <1>1
<1>6. OneCallPerTopic' /\ CallKnows' /\ OwedComes'
  BY <1>1, <1>3, <1>4, <1>5 DEF OneCallPerTopic, CallKnows, OwedComes, Comes
<1>7. RemoteIsLocal'
  <2> SUFFICES ASSUME NEW x \in BusTopics, InTouch(x)' PROVE x \in remote' <=> local'[x] # {}
    BY DEF RemoteIsLocal
  <2>1. CASE x = t
    <3>1. t \notin adrift' /\ t \notin adrift
      BY <1>5, <2>1 DEF InTouch
    <3> QED
      BY <1>1, <1>3, <2>1, <3>1 DEF CallKnows, t
  <2>2. CASE x # t
    <3>1. InTouch(x)
      BY <1>4, <1>5, <2>2 DEF InTouch, UnderWay, t
    <3> QED
      BY <1>1, <1>3, <2>2, <3>1 DEF RemoteIsLocal
  <2> QED
    BY <2>1, <2>2
<1> QED
  BY <1>2, <1>6, <1>7 DEF BusInv

(* A message is queued for whoever Redis counts. *)
LEMMA PublishToInv ==
    ASSUME BusInv, NEW t \in Published, PublishTo(t)
    PROVE  BusInv'
<1> DEFINE copy(x) == IF x \in remote THEN <<[message |-> sent + 1, for |-> x]>> ELSE <<>>
           new == copy(t) \o copy("*")
           listeners == {h \in local[t] \cup local["*"] : InTouch(TopicOf[h])}
<1>1. /\ t \in BusTopics /\ "*" \in BusTopics /\ BusShape
      /\ sent' = sent + 1 /\ inbox' = inbox \o copy(t) \o copy("*")
      /\ owing' = owing \cup ({sent + 1} \X listeners)
      /\ UNCHANGED <<local, remote, telling, adrift>>
  BY DEF BusInv, BusTopics, PublishTo
<1>2. \A x \in BusTopics : copy(x) \in Seq(InboxKind)
  <2> TAKE x \in BusTopics
  <2>1. [message |-> sent + 1, for |-> x] \in InboxKind
    BY <1>1 DEF InboxKind, BusShape
  <2> QED
    BY <2>1
<1>3. /\ inbox \in Seq(InboxKind) /\ new \in Seq(InboxKind) /\ inbox' = inbox \o new
  <2>1. inbox' = (inbox \o copy(t)) \o copy("*")
    BY <1>1
  <2>2. inbox \in Seq(InboxKind) /\ copy(t) \in Seq(InboxKind) /\ copy("*") \in Seq(InboxKind)
    BY <1>1, <1>2 DEF BusShape
  <2> HIDE DEF copy
  <2>3. new \in Seq(InboxKind) /\ (inbox \o copy(t)) \o copy("*") = inbox \o new
    BY <2>2, ConcatAssociative, ConcatProperties
  <2> QED
    BY <2>1, <2>2, <2>3
<1>4. \A x \in remote \cap {t, "*"} : \E i \in 1..Len(new) : new[i] = [message |-> sent + 1, for |-> x]
  <2> TAKE x \in remote \cap {t, "*"}
  <2>0. copy(x) = <<[message |-> sent + 1, for |-> x]>> /\ Len(copy(x)) = 1
        /\ copy(x)[1] = [message |-> sent + 1, for |-> x]
    OBVIOUS
  <2>1. /\ copy(t) \in Seq(InboxKind) /\ copy("*") \in Seq(InboxKind)
        /\ Len(copy(t)) \in Nat /\ Len(copy("*")) \in Nat
    BY <1>1, <1>2, LenProperties
  <2> HIDE DEF copy
  <2>2. /\ Len(new) = Len(copy(t)) + Len(copy("*"))
        /\ \A i \in 1..Len(new) : new[i] = IF i <= Len(copy(t)) THEN copy(t)[i] ELSE copy("*")[i - Len(copy(t))]
    BY <2>1, ConcatProperties
  <2> HIDE DEF new
  <2>3. CASE x = t
    <3>0. Len(copy(t)) = 1
      BY <2>0, <2>3
    <3>1. 1 \in 1..Len(new) /\ new[1] = copy(t)[1]
      BY <2>1, <2>2, <3>0
    <3> QED
      BY <2>0, <2>3, <3>1
  <2>4. CASE x = "*"
    <3> DEFINE k == Len(copy(t)) + 1
    <3>1. k \in 1..Len(new) /\ new[k] = copy("*")[1]
      BY <2>0, <2>1, <2>2, <2>4
    <3> QED
      BY <2>0, <2>4, <3>1
  <2> QED
    BY <2>3, <2>4
<1> HIDE DEF new
<1>5. /\ inbox' \in Seq(InboxKind) /\ Len(inbox') = Len(inbox) + Len(new)
      /\ Len(inbox) \in Nat /\ Len(new) \in Nat
      /\ \A i \in 1..Len(inbox) : inbox'[i] = inbox[i]
      /\ \A i \in 1..Len(new) : inbox'[Len(inbox) + i] = new[i]
  BY <1>3, ConcatProperties, LenProperties
<1>6. listeners \subseteq Handlers /\ \A h \in listeners : TopicOf[h] \in {t, "*"} /\ h \in local[TopicOf[h]]
  BY <1>1 DEF BusShape
<1> HIDE DEF copy, listeners
<1>7. BusShape'
  BY <1>1, <1>5, <1>6 DEF BusShape
<1>8. OneCallPerTopic' /\ CallKnows' /\ RemoteIsLocal' /\ OwedComes'
  <2>1. OneCallPerTopic /\ CallKnows /\ RemoteIsLocal /\ OwedComes
    BY DEF BusInv
  <2>2. OneCallPerTopic' /\ CallKnows' /\ RemoteIsLocal'
    BY <1>1, <2>1 DEF OneCallPerTopic, CallKnows, RemoteIsLocal, InTouch, UnderWay
  <2>3. OwedComes'
    <3> SUFFICES ASSUME NEW o \in owing' PROVE o[2] \in local'[TopicOf[o[2]]] /\ Comes(o)'
      BY DEF OwedComes
    <3>1. CASE o \in owing
      <4>1. o[2] \in local[TopicOf[o[2]]] /\ Comes(o)
        BY <2>1, <3>1 DEF OwedComes
      <4>2. PICK i \in 1..Len(inbox) : inbox[i] = [message |-> o[1], for |-> TopicOf[o[2]]]
        BY <4>1 DEF Comes
      <4>3. i \in 1..Len(inbox') /\ inbox'[i] = [message |-> o[1], for |-> TopicOf[o[2]]]
        BY <1>5, <4>2
      <4> QED
        BY <1>1, <4>1, <4>3 DEF Comes
    <3>2. CASE o \notin owing
      <4>1. o[1] = sent + 1 /\ o[2] \in listeners
        BY <1>1, <3>2
      <4>2. TopicOf[o[2]] \in {t, "*"} /\ o[2] \in local[TopicOf[o[2]]] /\ InTouch(TopicOf[o[2]])
        BY <1>6, <4>1 DEF listeners
      <4>3. TopicOf[o[2]] \in remote
        BY <1>1, <2>1, <4>2 DEF RemoteIsLocal
      <4>4. PICK i \in 1..Len(new) : new[i] = [message |-> o[1], for |-> TopicOf[o[2]]]
        BY <1>4, <4>1, <4>2, <4>3
      <4>5. Len(inbox) + i \in 1..Len(inbox') /\ inbox'[Len(inbox) + i] = [message |-> o[1], for |-> TopicOf[o[2]]]
        BY <1>5, <4>4
      <4> QED
        BY <1>1, <4>2, <4>5 DEF Comes
    <3> QED
      BY <3>1, <3>2
  <2> QED
    BY <2>2, <2>3
<1> QED
  BY <1>1, <1>7, <1>8 DEF BusInv

LEMMA DispatchInv ==
    ASSUME BusInv, Dispatch
    PROVE  BusInv'
<1> DEFINE m == Head(inbox)
<1>1. /\ BusShape /\ inbox # <<>> /\ inbox' = Tail(inbox)
      /\ owing' = owing \ ({m.message} \X local[m.for])
      /\ UNCHANGED <<local, remote, telling, sent, adrift>>
  BY DEF BusInv, Dispatch
<1>2. /\ inbox' \in Seq(InboxKind) /\ Len(inbox) \in Nat /\ Len(inbox') = Len(inbox) - 1
      /\ m = inbox[1] /\ \A i \in 1..Len(inbox') : inbox'[i] = inbox[i + 1]
  BY <1>1, HeadTailProperties, LenProperties DEF BusShape
<1> HIDE DEF m
<1>3. BusShape'
  BY <1>1, <1>2 DEF BusShape
<1>4. OneCallPerTopic' /\ CallKnows' /\ RemoteIsLocal' /\ OwedComes'
  <2>1. OneCallPerTopic /\ CallKnows /\ RemoteIsLocal /\ OwedComes
    BY DEF BusInv
  <2>2. OneCallPerTopic' /\ CallKnows' /\ RemoteIsLocal'
    BY <1>1, <2>1 DEF OneCallPerTopic, CallKnows, RemoteIsLocal, InTouch, UnderWay
  <2>3. OwedComes'
    <3> SUFFICES ASSUME NEW o \in owing' PROVE o[2] \in local'[TopicOf[o[2]]] /\ Comes(o)'
      BY DEF OwedComes
    <3>1. o \in owing /\ o[2] \in local[TopicOf[o[2]]] /\ Comes(o) /\ o = <<o[1], o[2]>>
      BY <1>1, <2>1 DEF OwedComes, BusShape
    <3>2. PICK i \in 1..Len(inbox) : inbox[i] = [message |-> o[1], for |-> TopicOf[o[2]]]
      BY <3>1 DEF Comes
    <3>3. i # 1
      <4> SUFFICES ASSUME i = 1 PROVE FALSE
        OBVIOUS
      <4>1. m.message = o[1] /\ m.for = TopicOf[o[2]]
        BY <1>2, <3>2
      <4> QED
        BY <1>1, <3>1, <4>1
    <3>4. i - 1 \in 1..Len(inbox') /\ inbox'[i - 1] = inbox[i]
      BY <1>2, <3>2, <3>3
    <3> QED
      BY <1>1, <3>1, <3>2, <3>4 DEF Comes
  <2> QED
    BY <2>2, <2>3
<1> QED
  BY <1>1, <1>3, <1>4 DEF BusInv

(* core/redis_bus.py: for any handlers, topics and messages, unless the last *)
(* calls to tell Redis of a topic raised or crossed, who is subscribed hears.*)
THEOREM SubscribersHear == BusSpec => []SubscribedIsHeard
<1>1. BusInv /\ [BusNext]_busVars => BusInv'
  <2> SUFFICES ASSUME BusInv, [BusNext]_busVars PROVE BusInv'
    OBVIOUS
  <2>1. CASE UNCHANGED busVars
    BY <2>1 DEF busVars, BusInv, BusShape, OneCallPerTopic, CallKnows, RemoteIsLocal, InTouch, UnderWay,
       OwedComes, Comes
  <2> QED
    BY <2>1, BeginsInv, TellsInv, PublishToInv, DispatchInv DEF BusNext
<1>2. BusInv => SubscribedIsHeard
  BY DEF BusInv, SubscribedIsHeard, RemoteIsLocal, OwedComes, Comes
<1> QED
  BY <1>1, <1>2, BusInitInv, PTL DEF BusSpec

-----------------------------------------------------------------------------
(***************************************************************************)
(* Brokers and sessions: a message is where it was published, or at one      *)
(* other broker a forwarder took it to, and no forwarder takes it twice.     *)
(***************************************************************************)
Forwarders == [session : DOMAIN Sessions, side : {1, 2}]
Source(f) == From(f.session, f.side)
Target(f) == To(f.session, f.side)
FrameKind == [broker : Brokers, flagged : BOOLEAN, left : Seq(Forwarders)]

Distinct(q) == \A i, j \in 1..Len(q) : q[i] = q[j] => i = j
Within(q, b) == q \in Seq(Forwarders) /\ Distinct(q) /\ \A i \in 1..Len(q) : Source(q[i]) = b

CallbacksFit ==
    /\ callbacks \in [Brokers -> Seq(Forwarders)]
    /\ session \in [DOMAIN Sessions -> {"none", "half", "active", "stopping", "stopped"}]
    /\ \A b \in Brokers :
         /\ Within(callbacks[b], b)
         /\ \A i \in 1..Len(callbacks[b]) :
              LET f == callbacks[b][i] IN
              session[f.session] \in IF f.side = 1 THEN {"half", "active"} ELSE {"active", "stopping"}

(* What is still to be called at the broker b, and has not yet been.         *)
Fresh(q, b, m) == Within(q, b) /\ \A i \in 1..Len(q) : q[i] \notin through[m]

TakenTo(T, c) == {f \in T : Target(f) = c}
Reached(m, c) == Cardinality(TakenTo(through[m], c))
FromHere(m, b) == \A f \in through[m] : Source(f) = b

Untouched(m) ==
    publisher[m] = <<>> /\ through[m] = {} /\ \A c \in Brokers : handed[m][c] = 0

AtHome(m) ==
    \E b \in Brokers : \E q \in Seq(Forwarders) :
        /\ publisher[m] = <<[broker |-> b, flagged |-> FALSE, left |-> q]>>
        /\ Fresh(q, b, m) /\ FromHere(m, b)
        /\ \A c \in Brokers : handed[m][c] = Reached(m, c)

Away(m) ==
    \E b, away \in Brokers : \E q, r \in Seq(Forwarders) :
        /\ publisher[m] = <<[broker |-> b, flagged |-> FALSE, left |-> q],
                            [broker |-> away, flagged |-> TRUE, left |-> r]>>
        /\ Fresh(q, b, m) /\ FromHere(m, b)
        /\ \A c \in Brokers : handed[m][c] + (IF c = away THEN 1 ELSE 0) = Reached(m, c)

HandedOver(m) ==
    \E b \in Brokers :
        /\ publisher[m] = <<>> /\ FromHere(m, b)
        /\ \A c \in Brokers : handed[m][c] = Reached(m, c) + (IF c = b THEN 1 ELSE 0)

Journey(m) ==
    /\ handed[m] \in [Brokers -> Nat]
    /\ through[m] \subseteq Forwarders /\ IsFiniteSet(through[m])
    /\ Untouched(m) \/ AtHome(m) \/ Away(m) \/ HandedOver(m)

SyncInv ==
    /\ CallbacksFit
    /\ publisher = [m \in SyncMessages |-> publisher[m]]
    /\ handed = [m \in SyncMessages |-> handed[m]]
    /\ through = [m \in SyncMessages |-> through[m]]
    /\ \A m \in SyncMessages : Journey(m)

(* What an entry of a list looks like after list.remove.                     *)
LEMMA RemovedOnce ==
    ASSUME NEW S, NEW q \in Seq(S), NEW e, Distinct(q)
    PROVE  LET p == RemoveFirst(q, e) IN
           /\ p \in Seq(S) /\ Distinct(p)
           /\ \A i \in 1..Len(p) : p[i] # e /\ \E j \in 1..Len(q) : p[i] = q[j]
           /\ \A j \in 1..Len(q) : q[j] # e => \E i \in 1..Len(p) : p[i] = q[j]
<1>1. CASE ~\E i \in 1..Len(q) : q[i] = e
  <2>1. RemoveFirst(q, e) = q
    BY <1>1 DEF RemoveFirst
  <2> QED
    BY <1>1, <2>1
<1>2. CASE \E i \in 1..Len(q) : q[i] = e
  <2> DEFINE I == {i \in 1..Len(q) : q[i] = e}
  <2>1. PICK k \in 1..Len(q) : q[k] = e
    BY <1>2
  <2>2. I = {k}
    BY <2>1 DEF Distinct
  <2>3. k \in Nat /\ Min({k}) = k
    BY <2>1 DEF Min
  <2>4. SelectInSeq(q, LAMBDA v : v = e) = k
    BY <2>2, <2>3 DEF SelectInSeq
  <2>5. RemoveFirst(q, e) = RemoveAt(q, k)
    BY <1>2, <2>4 DEF RemoveFirst
  <2> DEFINE a == SubSeq(q, 1, k - 1)
             b == SubSeq(q, k + 1, Len(q))
  <2>6. RemoveFirst(q, e) = a \o b
    BY <2>5 DEF RemoveAt
  <2>7. Len(q) \in Nat /\ \A i \in 1..Len(q) : q[i] \in S
    BY LenProperties, ElementOfSeq
  <2>8. /\ a \in Seq(S) /\ Len(a) = k - 1 /\ \A i \in 1..(k - 1) : a[i] = q[i]
    BY <2>1, <2>7, SubSeqProperties
  <2>9. /\ b \in Seq(S) /\ Len(b) = Len(q) - k /\ \A i \in 1..(Len(q) - k) : b[i] = q[k + i]
    <3>1. /\ \A i \in (k + 1)..Len(q) : q[i] \in S
          /\ k + 1 \in Int /\ Len(q) \in Int
      BY <2>1, <2>7
    <3>2. /\ b \in Seq(S) /\ Len(b) = IF k + 1 <= Len(q) THEN Len(q) - (k + 1) + 1 ELSE 0
          /\ \A i \in 1..(Len(q) - (k + 1) + 1) : b[i] = q[k + 1 + i - 1]
      BY <3>1, SubSeqProperties
    <3> HIDE DEF b
    <3>3. Len(b) = Len(q) - k /\ Len(q) - (k + 1) + 1 = Len(q) - k
      BY <2>1, <2>7, <3>2
    <3>4. \A i \in 1..(Len(q) - k) : k + 1 + i - 1 = k + i
      BY <2>1, <2>7
    <3> QED
      BY <3>2, <3>3, <3>4
  <2> HIDE DEF a, b
  <2> DEFINE p == a \o b
  <2>10. /\ p \in Seq(S) /\ Len(p) = Len(q) - 1
         /\ \A i \in 1..Len(p) : p[i] = IF i < k THEN q[i] ELSE q[i + 1]
    <3>1. p \in Seq(S) /\ Len(p) = Len(q) - 1
      <4>1. p \in Seq(S) /\ Len(p) = Len(a) + Len(b)
        BY <2>8, <2>9, ConcatProperties
      <4> HIDE DEF p
      <4> QED
        BY <2>1, <2>7, <2>8, <2>9, <4>1
    <3>2. \A i \in 1..Len(p) : p[i] = IF i <= k - 1 THEN a[i] ELSE b[i - (k - 1)]
      BY <2>1, <2>7, <2>8, <2>9, ConcatProperties
    <3> HIDE DEF p
    <3>3. ASSUME NEW i \in 1..Len(p) PROVE p[i] = IF i < k THEN q[i] ELSE q[i + 1]
      <4>1. CASE i < k
        <5>1. i <= k - 1 /\ i \in 1..(k - 1)
          BY <2>1, <3>1, <4>1
        <5> QED
          BY <2>8, <3>2, <4>1, <5>1
      <4>2. CASE ~(i < k)
        <5>1. /\ ~(i <= k - 1) /\ i - (k - 1) \in 1..(Len(q) - k)
              /\ k + (i - (k - 1)) = i + 1
          BY <2>1, <2>7, <3>1, <4>2
        <5> QED
          BY <2>9, <3>2, <4>2, <5>1
      <4> QED
        BY <4>1, <4>2
    <3> QED
      BY <3>1, <3>3
  <2> HIDE DEF p
  <2>11. \A i \in 1..Len(p) : \E j \in 1..Len(q) :
             p[i] = q[j] /\ j # k /\ j = IF i < k THEN i ELSE i + 1
    BY <2>1, <2>7, <2>10
  <2>12. Distinct(p)
    BY <2>1, <2>7, <2>10, <2>11 DEF Distinct
  <2>13. \A i \in 1..Len(p) : p[i] # e
    BY <2>1, <2>11 DEF Distinct
  <2>14. ASSUME NEW j \in 1..Len(q), q[j] # e PROVE \E i \in 1..Len(p) : p[i] = q[j]
    <3>1. CASE j < k
      BY <2>1, <2>7, <2>10, <3>1
    <3>2. CASE ~(j < k)
      <4>1. j - 1 \in 1..Len(p) /\ ~(j - 1 < k) /\ (j - 1) + 1 = j
        BY <2>1, <2>7, <2>10, <2>14, <3>2
      <4> QED
        BY <2>10, <4>1
    <3> QED
      BY <3>1, <3>2
  <2>15. RemoveFirst(q, e) = p /\ \A i \in 1..Len(p) : \E j \in 1..Len(q) : p[i] = q[j]
    BY <2>6, <2>11 DEF p
  <2> QED
    BY <2>10, <2>12, <2>13, <2>14, <2>15
<1> QED
  BY <1>1, <1>2

(* Stacks of one and of two calls. *)
LEMMA Stacks ==
    ASSUME NEW S, NEW a \in S, NEW b \in S
    PROVE  /\ Len(<<a>>) = 1 /\ Len(<<a, b>>) = 2 /\ <<a>> # <<>> /\ <<a, b>> # <<>>
           /\ SubSeq(<<a>>, 1, 0) = <<>> /\ SubSeq(<<a, b>>, 1, 1) = <<a>>
           /\ Append(<<>>, a) = <<a>> /\ Append(<<a>>, b) = <<a, b>>
           /\ <<a>>[1] = a /\ <<a, b>>[2] = b
<1>1. /\ <<a>> \in Seq(S) /\ <<a, b>> \in Seq(S) /\ <<>> \in Seq(S)
      /\ Len(<<a>>) = 1 /\ Len(<<a, b>>) = 2 /\ Len(<<>>) = 0
      /\ <<a>>[1] = a /\ <<a, b>>[1] = a /\ <<a, b>>[2] = b
  OBVIOUS
<1>2. SubSeq(<<a>>, 1, 0) = <<>>
  BY SubSeqEmpty
<1>3. SubSeq(<<a, b>>, 1, 1) = <<a>>
  <2> DEFINE p == SubSeq(<<a, b>>, 1, 1)
  <2>1. \A i \in 1..1 : <<a, b>>[i] \in S
    OBVIOUS
  <2>2. p \in Seq(S) /\ Len(p) = 1 /\ p[1] = a
    BY <2>1, SubSeqProperties
  <2> HIDE DEF p
  <2>3. \A i \in 1..Len(p) : p[i] = <<a>>[i]
    BY <2>2
  <2>4. p = <<a>>
    BY <1>1, <2>2, <2>3, SeqEqual
  <2> QED
    BY <2>4 DEF p
<1>4. Append(<<>>, a) = <<a>> /\ Append(<<a>>, b) = <<a, b>>
  <2> DEFINE p == Append(<<>>, a)
             q == Append(<<a>>, b)
  <2>1. p \in Seq(S) /\ Len(p) = 1 /\ p[1] = a
    BY <1>1, AppendProperties
  <2>2. q \in Seq(S) /\ Len(q) = 2 /\ q[1] = a /\ q[2] = b
    <3>1. /\ q \in Seq(S) /\ Len(q) = Len(<<a>>) + 1 /\ q[Len(<<a>>) + 1] = b
          /\ \A i \in 1..Len(<<a>>) : q[i] = <<a>>[i]
      BY <1>1, AppendProperties
    <3> HIDE DEF q
    <3> QED
      BY <1>1, <3>1
  <2> HIDE DEF p, q
  <2>3. \A i \in 1..Len(p) : p[i] = <<a>>[i]
    BY <2>1
  <2>4. \A i \in 1..Len(q) : q[i] = <<a, b>>[i]
    BY <2>2
  <2>5. p = <<a>>
    BY <1>1, <2>1, <2>3, SeqEqual
  <2>6. q = <<a, b>>
    BY <1>1, <2>2, <2>4, SeqEqual
  <2> QED
    BY <2>5, <2>6 DEF p, q
<1> QED
  BY <1>1, <1>2, <1>3, <1>4

(* A frame whose first callback has been called. *)
LEMMA CalledFrame ==
    ASSUME NEW b \in Brokers, NEW g \in BOOLEAN, NEW q \in Seq(Forwarders), NEW a,
           a = [broker |-> b, flagged |-> g, left |-> q]
    PROVE  [a EXCEPT !.left = Tail(@)] = [broker |-> b, flagged |-> g, left |-> Tail(q)]
<1>1. PICK t : t = Tail(q)
  OBVIOUS
<1>2. [a EXCEPT !.left = t] = [broker |-> b, flagged |-> g, left |-> t]
  OBVIOUS
<1>3. a.left = q
  OBVIOUS
<1> QED
  BY <1>1, <1>2, <1>3

(* The stack of two calls. *)
LEMMA TwoCalls ==
    ASSUME NEW m \in SyncMessages, NEW a \in FrameKind, NEW b \in FrameKind, publisher[m] = <<a, b>>
    PROVE  Len(publisher[m]) = 2 /\ Top(m) = b /\ Rest(m) = <<a>>
<1>1. /\ Len(<<a, b>>) = 2 /\ <<a, b>>[2] = b /\ SubSeq(<<a, b>>, 1, 1) = <<a>>
  BY Stacks
<1>2. Len(publisher[m]) = 2 /\ Len(publisher[m]) - 1 = 1
  BY <1>1
<1> QED
  BY <1>1, <1>2 DEF Top, Rest

LEMMA SidesAreBrokers ==
    ASSUME NEW f \in Forwarders
    PROVE  Source(f) \in Brokers /\ Target(f) \in Brokers
BY StateSyncAssumption DEF Forwarders, Source, Target, From, To

(* One forwarder more has taken the message somewhere. *)
LEMMA ReachedOneMore ==
    ASSUME NEW T \in SUBSET Forwarders, IsFiniteSet(T), NEW f, f \notin T, NEW c
    PROVE  /\ IsFiniteSet(T \cup {f}) /\ Cardinality(TakenTo(T, c)) \in Nat
           /\ Cardinality(TakenTo(T \cup {f}, c))
                = Cardinality(TakenTo(T, c)) + (IF c = Target(f) THEN 1 ELSE 0)
<1> DEFINE C == TakenTo(T, c)
           D == TakenTo(T \cup {f}, c)
<1>1. IsFiniteSet(C) /\ Cardinality(C) \in Nat
  BY FS_Subset, FS_CardinalityType DEF TakenTo
<1>2. IsFiniteSet(T \cup {f})
  BY FS_AddElement
<1>3. CASE Target(f) = c
  <2>1. D = C \cup {f} /\ f \notin C
    BY <1>3 DEF TakenTo
  <2> QED
    BY <1>1, <1>2, <1>3, <2>1, FS_AddElement
<1>4. CASE Target(f) # c
  <2>1. D = C
    BY <1>4 DEF TakenTo
  <2> HIDE DEF C, D
  <2>2. Cardinality(D) = Cardinality(C) + 0
    BY <1>1, <2>1
  <2> QED
    BY <1>1, <1>2, <1>4, <2>2 DEF C, D
<1> QED
  BY <1>3, <1>4

(* The rest of a list that was fresh is fresh, and its first is not in it. *)
LEMMA FreshTail ==
    ASSUME NEW b \in Brokers, NEW m \in SyncMessages, NEW q, Fresh(q, b, m), q # <<>>
    PROVE  /\ Head(q) \in Forwarders /\ Source(Head(q)) = b /\ Head(q) \notin through[m]
           /\ Within(Tail(q), b)
           /\ \A i \in 1..Len(Tail(q)) : Tail(q)[i] \notin through[m] \cup {Head(q)}
<1>1. /\ q \in Seq(Forwarders) /\ Distinct(q)
      /\ \A i \in 1..Len(q) : Source(q[i]) = b /\ q[i] \notin through[m]
  BY DEF Fresh, Within
<1>2. /\ Head(q) = q[1] /\ Tail(q) \in Seq(Forwarders) /\ Len(Tail(q)) = Len(q) - 1
      /\ \A i \in 1..Len(Tail(q)) : Tail(q)[i] = q[i + 1]
      /\ Len(q) \in Nat /\ Len(q) > 0
  BY <1>1, HeadTailProperties, LenProperties, EmptySeq
<1>3. 1 \in 1..Len(q) /\ \A i \in 1..Len(Tail(q)) : i + 1 \in 1..Len(q) /\ i + 1 # 1
  BY <1>2
<1>4. Head(q) \in Forwarders /\ Source(Head(q)) = b /\ Head(q) \notin through[m]
  BY <1>1, <1>2, <1>3, ElementOfSeq
<1>5. Distinct(Tail(q))
  BY <1>1, <1>2, <1>3 DEF Distinct
<1>6. \A i \in 1..Len(Tail(q)) : Tail(q)[i] # Head(q)
  BY <1>1, <1>2, <1>3 DEF Distinct
<1> QED
  BY <1>1, <1>2, <1>3, <1>4, <1>5, <1>6 DEF Within

LEMMA SyncInitInv == SyncInit => SyncInv
<1> SUFFICES ASSUME SyncInit PROVE SyncInv
  OBVIOUS
<1>1. <<>> \in Seq(Forwarders) /\ Len(<<>>) = 0 /\ Within(<<>>, "any") /\ \A b : Within(<<>>, b)
  <2>1. <<>> \in Seq(Forwarders) /\ Len(<<>>) = 0
    BY EmptySeq
  <2> QED
    BY <2>1 DEF Within, Distinct
<1>2. CallbacksFit
  BY <1>1 DEF SyncInit, CallbacksFit
<1>3. ASSUME NEW m \in SyncMessages PROVE Journey(m)
  BY FS_EmptySet DEF SyncInit, Journey, Untouched
<1> QED
  BY <1>2, <1>3 DEF SyncInit, SyncInv

LEMMA JourneyStays ==
    ASSUME NEW m \in SyncMessages, Journey(m),
           publisher'[m] = publisher[m], handed'[m] = handed[m], through'[m] = through[m]
    PROVE  Journey(m)'
<1>1. /\ \A c : Reached(m, c)' = Reached(m, c)
      /\ \A b : FromHere(m, b)' <=> FromHere(m, b)
      /\ \A q, b : Fresh(q, b, m)' <=> Fresh(q, b, m)
  BY DEF Reached, FromHere, Fresh
<1>2. Untouched(m)' <=> Untouched(m)
  BY DEF Untouched
<1>3. AtHome(m)' <=> AtHome(m)
  BY <1>1 DEF AtHome
<1>4. Away(m) => Away(m)'
  <2> SUFFICES ASSUME Away(m) PROVE Away(m)'
    OBVIOUS
  <2>1. PICK b \in Brokers, away \in Brokers, q \in Seq(Forwarders), r \in Seq(Forwarders) :
           /\ publisher[m] = <<[broker |-> b, flagged |-> FALSE, left |-> q],
                               [broker |-> away, flagged |-> TRUE, left |-> r]>>
           /\ Fresh(q, b, m) /\ FromHere(m, b)
           /\ \A c \in Brokers : handed[m][c] + (IF c = away THEN 1 ELSE 0) = Reached(m, c)
    BY DEF Away
  <2>2. /\ publisher'[m] = <<[broker |-> b, flagged |-> FALSE, left |-> q],
                              [broker |-> away, flagged |-> TRUE, left |-> r]>>
        /\ Fresh(q, b, m)' /\ FromHere(m, b)'
        /\ \A c \in Brokers : handed'[m][c] + (IF c = away THEN 1 ELSE 0) = Reached(m, c)'
    BY <1>1, <2>1
  <2> QED
    BY <2>2 DEF Away
<1>5. HandedOver(m)' <=> HandedOver(m)
  BY <1>1 DEF HandedOver
<1> QED
  BY <1>2, <1>3, <1>4, <1>5 DEF Journey

LEMMA SubscribeSideInv ==
    ASSUME SyncInv, NEW s \in DOMAIN Sessions, NEW side \in {1, 2}, SubscribeSide(s, side)
    PROVE  SyncInv'
<1> DEFINE f == Forwarder(s, side)
           b == From(s, side)
<1>1. /\ CallbacksFit /\ f \in Forwarders /\ b \in Brokers /\ Source(f) = b
      /\ f.session = s /\ f.side = side
      /\ session[s] = (IF side = 1 THEN "none" ELSE "half")
      /\ callbacks' = [callbacks EXCEPT ![b] = Append(callbacks[b], f)]
      /\ session' = [session EXCEPT ![s] = IF side = 1 THEN "half" ELSE "active"]
      /\ UNCHANGED <<publisher, handed, through>>
  BY SidesAreBrokers DEF SyncInv, SubscribeSide, Forwarder, Forwarders, Source
<1> HIDE DEF f, b
<1>2. \A i \in 1..Len(callbacks[b]) : callbacks[b][i] # f
  <2> SUFFICES ASSUME NEW i \in 1..Len(callbacks[b]), callbacks[b][i] = f PROVE FALSE
    OBVIOUS
  <2>1. session[f.session] \in IF f.side = 1 THEN {"half", "active"} ELSE {"active", "stopping"}
    BY <1>1 DEF CallbacksFit
  <2> QED
    BY <1>1, <2>1
<1> DEFINE p == Append(callbacks[b], f)
<1>3. /\ p \in Seq(Forwarders) /\ Len(p) = Len(callbacks[b]) + 1 /\ Len(callbacks[b]) \in Nat
      /\ \A i \in 1..Len(callbacks[b]) : p[i] = callbacks[b][i]
      /\ p[Len(callbacks[b]) + 1] = f
  BY <1>1, AppendProperties, LenProperties DEF CallbacksFit
<1> HIDE DEF p
<1>4. Within(p, b)
  <2>1. Distinct(callbacks[b]) /\ \A i \in 1..Len(callbacks[b]) : Source(callbacks[b][i]) = b
    BY <1>1 DEF CallbacksFit, Within
  <2>2. Distinct(p)
    BY <1>2, <1>3, <2>1 DEF Distinct
  <2>3. \A i \in 1..Len(p) : Source(p[i]) = b
    BY <1>1, <1>3, <2>1
  <2> QED
    BY <1>3, <2>2, <2>3 DEF Within
<1>5. CallbacksFit'
  <2>1. callbacks' \in [Brokers -> Seq(Forwarders)] /\ callbacks'[b] = p
        /\ \A c \in Brokers \ {b} : callbacks'[c] = callbacks[c]
    BY <1>1, <1>3 DEF CallbacksFit, p
  <2>2. /\ session' \in [DOMAIN Sessions -> {"none", "half", "active", "stopping", "stopped"}]
        /\ session'[s] = (IF side = 1 THEN "half" ELSE "active")
        /\ \A x \in DOMAIN Sessions \ {s} : session'[x] = session[x]
    BY <1>1 DEF CallbacksFit
  <2>3. ASSUME NEW g \in Forwarders,
               session[g.session] \in IF g.side = 1 THEN {"half", "active"} ELSE {"active", "stopping"}
        PROVE  session'[g.session] \in IF g.side = 1 THEN {"half", "active"} ELSE {"active", "stopping"}
    BY <1>1, <2>2, <2>3 DEF Forwarders
  <2>4. session'[f.session] \in IF f.side = 1 THEN {"half", "active"} ELSE {"active", "stopping"}
    BY <1>1, <2>2
  <2>5. ASSUME NEW c \in Brokers
        PROVE  /\ Within(callbacks'[c], c)
               /\ \A i \in 1..Len(callbacks'[c]) :
                     LET g == callbacks'[c][i] IN
                     session'[g.session] \in IF g.side = 1 THEN {"half", "active"} ELSE {"active", "stopping"}
    <3>1. Within(callbacks[c], c) /\ \A i \in 1..Len(callbacks[c]) :
             /\ callbacks[c][i] \in Forwarders
             /\ session'[callbacks[c][i].session] \in
                   IF callbacks[c][i].side = 1 THEN {"half", "active"} ELSE {"active", "stopping"}
      <4>1. \A i \in 1..Len(callbacks[c]) : callbacks[c][i] \in Forwarders
        BY <1>1, ElementOfSeq DEF CallbacksFit
      <4> QED
        BY <1>1, <2>3, <4>1 DEF CallbacksFit
    <3>2. CASE c = b
      <4>1. callbacks'[c] = p /\ Within(callbacks'[c], c)
        BY <1>4, <2>1, <3>2
      <4>2. ASSUME NEW i \in 1..Len(p)
            PROVE  p[i] = f \/ (i \in 1..Len(callbacks[c]) /\ p[i] = callbacks[c][i])
        BY <1>3, <3>2, <4>2
      <4>3. \A i \in 1..Len(p) :
               session'[p[i].session] \in IF p[i].side = 1 THEN {"half", "active"} ELSE {"active", "stopping"}
        BY <2>4, <3>1, <4>2
      <4> QED
        BY <4>1, <4>3
    <3>3. CASE c # b
      BY <2>1, <3>1, <3>3
    <3> QED
      BY <3>2, <3>3
  <2> QED
    BY <2>1, <2>2, <2>5 DEF CallbacksFit
<1> QED
  BY <1>1, <1>5, JourneyStays DEF SyncInv

LEMMA UnsubscribeSideInv ==
    ASSUME SyncInv, NEW s \in DOMAIN Sessions, NEW side \in {1, 2}, UnsubscribeSide(s, side)
    PROVE  SyncInv'
<1> DEFINE f == Forwarder(s, side)
           b == From(s, side)
           p == RemoveFirst(callbacks[b], f)
<1>1. /\ CallbacksFit /\ f \in Forwarders /\ b \in Brokers /\ Source(f) = b
      /\ f.session = s /\ f.side = side /\ f = [session |-> s, side |-> side]
      /\ session[s] = (IF side = 1 THEN "active" ELSE "stopping")
      /\ callbacks' = [callbacks EXCEPT ![b] = p]
      /\ session' = [session EXCEPT ![s] = IF side = 1 THEN "stopping" ELSE "stopped"]
      /\ UNCHANGED <<publisher, handed, through>>
  BY SidesAreBrokers DEF SyncInv, UnsubscribeSide, Forwarder, Forwarders, Source
<1> HIDE DEF f, b
<1>2. /\ p \in Seq(Forwarders) /\ Distinct(p)
      /\ \A i \in 1..Len(p) : p[i] # f /\ \E j \in 1..Len(callbacks[b]) : p[i] = callbacks[b][j]
  BY <1>1, RemovedOnce DEF CallbacksFit, Within
<1> HIDE DEF p
<1>3. CallbacksFit'
  <2>1. callbacks' \in [Brokers -> Seq(Forwarders)] /\ callbacks'[b] = p
        /\ \A c \in Brokers \ {b} : callbacks'[c] = callbacks[c]
    BY <1>1, <1>2 DEF CallbacksFit
  <2>2. /\ session' \in [DOMAIN Sessions -> {"none", "half", "active", "stopping", "stopped"}]
        /\ session'[s] = (IF side = 1 THEN "stopping" ELSE "stopped")
        /\ \A x \in DOMAIN Sessions \ {s} : session'[x] = session[x]
    BY <1>1 DEF CallbacksFit
  <2>3. ASSUME NEW g \in Forwarders, g # f,
               session[g.session] \in IF g.side = 1 THEN {"half", "active"} ELSE {"active", "stopping"}
        PROVE  session'[g.session] \in IF g.side = 1 THEN {"half", "active"} ELSE {"active", "stopping"}
    <3>1. CASE g.session # s
      BY <2>2, <2>3, <3>1 DEF Forwarders
    <3>2. CASE g.session = s
      <4>1. g.side # side /\ g.side \in {1, 2}
        BY <1>1, <2>3, <3>2 DEF Forwarders
      <4> QED
        BY <1>1, <2>2, <2>3, <3>2, <4>1
    <3> QED
      BY <3>1, <3>2
  <2>4. ASSUME NEW c \in Brokers
        PROVE  /\ Within(callbacks'[c], c)
               /\ \A i \in 1..Len(callbacks'[c]) :
                     LET g == callbacks'[c][i] IN
                     session'[g.session] \in IF g.side = 1 THEN {"half", "active"} ELSE {"active", "stopping"}
    <3>1. Within(callbacks[c], c) /\ \A i \in 1..Len(callbacks[c]) :
             /\ callbacks[c][i] \in Forwarders /\ Source(callbacks[c][i]) = c
             /\ callbacks[c][i] # f => session'[callbacks[c][i].session] \in
                   IF callbacks[c][i].side = 1 THEN {"half", "active"} ELSE {"active", "stopping"}
      <4>1. \A i \in 1..Len(callbacks[c]) : callbacks[c][i] \in Forwarders
        BY <1>1, ElementOfSeq DEF CallbacksFit
      <4>2. Within(callbacks[c], c) /\ \A i \in 1..Len(callbacks[c]) : Source(callbacks[c][i]) = c
        BY <1>1 DEF CallbacksFit, Within
      <4> QED
        BY <1>1, <2>3, <4>1, <4>2 DEF CallbacksFit
    <3>2. CASE c = b
      <4>1. Within(p, b)
        BY <1>2, <3>1, <3>2 DEF Within
      <4>2. \A i \in 1..Len(p) :
               session'[p[i].session] \in IF p[i].side = 1 THEN {"half", "active"} ELSE {"active", "stopping"}
        BY <1>2, <3>1, <3>2
      <4> QED
        BY <2>1, <3>2, <4>1, <4>2
    <3>3. CASE c # b
      <4>1. \A i \in 1..Len(callbacks[c]) : callbacks[c][i] # f
        BY <1>1, <3>1, <3>3
      <4> QED
        BY <2>1, <3>1, <3>3, <4>1
    <3> QED
      BY <3>2, <3>3
  <2> QED
    BY <2>1, <2>2, <2>4 DEF CallbacksFit
<1> QED
  BY <1>1, <1>3, JourneyStays DEF SyncInv

LEMMA PublishMessageInv ==
    ASSUME SyncInv, NEW m \in SyncMessages, NEW b \in Brokers, PublishMessage(m, b)
    PROVE  SyncInv'
<1> DEFINE p == <<[broker |-> b, flagged |-> FALSE, left |-> callbacks[b]]>>
<1>1. /\ publisher[m] = <<>> /\ \A c \in Brokers : handed[m][c] = 0
      /\ publisher' = [publisher EXCEPT ![m] = p]
      /\ UNCHANGED <<callbacks, session, handed, through>>
  BY DEF PublishMessage, Frame
<1>2. Journey(m) /\ CallbacksFit
  BY DEF SyncInv
<1>3. \A c : Reached(m, c) \in Nat
  <2> TAKE c
  <2>1. IsFiniteSet(TakenTo(through[m], c))
    BY <1>2, FS_Subset DEF Journey, TakenTo
  <2> QED
    BY <2>1, FS_CardinalityType DEF Reached
<1>4. ~HandedOver(m)
  BY <1>1, <1>3 DEF HandedOver
<1>5. ~AtHome(m) /\ ~Away(m)
  BY <1>1 DEF AtHome, Away
<1>6. through[m] = {}
  BY <1>2, <1>4, <1>5 DEF Journey, Untouched
<1>7. publisher'[m] = p /\ through'[m] = {} /\ handed'[m] = handed[m]
  BY <1>1, <1>6 DEF SyncInv
<1>8. PICK q \in Seq(Forwarders) : q = callbacks[b] /\ Within(q, b)
  BY <1>2 DEF CallbacksFit
<1>9. \A c : Reached(m, c)' = 0
  <2>1. \A c : TakenTo(through'[m], c) = {}
    BY <1>7 DEF TakenTo
  <2> QED
    BY <2>1, FS_EmptySet DEF Reached
<1>10. Fresh(q, b, m)' /\ FromHere(m, b)'
  BY <1>7, <1>8 DEF Fresh, FromHere
<1>11. AtHome(m)'
  <2>1. publisher'[m] = <<[broker |-> b, flagged |-> FALSE, left |-> q]>>
    BY <1>7, <1>8
  <2> QED
    BY <1>1, <1>7, <1>8, <1>9, <1>10, <2>1 DEF AtHome
<1>12. Journey(m)'
  BY <1>2, <1>7, <1>11, FS_EmptySet DEF Journey
<1>13. \A n \in SyncMessages : Journey(n)'
  <2> SUFFICES ASSUME NEW n \in SyncMessages, n # m PROVE Journey(n)'
    BY <1>12
  <2>1. publisher'[n] = publisher[n] /\ handed'[n] = handed[n] /\ through'[n] = through[n] /\ Journey(n)
    BY <1>1 DEF SyncInv
  <2> QED
    BY <2>1, JourneyStays
<1>14. CallbacksFit'
  BY <1>1, <1>2 DEF CallbacksFit
<1> QED
  BY <1>1, <1>13, <1>14 DEF SyncInv

LEMMA ForwardInv ==
    ASSUME SyncInv, NEW m \in SyncMessages, Forward(m)
    PROVE  SyncInv'
<1>0. CallbacksFit /\ Journey(m) /\ publisher[m] # <<>> /\ Top(m).left # <<>>
      /\ UNCHANGED <<callbacks, session, handed>>
  BY DEF SyncInv, Forward
<1>1. CASE AtHome(m)
  <2>1. PICK b \in Brokers, q \in Seq(Forwarders) :
           /\ publisher[m] = <<[broker |-> b, flagged |-> FALSE, left |-> q]>>
           /\ Fresh(q, b, m) /\ FromHere(m, b)
           /\ \A c \in Brokers : handed[m][c] = Reached(m, c)
    BY <1>1 DEF AtHome
  <2> DEFINE here == [broker |-> b, flagged |-> FALSE, left |-> q]
             f == Head(q)
             away == Target(f)
             later == [broker |-> b, flagged |-> FALSE, left |-> Tail(q)]
             there == [broker |-> away, flagged |-> TRUE, left |-> callbacks[away]]
  <2>2. here \in FrameKind
    BY DEF FrameKind
  <2>3. Len(publisher[m]) = 1 /\ Top(m) = here /\ Rest(m) = <<>>
    BY <2>1, <2>2, Stacks DEF Top, Rest
  <2>4. q # <<>>
    BY <1>0, <2>3
  <2>5. /\ f \in Forwarders /\ Source(f) = b /\ f \notin through[m] /\ Within(Tail(q), b)
        /\ \A i \in 1..Len(Tail(q)) : Tail(q)[i] \notin through[m] \cup {f}
        /\ Tail(q) \in Seq(Forwarders)
    <3>1. Fresh(q, b, m)
      BY <2>1
    <3> QED
      BY <2>4, <3>1, FreshTail DEF Within
  <2>6. away \in Brokers /\ callbacks[away] \in Seq(Forwarders)
    BY <1>0, <2>5, SidesAreBrokers DEF CallbacksFit
  <2>7. later \in FrameKind /\ there \in FrameKind
    BY <2>5, <2>6 DEF FrameKind
  <2>8. Called(m) = <<later>>
    <3>1. [Top(m) EXCEPT !.left = Tail(@)] = later
      BY <2>3, CalledFrame
    <3> QED
      BY <2>3, <2>7, <3>1, Stacks DEF Called
  <2>9. /\ publisher' = [publisher EXCEPT ![m] = Append(Called(m), there)]
        /\ through' = [through EXCEPT ![m] = through[m] \cup {f}]
    BY <2>3 DEF Forward, Frame, Target
  <2>10. publisher'[m] = <<later, there>> /\ through'[m] = through[m] \cup {f} /\ handed'[m] = handed[m]
    <3> HIDE DEF later, there, f
    <3>0. Append(<<later>>, there) = <<later, there>>
      BY <2>7, Stacks
    <3>1. Append(Called(m), there) = <<later, there>>
      BY <2>8, <3>0
    <3> QED
      BY <1>0, <2>9, <3>1 DEF SyncInv
  <2> HIDE DEF f, away
  <2>11. Fresh(Tail(q), b, m)' /\ FromHere(m, b)'
    BY <2>1, <2>5, <2>10 DEF Fresh, FromHere
  <2>12. /\ IsFiniteSet(through'[m])
         /\ \A c : Reached(m, c) \in Nat /\ Reached(m, c)' = Reached(m, c) + (IF c = away THEN 1 ELSE 0)
    <3>1. through[m] \in SUBSET Forwarders /\ IsFiniteSet(through[m])
      BY <1>0 DEF Journey
    <3>2. ASSUME NEW c
          PROVE  /\ IsFiniteSet(through[m] \cup {f}) /\ Reached(m, c) \in Nat
                 /\ Reached(m, c)' = Reached(m, c) + (IF c = away THEN 1 ELSE 0)
      <4>1. Reached(m, c)' = Cardinality(TakenTo(through[m] \cup {f}, c))
        BY <2>10 DEF Reached
      <4>2. /\ IsFiniteSet(through[m] \cup {f})
            /\ Cardinality(TakenTo(through[m], c)) \in Nat
            /\ Cardinality(TakenTo(through[m] \cup {f}, c))
                 = Cardinality(TakenTo(through[m], c)) + (IF c = Target(f) THEN 1 ELSE 0)
        <5>1. f \notin through[m]
          BY <2>5
        <5> QED
          BY <3>1, <5>1, ReachedOneMore
      <4> QED
        BY <4>1, <4>2 DEF Reached, away
    <3> QED
      BY <2>10, <3>2
  <2>13. Away(m)'
    <3>1. \A c \in Brokers : handed'[m][c] + (IF c = away THEN 1 ELSE 0) = Reached(m, c)'
      BY <2>1, <2>10, <2>12
    <3> QED
      BY <2>5, <2>6, <2>10, <2>11, <3>1 DEF Away
  <2>14. Journey(m)'
    BY <1>0, <2>5, <2>10, <2>12, <2>13 DEF Journey
  <2>15. \A n \in SyncMessages : Journey(n)'
    <3> SUFFICES ASSUME NEW n \in SyncMessages, n # m PROVE Journey(n)'
      BY <2>14
    <3>1. publisher'[n] = publisher[n] /\ handed'[n] = handed[n] /\ through'[n] = through[n] /\ Journey(n)
      BY <1>0, <2>9 DEF SyncInv
    <3> QED
      BY <3>1, JourneyStays
  <2> QED
    BY <1>0, <2>9, <2>15 DEF SyncInv, CallbacksFit
<1>2. CASE Away(m)
  <2>1. PICK b \in Brokers, away \in Brokers, q \in Seq(Forwarders), r \in Seq(Forwarders) :
           /\ publisher[m] = <<[broker |-> b, flagged |-> FALSE, left |-> q],
                               [broker |-> away, flagged |-> TRUE, left |-> r]>>
           /\ Fresh(q, b, m) /\ FromHere(m, b)
           /\ \A c \in Brokers : handed[m][c] + (IF c = away THEN 1 ELSE 0) = Reached(m, c)
    BY <1>2 DEF Away
  <2> DEFINE here == [broker |-> b, flagged |-> FALSE, left |-> q]
             there == [broker |-> away, flagged |-> TRUE, left |-> r]
             later == [broker |-> away, flagged |-> TRUE, left |-> Tail(r)]
  <2>2. here \in FrameKind /\ there \in FrameKind
    BY DEF FrameKind
  <2>3. Len(publisher[m]) = 2 /\ Top(m) = there /\ Rest(m) = <<here>>
    <3>1. publisher[m] = <<here, there>>
      BY <2>1
    <3> HIDE DEF here, there
    <3> QED
      BY <2>2, <3>1, TwoCalls
  <2>4. Tail(r) \in Seq(Forwarders)
    BY <1>0, <2>3, HeadTailProperties
  <2>5. later \in FrameKind
    BY <2>4 DEF FrameKind
  <2>6. Called(m) = <<here, later>>
    <3>1. [Top(m) EXCEPT !.left = Tail(@)] = later
      BY <2>3, CalledFrame
    <3>2. Append(<<here>>, later) = <<here, later>>
      BY <2>2, <2>5, Stacks
    <3> HIDE DEF here, later
    <3> QED
      BY <2>3, <3>1, <3>2 DEF Called
  <2>7. publisher' = [publisher EXCEPT ![m] = Called(m)] /\ UNCHANGED through
    BY <2>3 DEF Forward
  <2>8. publisher'[m] = <<here, later>> /\ through'[m] = through[m] /\ handed'[m] = handed[m]
    BY <1>0, <2>6, <2>7 DEF SyncInv
  <2>9. Fresh(q, b, m)' /\ FromHere(m, b)' /\ \A c : Reached(m, c)' = Reached(m, c)
    BY <2>1, <2>8 DEF Fresh, FromHere, Reached
  <2>10. Away(m)'
    <3>1. \A c \in Brokers : handed'[m][c] + (IF c = away THEN 1 ELSE 0) = Reached(m, c)'
      BY <2>1, <2>8, <2>9
    <3> QED
      BY <2>4, <2>8, <2>9, <3>1 DEF Away
  <2>11. Journey(m)'
    BY <1>0, <2>8, <2>10 DEF Journey
  <2>12. \A n \in SyncMessages : Journey(n)'
    <3> SUFFICES ASSUME NEW n \in SyncMessages, n # m PROVE Journey(n)'
      BY <2>11
    <3>1. publisher'[n] = publisher[n] /\ handed'[n] = handed[n] /\ through'[n] = through[n] /\ Journey(n)
      BY <1>0, <2>7 DEF SyncInv
    <3> QED
      BY <3>1, JourneyStays
  <2> QED
    BY <1>0, <2>7, <2>12 DEF SyncInv, CallbacksFit
<1> QED
  BY <1>0, <1>1, <1>2 DEF Journey, Untouched, HandedOver

LEMMA CallClientInv ==
    ASSUME SyncInv, NEW m \in SyncMessages, CallClient(m)
    PROVE  SyncInv'
<1>0. CallbacksFit /\ Journey(m) /\ publisher[m] # <<>> /\ Top(m).left = <<>>
      /\ handed' = [handed EXCEPT ![m][Top(m).broker] = @ + 1]
      /\ publisher' = [publisher EXCEPT ![m] = Rest(m)]
      /\ UNCHANGED <<callbacks, session, through>>
  BY DEF SyncInv, CallClient
<1>1. ASSUME Journey(m)' PROVE SyncInv'
  <2>1. \A n \in SyncMessages : Journey(n)'
    <3> SUFFICES ASSUME NEW n \in SyncMessages, n # m PROVE Journey(n)'
      BY <1>1
    <3>1. publisher'[n] = publisher[n] /\ handed'[n] = handed[n] /\ through'[n] = through[n] /\ Journey(n)
      BY <1>0 DEF SyncInv
    <3> QED
      BY <3>1, JourneyStays
  <2> QED
    BY <1>0, <2>1 DEF SyncInv, CallbacksFit
<1>2. /\ through'[m] = through[m] /\ publisher'[m] = Rest(m)
      /\ \A b : FromHere(m, b)' <=> FromHere(m, b)
      /\ \A q, b : Fresh(q, b, m)' <=> Fresh(q, b, m)
      /\ \A c : Reached(m, c)' = Reached(m, c)
  BY <1>0 DEF SyncInv, FromHere, Fresh, Reached
<1>3. \A b \in Brokers : Top(m).broker = b =>
          /\ handed'[m] \in [Brokers -> Nat]
          /\ \A c \in Brokers : handed'[m][c] = handed[m][c] + (IF c = b THEN 1 ELSE 0)
  BY <1>0 DEF SyncInv, Journey
<1>4. CASE AtHome(m)
  <2>1. PICK b \in Brokers, q \in Seq(Forwarders) :
           /\ publisher[m] = <<[broker |-> b, flagged |-> FALSE, left |-> q]>>
           /\ Fresh(q, b, m) /\ FromHere(m, b)
           /\ \A c \in Brokers : handed[m][c] = Reached(m, c)
    BY <1>4 DEF AtHome
  <2> DEFINE here == [broker |-> b, flagged |-> FALSE, left |-> q]
  <2>2. here \in FrameKind
    BY DEF FrameKind
  <2>3. Top(m) = here /\ Rest(m) = <<>>
    BY <2>1, <2>2, Stacks DEF Top, Rest
  <2>4. /\ handed'[m] \in [Brokers -> Nat]
        /\ \A c \in Brokers : handed'[m][c] = Reached(m, c)' + (IF c = b THEN 1 ELSE 0)
    BY <1>2, <1>3, <2>1, <2>3
  <2>5. HandedOver(m)'
    BY <1>2, <2>1, <2>3, <2>4 DEF HandedOver
  <2> QED
    BY <1>0, <1>1, <1>2, <2>4, <2>5 DEF Journey
<1>5. CASE Away(m)
  <2>1. PICK b \in Brokers, away \in Brokers, q \in Seq(Forwarders), r \in Seq(Forwarders) :
           /\ publisher[m] = <<[broker |-> b, flagged |-> FALSE, left |-> q],
                               [broker |-> away, flagged |-> TRUE, left |-> r]>>
           /\ Fresh(q, b, m) /\ FromHere(m, b)
           /\ \A c \in Brokers : handed[m][c] + (IF c = away THEN 1 ELSE 0) = Reached(m, c)
    BY <1>5 DEF Away
  <2> DEFINE here == [broker |-> b, flagged |-> FALSE, left |-> q]
             there == [broker |-> away, flagged |-> TRUE, left |-> r]
  <2>2. here \in FrameKind /\ there \in FrameKind
    BY DEF FrameKind
  <2>3. Top(m) = there /\ Rest(m) = <<here>>
    <3>1. publisher[m] = <<here, there>>
      BY <2>1
    <3> HIDE DEF here, there
    <3> QED
      BY <2>2, <3>1, TwoCalls
  <2>4. handed'[m] \in [Brokers -> Nat] /\ \A c \in Brokers : handed'[m][c] = Reached(m, c)'
    BY <1>2, <1>3, <2>1, <2>3
  <2>5. AtHome(m)'
    BY <1>2, <2>1, <2>3, <2>4 DEF AtHome
  <2> QED
    BY <1>0, <1>1, <1>2, <2>4, <2>5 DEF Journey
<1> QED
  BY <1>0, <1>4, <1>5 DEF Journey, Untouched, HandedOver

(* core/pubsub.py and statesync.py: for any brokers, sessions and messages,  *)
(* forwarding goes one hop, and nobody hears a message by a detour.          *)
THEOREM NoMessageEchoes == SyncSpec => []NoEcho
<1>1. SyncInv /\ [SyncNext]_syncVars => SyncInv'
  <2> SUFFICES ASSUME SyncInv, [SyncNext]_syncVars PROVE SyncInv'
    OBVIOUS
  <2>1. CASE UNCHANGED syncVars
    BY <2>1, JourneyStays DEF syncVars, SyncInv, CallbacksFit
  <2> QED
    BY <2>1, SubscribeSideInv, UnsubscribeSideInv, PublishMessageInv, ForwardInv, CallClientInv
    DEF SyncNext
<1>2. SyncInv => NoEcho
  <2> SUFFICES ASSUME SyncInv, NEW m \in SyncMessages
               PROVE  /\ Len(publisher[m]) <= 2
                      /\ publisher[m] = <<>> =>
                           \A b \in Brokers :
                             \/ /\ handed[m][b] = Reached(m, b)
                                /\ \A f \in through[m] : From(f.session, f.side) # b
                             \/ /\ handed[m][b] = Reached(m, b) + 1
                                /\ \A f \in through[m] : From(f.session, f.side) = b
    BY DEF NoEcho, Reached, TakenTo, Target
  <2>1. Journey(m)
    BY DEF SyncInv
  <2>2. CASE Untouched(m)
    <3>1. \A b : Reached(m, b) = 0
      <4>1. \A b : TakenTo(through[m], b) = {}
        BY <2>2 DEF Untouched, TakenTo
      <4> QED
        BY <4>1, FS_EmptySet DEF Reached
    <3>2. Len(publisher[m]) = 0
      BY <2>2 DEF Untouched
    <3> QED
      BY <2>2, <3>1, <3>2 DEF Untouched
  <2>3. CASE AtHome(m)
    <3>1. PICK a \in FrameKind : publisher[m] = <<a>>
      BY <2>3 DEF AtHome, FrameKind
    <3> QED
      BY <3>1, Stacks
  <2>4. CASE Away(m)
    <3>1. PICK a \in FrameKind, c \in FrameKind : publisher[m] = <<a, c>>
      BY <2>4 DEF Away, FrameKind
    <3> QED
      BY <3>1, Stacks
  <2>5. CASE HandedOver(m)
    <3>1. PICK b \in Brokers :
             /\ publisher[m] = <<>> /\ FromHere(m, b)
             /\ \A c \in Brokers : handed[m][c] = Reached(m, c) + (IF c = b THEN 1 ELSE 0)
      BY <2>5 DEF HandedOver
    <3>2. Len(publisher[m]) = 0
      BY <3>1
    <3>3. \A c : Reached(m, c) \in Nat
      <4> TAKE c
      <4>1. IsFiniteSet(TakenTo(through[m], c))
        BY <2>1, FS_Subset DEF Journey, TakenTo
      <4> QED
        BY <4>1, FS_CardinalityType DEF Reached
    <3>4. ASSUME NEW c \in Brokers
          PROVE  \/ /\ handed[m][c] = Reached(m, c)
                    /\ \A f \in through[m] : From(f.session, f.side) # c
                 \/ /\ handed[m][c] = Reached(m, c) + 1
                    /\ \A f \in through[m] : From(f.session, f.side) = c
      <4>1. CASE c = b
        BY <3>1, <4>1 DEF FromHere, Source
      <4>2. CASE c # b
        BY <3>1, <3>3, <4>2 DEF FromHere, Source
      <4> QED
        BY <4>1, <4>2
    <3> QED
      BY <3>2, <3>4
  <2> QED
    BY <2>1, <2>2, <2>3, <2>4, <2>5 DEF Journey
<1> QED
  BY <1>1, <1>2, SyncInitInv, PTL DEF SyncSpec

-----------------------------------------------------------------------------
(***************************************************************************)
(* Jobs. Induction over a range of numbers, for a set of them.               *)
(***************************************************************************)
LEMMA RangeReached ==
    ASSUME NEW a \in Nat, NEW b \in Nat, NEW T, a \in T, \A n \in a..(b - 1) : n \in T => n + 1 \in T
    PROVE  \A n \in a..b : n \in T
<1> DEFINE Bad == {n \in a..b : n \notin T}
<1> SUFFICES ASSUME Bad # {} PROVE FALSE
  OBVIOUS
<1> DEFINE R == OpToRel(<, Nat)
<1>1. IsWellFoundedOn(R, Nat)
  BY NatLessThanWellFounded
<1>2. \A k, m \in Nat : k < m => <<k, m>> \in R
  BY DEF OpToRel
<1>3. Bad \subseteq Nat
  OBVIOUS
<1> HIDE DEF R, Bad
<1>4. PICK m \in Bad : \A k \in Bad : <<k, m>> \notin R
  BY <1>1, <1>3, WFMin
<1>5. m \in a..b /\ m \notin T /\ m # a
  BY <1>4 DEF Bad
<1>6. m - 1 \in a..(b - 1) /\ m - 1 \in a..b /\ (m - 1) + 1 = m
  BY <1>5
<1>7. m - 1 \notin Bad
  <2>1. m \in Nat /\ m - 1 \in Nat /\ m - 1 < m
    BY <1>5, <1>6
  <2> QED
    BY <1>2, <1>4, <2>1
<1>8. m - 1 \in T
  BY <1>6, <1>7 DEF Bad
<1> QED
  BY <1>5, <1>6, <1>8

(* What is due among the n oldest jobs, as the equation it is meant by.      *)
DueBy(g, n) ==
    IF n = 0 THEN <<>>
    ELSE IF DueNow(deque[n]) THEN Append(g[n - 1], deque[n]) ELSE g[n - 1]

LEMMA DueExists ==
    ASSUME Len(deque) \in Nat
    PROVE  \E g : g = [n \in 0..Len(deque) |-> DueBy(g, n)]
<1> DEFINE T == {m \in Nat : \E g : g = [n \in 0..m |-> DueBy(g, n)]}
<1>1. 0 \in T
  <2> DEFINE g == [n \in 0..0 |-> <<>>]
  <2>1. g = [n \in 0..0 |-> DueBy(g, n)]
    BY DEF DueBy
  <2> HIDE DEF g
  <2> QED
    BY <2>1
<1>2. ASSUME NEW m \in 0..(Len(deque) - 1), m \in T PROVE m + 1 \in T
  <2>1. PICK f : f = [n \in 0..m |-> DueBy(f, n)]
    BY <1>2
  <2> DEFINE g == [n \in 0..(m + 1) |-> DueBy(f, n)]
  <2>2. \A n \in 0..(m + 1) : g[n] = DueBy(f, n)
    OBVIOUS
  <2>3. \A n \in 0..m : f[n] = DueBy(f, n)
    BY <2>1
  <2>4. \A n \in 0..(m + 1) : DueBy(g, n) = DueBy(f, n)
    <3> TAKE n \in 0..(m + 1)
    <3>1. CASE n = 0
      BY <3>1 DEF DueBy
    <3>2. CASE n # 0
      <4>1. n - 1 \in 0..m /\ n - 1 \in 0..(m + 1)
        BY <3>2
      <4>2. g[n - 1] = f[n - 1]
        BY <2>2, <2>3, <4>1
      <4> HIDE DEF g
      <4> QED
        BY <4>2 DEF DueBy
    <3> QED
      BY <3>1, <3>2
  <2>5. g = [n \in 0..(m + 1) |-> DueBy(g, n)]
    BY <2>4
  <2> HIDE DEF g
  <2> QED
    BY <2>5
<1> HIDE DEF T
<1>3. \A n \in 0..Len(deque) : n \in T
  BY <1>1, <1>2, RangeReached
<1> QED
  BY <1>3 DEF T

LEMMA DueUnfolds ==
    ASSUME Len(deque) \in Nat
    PROVE  \A n \in 0..Len(deque) : DueAmong[n] = DueBy(DueAmong, n)
<1> DEFINE F(g) == [n \in 0..Len(deque) |->
                      IF n = 0 THEN <<>>
                      ELSE IF DueNow(deque[n]) THEN Append(g[n - 1], deque[n]) ELSE g[n - 1]]
<1>1. PICK h : h = F(h)
  BY DueExists DEF DueBy
<1>2. DueAmong = CHOOSE g : g = F(g)
  BY DEF DueAmong
<1> HIDE DEF F
<1>3. DueAmong = F(DueAmong)
  BY <1>1, <1>2
<1> QED
  BY <1>3 DEF F, DueBy

(* tick takes every due job of the deque, once.                              *)
LEMMA DueIsOnce ==
    ASSUME deque \in Seq(TimedJobs), Distinct(deque)
    PROVE  /\ DueJobs \in Seq(TimedJobs) /\ Distinct(DueJobs)
           /\ \A i \in 1..Len(DueJobs) : \E k \in 1..Len(deque) : DueJobs[i] = deque[k] /\ DueNow(deque[k])
<1> DEFINE Right(q, n) == /\ q \in Seq(TimedJobs) /\ Distinct(q)
                          /\ \A i \in 1..Len(q) : \E k \in 1..n : q[i] = deque[k] /\ DueNow(deque[k])
           T == {n \in 0..Len(deque) : Right(DueAmong[n], n)}
<1>1. Len(deque) \in Nat /\ \A k \in 1..Len(deque) : deque[k] \in TimedJobs
  BY LenProperties, ElementOfSeq
<1>2. 0 \in T
  <2>1. DueAmong[0] = <<>> /\ 0 \in 0..Len(deque)
    BY <1>1, DueUnfolds DEF DueBy
  <2>2. Len(<<>>) = 0 /\ <<>> \in Seq(TimedJobs)
    BY EmptySeq
  <2> DEFINE nothing == DueAmong[0]
  <2>3. nothing \in Seq(TimedJobs) /\ Len(nothing) = 0
    BY <2>1, <2>2
  <2> HIDE DEF nothing
  <2>4. Right(nothing, 0)
    BY <2>3 DEF Distinct
  <2> QED
    BY <2>1, <2>4 DEF nothing
<1>3. ASSUME NEW n \in 0..(Len(deque) - 1), n \in T PROVE n + 1 \in T
  <2>1. /\ n + 1 \in 0..Len(deque) /\ n + 1 # 0 /\ (n + 1) - 1 = n /\ n + 1 \in 1..Len(deque)
        /\ n \in 0..Len(deque)
    BY <1>1
  <2> DEFINE q == DueAmong[n]
             x == deque[n + 1]
  <2>2. DueAmong[n + 1] = IF DueNow(x) THEN Append(q, x) ELSE q
    BY <1>1, <2>1, DueUnfolds DEF DueBy
  <2>3. Right(q, n) /\ x \in TimedJobs /\ \A k \in 1..n : deque[k] # x
    BY <1>1, <1>3, <2>1 DEF Distinct
  <2> HIDE DEF q, x
  <2>4. Right(q, n + 1)
    BY <2>3
  <2>5. DueNow(x) => Right(Append(q, x), n + 1)
    <3> SUFFICES ASSUME DueNow(x) PROVE Right(Append(q, x), n + 1)
      OBVIOUS
    <3> DEFINE p == Append(q, x)
    <3>1. /\ p \in Seq(TimedJobs) /\ Len(p) = Len(q) + 1 /\ Len(q) \in Nat
          /\ p[Len(q) + 1] = x /\ \A i \in 1..Len(q) : p[i] = q[i]
      BY <2>3, AppendProperties, LenProperties
    <3>2. \A i \in 1..Len(q) : q[i] # x /\ \E k \in 1..n : q[i] = deque[k] /\ DueNow(deque[k])
      BY <2>3
    <3> HIDE DEF p
    <3>3. \A i \in 1..Len(p) : \E k \in 1..(n + 1) : p[i] = deque[k] /\ DueNow(deque[k])
      BY <3>1, <3>2 DEF x
    <3>4. Distinct(p)
      <4> SUFFICES ASSUME NEW i \in 1..Len(p), NEW j \in 1..Len(p), p[i] = p[j] PROVE i = j
        BY DEF Distinct
      <4>1. \A k \in 1..Len(p) : k \in 1..Len(q) \/ k = Len(q) + 1
        BY <3>1
      <4>2. CASE i \in 1..Len(q) /\ j \in 1..Len(q)
        BY <2>3, <3>1, <4>2 DEF Distinct
      <4>3. CASE i \in 1..Len(q) /\ j = Len(q) + 1
        BY <3>1, <3>2, <4>3
      <4>4. CASE i = Len(q) + 1 /\ j \in 1..Len(q)
        BY <3>1, <3>2, <4>4
      <4> QED
        BY <4>1, <4>2, <4>3, <4>4
    <3> QED
      BY <3>1, <3>3, <3>4 DEF p
  <2> QED
    BY <2>1, <2>2, <2>4, <2>5
<1> HIDE DEF T
<1>4. \A n \in 0..Len(deque) : n \in T
  BY <1>1, <1>2, <1>3, RangeReached
<1>5. Len(deque) \in T
  BY <1>1, <1>4
<1> QED
  BY <1>5 DEF T, DueJobs

-----------------------------------------------------------------------------
(* JobsInStep alone is not inductive: it does not know that a job in the     *)
(* hand of a tick was due by the tick's own time, which a repeat is counted  *)
(* from, nor that what a job is handled for is its next time of then.        *)
JobKinds == [status : {"new", "pending", "running", "completed", "failed", "cancelled"}, next : Int]

JobShape ==
    /\ jobClock \in Nat /\ deque \in Seq(TimedJobs) /\ Distinct(deque)
    /\ job \in [TimedJobs -> JobKinds] /\ handled \in [TimedJobs -> Int]
    /\ batch \in [JobTickers -> Seq(TimedJobs)] /\ tickTime \in [JobTickers -> Nat]
    /\ \A k \in JobTickers : Distinct(batch[k])

InHand(k, j) == \E i \in 1..Len(batch[k]) : batch[k][i] = j
Queued(j) == \E i \in 1..Len(deque) : deque[i] = j

JobInv ==
    /\ JobShape
    /\ jobIndex = {j \in TimedJobs : Queued(j)}
    /\ \A j \in TimedJobs :
         /\ \A k, l \in JobTickers : InHand(k, j) /\ InHand(l, j) => k = l
         /\ job[j].status = "running" <=> \E k \in JobTickers : InHand(k, j)
         /\ \A k \in JobTickers : InHand(k, j) => job[j].next <= tickTime[k]
         /\ job[j].status = "new" => ~Queued(j) /\ handled[j] = -1
         /\ job[j].status \in {"pending", "running"} => job[j].next > handled[j] \/ Restless(j)

LEMMA JobInvInStep == JobInv => JobsInStep
<1> SUFFICES ASSUME JobInv PROVE JobsInStep
  OBVIOUS
<1>1. \A s \in Seq(TimedJobs) : \A j : j \in ToSet(s) <=> j \in TimedJobs /\ \E i \in 1..Len(s) : s[i] = j
  <2> TAKE s \in Seq(TimedJobs)
  <2>1. ToSet(s) = {s[i] : i \in 1..Len(s)} /\ \A i \in 1..Len(s) : s[i] \in TimedJobs
    BY LenProperties, ElementOfSeq DEF ToSet
  <2> QED
    BY <2>1
<1>2. jobIndex = ToSet(deque)
  BY <1>1 DEF JobInv, JobShape, Queued
<1>3. \A k \in JobTickers : \A j : j \in ToSet(batch[k]) <=> j \in TimedJobs /\ InHand(k, j)
  BY <1>1 DEF JobInv, JobShape, InHand
<1>4. \A k, l \in JobTickers : k # l => ToSet(batch[k]) \cap ToSet(batch[l]) = {}
  BY <1>3 DEF JobInv
<1>5. ASSUME NEW j \in TimedJobs
      PROVE  /\ job[j].status = "running" <=> \E k \in JobTickers : j \in ToSet(batch[k])
             /\ job[j].status \in {"pending", "running"} => job[j].next > handled[j] \/ Restless(j)
  BY <1>3 DEF JobInv
<1> QED
  BY <1>2, <1>4, <1>5 DEF JobsInStep

LEMMA JobInitInv == JobInit => JobInv
<1> SUFFICES ASSUME JobInit PROVE JobInv
  OBVIOUS
<1>1. <<>> \in Seq(TimedJobs) /\ Len(<<>>) = 0
  BY EmptySeq
<1>2. \A j \in TimedJobs : job[j].status = "new" /\ ~Queued(j) /\ \A k \in JobTickers : ~InHand(k, j)
  BY <1>1 DEF JobInit, Queued, InHand
<1>3. JobShape
  BY <1>1 DEF JobInit, JobShape, JobKinds, Distinct
<1> QED
  BY <1>1, <1>2, <1>3 DEF JobInit, JobInv

(* A job has no more to it than its status and its next time.                *)
LEMMA JobFields ==
    ASSUME JobShape, NEW j \in TimedJobs
    PROVE  /\ job[j].status \in {"new", "pending", "running", "completed", "failed", "cancelled"}
           /\ job[j].next \in Int /\ handled[j] \in Int
BY DEF JobShape, JobKinds

LEMMA ScheduleJobInv ==
    ASSUME JobInv, NEW j \in TimedJobs, NEW t \in jobClock..(jobClock + 1), ScheduleJob(j, t)
    PROVE  JobInv'
<1> DEFINE old == Len(deque) = Capacity
           rest == IF old THEN Tail(deque) ELSE deque
<1>1. JobShape /\ job[j].status = "new" /\ ~Queued(j) /\ handled[j] = -1 /\ t \in Nat
  BY DEF JobInv, ScheduleJob, JobShape
<1>2. /\ deque' = Append(rest, j)
      /\ jobIndex' = (jobIndex \cup {j}) \ (IF old THEN {Head(deque)} ELSE {})
      /\ job' = [job EXCEPT ![j] = [status |-> "pending", next |-> t]]
      /\ UNCHANGED <<jobClock, batch, tickTime, handled>>
  BY DEF ScheduleJob
<1>3. Len(deque) \in Nat /\ \A i \in 1..Len(deque) : deque[i] \in TimedJobs
  BY <1>1, LenProperties, ElementOfSeq DEF JobShape
<1>4. /\ rest \in Seq(TimedJobs) /\ Distinct(rest)
      /\ \A x \in TimedJobs : (\E i \in 1..Len(rest) : rest[i] = x) <=>
            Queued(x) /\ (old => x # Head(deque))
  <2>1. CASE ~old
    BY <1>1, <2>1 DEF JobShape, Queued
  <2>2. CASE old
    <3>1. deque # <<>> /\ Len(deque) > 0
      BY <1>1, <2>2, JobAssumption, EmptySeq
    <3>2. /\ Tail(deque) \in Seq(TimedJobs) /\ Len(Tail(deque)) = Len(deque) - 1 /\ Head(deque) = deque[1]
          /\ \A i \in 1..Len(Tail(deque)) : Tail(deque)[i] = deque[i + 1]
      BY <1>1, <3>1, HeadTailProperties DEF JobShape
    <3>3. Distinct(deque)
      BY <1>1 DEF JobShape
    <3>4. \A i \in 1..Len(Tail(deque)) : i + 1 \in 1..Len(deque) /\ i + 1 # 1
      BY <1>3, <3>2
    <3>5. Distinct(Tail(deque))
      BY <3>2, <3>3, <3>4 DEF Distinct
    <3>6. ASSUME NEW x \in TimedJobs
          PROVE  (\E i \in 1..Len(Tail(deque)) : Tail(deque)[i] = x) <=> Queued(x) /\ x # Head(deque)
      <4>1. ASSUME NEW i \in 1..Len(Tail(deque)), Tail(deque)[i] = x PROVE Queued(x) /\ x # Head(deque)
        <5>1. 1 \in 1..Len(deque)
          BY <1>3, <3>1
        <5> QED
          BY <3>2, <3>3, <3>4, <4>1, <5>1 DEF Queued, Distinct
      <4>2. ASSUME NEW i \in 1..Len(deque), deque[i] = x, x # Head(deque)
            PROVE  \E m \in 1..Len(Tail(deque)) : Tail(deque)[m] = x
        <5>1. i - 1 \in 1..Len(Tail(deque)) /\ (i - 1) + 1 = i
          BY <1>3, <3>2, <4>2
        <5> QED
          BY <3>2, <4>2, <5>1
      <4> QED
        BY <4>1, <4>2 DEF Queued
    <3> QED
      BY <2>2, <3>2, <3>5, <3>6
  <2> QED
    BY <2>1, <2>2
<1>5. old => Head(deque) # j
  <2> SUFFICES ASSUME old PROVE Head(deque) # j
    OBVIOUS
  <2>1. deque # <<>> /\ 1 \in 1..Len(deque)
    BY <1>1, <1>3, JobAssumption, EmptySeq
  <2>2. Head(deque) = deque[1]
    BY <1>1, <2>1, HeadTailProperties DEF JobShape
  <2> QED
    BY <1>1, <2>1, <2>2 DEF Queued
<1> HIDE DEF rest, old
<1>6. /\ deque' \in Seq(TimedJobs) /\ Len(deque') = Len(rest) + 1 /\ Len(rest) \in Nat
      /\ deque'[Len(rest) + 1] = j /\ \A i \in 1..Len(rest) : deque'[i] = rest[i]
  BY <1>2, <1>4, AppendProperties, LenProperties
<1>7. \A i \in 1..Len(rest) : rest[i] # j /\ i \in 1..Len(deque')
  BY <1>1, <1>4, <1>6
<1>8. Distinct(deque')
  BY <1>4, <1>6, <1>7 DEF Distinct
<1>9. \A x \in TimedJobs : Queued(x)' <=> x = j \/ (Queued(x) /\ (old => x # Head(deque)))
  <2>1. \A x \in TimedJobs : Queued(x)' <=> x = j \/ \E i \in 1..Len(rest) : rest[i] = x
    BY <1>6, <1>7 DEF Queued
  <2> QED
    BY <1>4, <2>1
<1>10. jobIndex' = {x \in TimedJobs : Queued(x)'}
  <2>1. jobIndex = {x \in TimedJobs : Queued(x)}
    BY DEF JobInv
  <2>2. \A x : x \in jobIndex' <=> x \in TimedJobs /\ Queued(x)'
    BY <1>2, <1>5, <1>9, <2>1
  <2> QED
    BY <2>2
<1>11. /\ job' \in [TimedJobs -> JobKinds] /\ job'[j].status = "pending" /\ job'[j].next = t
       /\ \A x \in TimedJobs \ {j} : job'[x] = job[x]
  BY <1>1, <1>2 DEF JobShape, JobKinds
<1>12. JobShape'
  BY <1>1, <1>2, <1>6, <1>8, <1>11 DEF JobShape
<1>13. \A k \in JobTickers, x \in TimedJobs : InHand(k, x)' <=> InHand(k, x)
  BY <1>2 DEF InHand
<1>14. \A k \in JobTickers : ~InHand(k, j)
  BY <1>1 DEF JobInv
<1>15. ASSUME NEW x \in TimedJobs
       PROVE  /\ \A k, l \in JobTickers : InHand(k, x) /\ InHand(l, x) => k = l
              /\ job'[x].status = "running" <=> \E k \in JobTickers : InHand(k, x)
              /\ \A k \in JobTickers : InHand(k, x) => job'[x].next <= tickTime[k]
              /\ job'[x].status = "new" => ~(Queued(x)') /\ handled[x] = -1
              /\ job'[x].status \in {"pending", "running"} => job'[x].next > handled[x] \/ Restless(x)
  <2>1. CASE x = j
    BY <1>1, <1>11, <1>14, <2>1
  <2>2. CASE x # j
    BY <1>9, <1>11, <2>2 DEF JobInv
  <2> QED
    BY <2>1, <2>2
<1> QED
  BY <1>2, <1>10, <1>12, <1>13, <1>15 DEF JobInv

LEMMA DeleteJobInv ==
    ASSUME JobInv, NEW j \in TimedJobs, DeleteJob(j)
    PROVE  JobInv'
<1>1. JobShape /\ jobIndex' = jobIndex \ {j} /\ UNCHANGED <<jobClock, job, batch, tickTime, handled>>
  BY DEF JobInv, DeleteJob
<1>2. /\ deque' \in Seq(TimedJobs) /\ Distinct(deque')
      /\ \A i \in 1..Len(deque') : deque'[i] # j /\ \E m \in 1..Len(deque) : deque'[i] = deque[m]
      /\ \A m \in 1..Len(deque) : deque[m] # j => \E i \in 1..Len(deque') : deque'[i] = deque[m]
  <2>1. deque' = RemoveFirst(deque, j) /\ deque \in Seq(TimedJobs) /\ Distinct(deque)
    BY <1>1 DEF DeleteJob, JobShape
  <2> QED
    BY <2>1, RemovedOnce
<1>3. \A x \in TimedJobs : Queued(x)' <=> Queued(x) /\ x # j
  BY <1>2 DEF Queued
<1>4. jobIndex' = {x \in TimedJobs : Queued(x)'}
  <2>1. jobIndex = {x \in TimedJobs : Queued(x)}
    BY DEF JobInv
  <2> QED
    BY <1>1, <1>3, <2>1
<1>5. JobShape'
  BY <1>1, <1>2 DEF JobShape
<1>6. \A k \in JobTickers, x \in TimedJobs : InHand(k, x)' <=> InHand(k, x)
  BY <1>1 DEF InHand
<1> QED
  BY <1>1, <1>3, <1>4, <1>5, <1>6 DEF JobInv

LEMMA CancelJobInv ==
    ASSUME JobInv, NEW j \in TimedJobs, CancelJob(j)
    PROVE  JobInv'
<1>1. /\ JobShape /\ job[j].status = "pending" /\ UNCHANGED <<jobClock, deque, jobIndex, batch, tickTime, handled>>
      /\ job' = [job EXCEPT ![j].status = "cancelled"]
  BY DEF JobInv, CancelJob
<1>2. /\ job' \in [TimedJobs -> JobKinds] /\ job'[j].status = "cancelled"
      /\ \A x \in TimedJobs \ {j} : job'[x] = job[x]
  BY <1>1 DEF JobShape, JobKinds
<1>3. JobShape'
  BY <1>1, <1>2 DEF JobShape
<1>4. /\ \A k \in JobTickers, x \in TimedJobs : InHand(k, x)' <=> InHand(k, x)
      /\ \A x \in TimedJobs : Queued(x)' <=> Queued(x)
  BY <1>1 DEF InHand, Queued
<1>5. \A k \in JobTickers : ~InHand(k, j)
  BY <1>1 DEF JobInv
<1>6. ASSUME NEW x \in TimedJobs
      PROVE  /\ \A k, l \in JobTickers : InHand(k, x) /\ InHand(l, x) => k = l
             /\ job'[x].status = "running" <=> \E k \in JobTickers : InHand(k, x)
             /\ \A k \in JobTickers : InHand(k, x) => job'[x].next <= tickTime[k]
             /\ job'[x].status = "new" => ~Queued(x) /\ handled[x] = -1
             /\ job'[x].status \in {"pending", "running"} => job'[x].next > handled[x] \/ Restless(x)
  <2>1. CASE x = j
    BY <1>1, <1>2, <1>5, <2>1 DEF JobInv
  <2>2. CASE x # j
    BY <1>2, <2>2 DEF JobInv
  <2> QED
    BY <2>1, <2>2
<1>7. jobIndex = {x \in TimedJobs : Queued(x)}
  BY DEF JobInv
<1> QED
  BY <1>1, <1>3, <1>4, <1>6, <1>7 DEF JobInv

LEMMA TickMarksInv ==
    ASSUME JobInv, NEW k \in JobTickers, TickMarks(k)
    PROVE  JobInv'
<1> DEFINE due == DueJobs
           Marked(x) == \E i \in 1..Len(due) : due[i] = x
<1>1. /\ JobShape /\ batch[k] = <<>> /\ UNCHANGED <<jobClock, deque, jobIndex, handled>>
      /\ batch' = [batch EXCEPT ![k] = due] /\ tickTime' = [tickTime EXCEPT ![k] = jobClock]
  BY DEF JobInv, TickMarks
<1>2. /\ due \in Seq(TimedJobs) /\ Distinct(due)
      /\ \A i \in 1..Len(due) : \E m \in 1..Len(deque) : due[i] = deque[m] /\ DueNow(deque[m])
  BY <1>1, DueIsOnce DEF JobShape
<1>3. job' = [x \in TimedJobs |-> IF Marked(x) THEN [job[x] EXCEPT !.status = "running"] ELSE job[x]]
  <2>1. ToSet(due) = {due[i] : i \in 1..Len(due)}
    BY <1>2, LenProperties DEF ToSet
  <2>2. \A x : x \in ToSet(due) <=> Marked(x)
    BY <2>1
  <2>3. job' = [x \in TimedJobs |-> IF x \in ToSet(due) THEN [job[x] EXCEPT !.status = "running"] ELSE job[x]]
    BY DEF TickMarks
  <2> QED
    BY <2>2, <2>3
<1>4. \A x : Marked(x) => job[x].status = "pending" /\ job[x].next <= jobClock /\ Queued(x)
  BY <1>2 DEF DueNow, Queued
<1> HIDE DEF due
<1>5. /\ batch' \in [JobTickers -> Seq(TimedJobs)] /\ tickTime' \in [JobTickers -> Nat]
      /\ batch'[k] = due /\ tickTime'[k] = jobClock
      /\ \A l \in JobTickers \ {k} : batch'[l] = batch[l] /\ tickTime'[l] = tickTime[l]
  BY <1>1, <1>2 DEF JobShape
<1>6. \A l \in JobTickers, x \in TimedJobs : InHand(l, x)' <=> IF l = k THEN Marked(x) ELSE InHand(l, x)
  BY <1>5 DEF InHand
<1>7. \A x \in TimedJobs : ~InHand(k, x)
  <2>1. Len(batch[k]) = 0
    BY <1>1, EmptySeq
  <2> QED
    BY <2>1 DEF InHand
<1>8. \A x \in TimedJobs : /\ job'[x].next = job[x].next
                           /\ job'[x].status = (IF Marked(x) THEN "running" ELSE job[x].status)
                           /\ job'[x] \in JobKinds
  <2> TAKE x \in TimedJobs
  <2>1. job[x] \in JobKinds
    BY <1>1 DEF JobShape
  <2> HIDE DEF Marked
  <2> QED
    BY <1>3, <2>1 DEF JobKinds
<1>9. job' \in [TimedJobs -> JobKinds]
  BY <1>3, <1>8
<1>10. JobShape'
  BY <1>1, <1>2, <1>5, <1>9 DEF JobShape
<1> HIDE DEF Marked
<1>11. ASSUME NEW x \in TimedJobs
       PROVE  /\ \A l, m \in JobTickers : InHand(l, x)' /\ InHand(m, x)' => l = m
              /\ job'[x].status = "running" <=> \E l \in JobTickers : InHand(l, x)'
              /\ \A l \in JobTickers : InHand(l, x)' => job'[x].next <= tickTime'[l]
              /\ job'[x].status = "new" => ~Queued(x) /\ handled[x] = -1
              /\ job'[x].status \in {"pending", "running"} => job'[x].next > handled[x] \/ Restless(x)
  <2>1. CASE Marked(x)
    <3>1. job[x].status = "pending" /\ job[x].next <= jobClock /\ \A l \in JobTickers : ~InHand(l, x)
      BY <1>4, <2>1 DEF JobInv
    <3>2. \A l \in JobTickers : InHand(l, x)' <=> l = k
      BY <1>6, <2>1, <3>1
    <3>3. job'[x].status = "running" /\ job'[x].next = job[x].next /\ (job[x].next > handled[x] \/ Restless(x))
      BY <1>8, <2>1, <3>1 DEF JobInv
    <3> QED
      BY <1>5, <3>1, <3>2, <3>3
  <2>2. CASE ~Marked(x)
    <3>1. \A l \in JobTickers : InHand(l, x)' <=> InHand(l, x) /\ l # k
      BY <1>6, <2>2
    <3>2. \A l \in JobTickers : InHand(l, x)' <=> InHand(l, x)
      BY <1>7, <3>1
    <3>3. job'[x].status = job[x].status /\ job'[x].next = job[x].next
      BY <1>8, <2>2
    <3> QED
      BY <1>5, <3>1, <3>2, <3>3 DEF JobInv
  <2> QED
    BY <2>1, <2>2
<1>12. jobIndex' = {x \in TimedJobs : Queued(x)'} /\ \A x \in TimedJobs : Queued(x)' <=> Queued(x)
  BY <1>1 DEF JobInv, Queued
<1> QED
  BY <1>1, <1>10, <1>11, <1>12 DEF JobInv

LEMMA HandleNextInv ==
    ASSUME JobInv, NEW k \in JobTickers, NEW ok \in BOOLEAN, HandleNext(k, ok)
    PROVE  JobInv'
<1> DEFINE rest == Tail(batch[k])
<1>1. JobShape /\ batch[k] # <<>> /\ UNCHANGED <<jobClock, deque, jobIndex>>
  BY DEF JobInv, HandleNext
<1>2. /\ batch[k] \in Seq(TimedJobs) /\ Distinct(batch[k]) /\ Len(batch[k]) \in Nat /\ tickTime[k] \in Nat
  BY <1>1, LenProperties DEF JobShape
<1>3. PICK j \in TimedJobs :
        /\ j = Head(batch[k]) /\ j = batch[k][1] /\ 1 \in 1..Len(batch[k])
        /\ rest \in Seq(TimedJobs) /\ Len(rest) = Len(batch[k]) - 1
        /\ \A i \in 1..Len(rest) : rest[i] = batch[k][i + 1]
  <2>1. /\ rest \in Seq(TimedJobs) /\ Len(rest) = Len(batch[k]) - 1 /\ Head(batch[k]) = batch[k][1]
        /\ \A i \in 1..Len(rest) : rest[i] = batch[k][i + 1]
    BY <1>1, <1>2, HeadTailProperties
  <2>2. Len(batch[k]) # 0
    BY <1>1, <1>2, EmptySeq
  <2>3. 1 \in 1..Len(batch[k])
    BY <1>2, <2>2
  <2> QED
    BY <1>2, <2>1, <2>3, ElementOfSeq
<1>0. /\ job' = [job EXCEPT ![j] = After(j, ok, tickTime[k])]
      /\ handled' = [handled EXCEPT ![j] = job[j].next]
      /\ batch' = [batch EXCEPT ![k] = rest]
      /\ tickTime' = [tickTime EXCEPT ![k] = IF Len(batch[k]) = 1 THEN 0 ELSE tickTime[k]]
  BY <1>3 DEF HandleNext
<1> HIDE DEF rest
<1>4. InHand(k, j) /\ job[j].status = "running" /\ job[j].next <= tickTime[k]
  <2>1. InHand(k, j)
    BY <1>3 DEF InHand
  <2> QED
    BY <1>3, <2>1 DEF JobInv
<1>5. /\ batch' \in [JobTickers -> Seq(TimedJobs)] /\ tickTime' \in [JobTickers -> Nat]
      /\ batch'[k] = rest /\ tickTime'[k] = (IF Len(batch[k]) = 1 THEN 0 ELSE tickTime[k])
      /\ \A l \in JobTickers \ {k} : batch'[l] = batch[l] /\ tickTime'[l] = tickTime[l]
  BY <1>0, <1>1, <1>2, <1>3 DEF JobShape
<1>6. \A i \in 1..Len(rest) : i + 1 \in 1..Len(batch[k]) /\ i + 1 # 1 /\ i \in Nat
  BY <1>2, <1>3
<1>7. Distinct(rest)
  <2> SUFFICES ASSUME NEW m \in 1..Len(rest), NEW n \in 1..Len(rest), rest[m] = rest[n] PROVE m = n
    BY DEF Distinct
  <2>1. m + 1 \in 1..Len(batch[k]) /\ n + 1 \in 1..Len(batch[k]) /\ m \in Nat /\ n \in Nat
    BY <1>6
  <2>2. batch[k][m + 1] = batch[k][n + 1]
    BY <1>3
  <2>3. m + 1 = n + 1
    BY <1>2, <2>1, <2>2 DEF Distinct
  <2> QED
    BY <2>1, <2>3
<1>8. \A x \in TimedJobs : (\E i \in 1..Len(rest) : rest[i] = x) <=> InHand(k, x) /\ x # j
  <2> TAKE x \in TimedJobs
  <2>1. ASSUME NEW i \in 1..Len(rest), rest[i] = x PROVE InHand(k, x) /\ x # j
    BY <1>2, <1>3, <1>6, <2>1 DEF InHand, Distinct
  <2>2. ASSUME NEW i \in 1..Len(batch[k]), batch[k][i] = x, x # j PROVE \E m \in 1..Len(rest) : rest[m] = x
    <3>1. i - 1 \in 1..Len(rest) /\ (i - 1) + 1 = i
      BY <1>2, <1>3, <2>2
    <3> QED
      BY <1>3, <2>2, <3>1
  <2> QED
    BY <2>1, <2>2 DEF InHand
<1>9. \A l \in JobTickers, x \in TimedJobs : InHand(l, x)' <=> InHand(l, x) /\ (l = k => x # j)
  <2>1. \A x \in TimedJobs : InHand(k, x)' <=> InHand(k, x) /\ x # j
    BY <1>5, <1>8 DEF InHand
  <2>2. \A l \in JobTickers \ {k}, x \in TimedJobs : InHand(l, x)' <=> InHand(l, x)
    BY <1>5 DEF InHand
  <2> QED
    BY <2>1, <2>2
<1>10. \A l \in JobTickers : ~(InHand(l, j)')
  BY <1>3, <1>4, <1>9 DEF JobInv
<1>11. /\ After(j, ok, tickTime[k]) \in JobKinds
       /\ After(j, ok, tickTime[k]).status \in {"pending", "completed", "failed"}
       /\ After(j, ok, tickTime[k]).status = "pending" => After(j, ok, tickTime[k]).next > job[j].next \/ Restless(j)
  <2>1. JobInterval[j] \in Int /\ job[j] \in JobKinds /\ job[j].next \in Int /\ tickTime[k] \in Nat
    BY <1>1, <1>3, JobAssumption, JobFields DEF JobShape
  <2>2. CASE ok /\ j \in Repeating
    BY <1>2, <1>4, <2>1, <2>2 DEF After, JobKinds, Restless
  <2>3. CASE ~(ok /\ j \in Repeating)
    BY <2>1, <2>3 DEF After, JobKinds
  <2> QED
    BY <2>2, <2>3
<1> DEFINE a == After(j, ok, tickTime[k])
<1> HIDE DEF a
<1>12. /\ job' \in [TimedJobs -> JobKinds] /\ handled' \in [TimedJobs -> Int]
       /\ job'[j] = a /\ handled'[j] = job[j].next
       /\ \A x \in TimedJobs \ {j} : job'[x] = job[x] /\ handled'[x] = handled[x]
  <2>1. job[j].next \in Int
    BY <1>1, <1>3, JobFields
  <2> QED
    BY <1>0, <1>1, <1>3, <1>11, <2>1 DEF JobShape, a
<1>13. JobShape'
  BY <1>1, <1>5, <1>7, <1>12 DEF JobShape
<1>14. \A l \in JobTickers, x \in TimedJobs : InHand(l, x)' => tickTime'[l] = tickTime[l]
  <2>1. Len(batch[k]) = 1 => \A x \in TimedJobs : ~(InHand(k, x)')
    BY <1>3, <1>5 DEF InHand
  <2> QED
    BY <1>5, <2>1
<1>15. ASSUME NEW x \in TimedJobs
       PROVE  /\ \A l, m \in JobTickers : InHand(l, x)' /\ InHand(m, x)' => l = m
              /\ job'[x].status = "running" <=> \E l \in JobTickers : InHand(l, x)'
              /\ \A l \in JobTickers : InHand(l, x)' => job'[x].next <= tickTime'[l]
              /\ job'[x].status = "new" => ~Queued(x) /\ handled'[x] = -1
              /\ job'[x].status \in {"pending", "running"} => job'[x].next > handled'[x] \/ Restless(x)
  <2>1. CASE x = j
    BY <1>10, <1>11, <1>12, <2>1 DEF a
  <2>2. CASE x # j
    <3>1. \A l \in JobTickers : InHand(l, x)' <=> InHand(l, x)
      BY <1>9, <2>2
    <3> QED
      BY <1>12, <1>14, <2>2, <3>1 DEF JobInv
  <2> QED
    BY <2>1, <2>2
<1>16. jobIndex' = {x \in TimedJobs : Queued(x)'} /\ \A x \in TimedJobs : Queued(x)' <=> Queued(x)
  BY <1>1 DEF JobInv, Queued
<1> QED
  BY <1>1, <1>13, <1>15, <1>16 DEF JobInv

LEMMA JobStepInv == JobInv /\ [JobNext]_jobVars => JobInv'
<1> SUFFICES ASSUME JobInv, [JobNext]_jobVars PROVE JobInv'
  OBVIOUS
<1>1. CASE JobClockTicks \/ UNCHANGED jobVars
  <2>1. jobClock' \in Nat /\ UNCHANGED <<deque, jobIndex, job, batch, tickTime, handled>>
    BY <1>1 DEF JobClockTicks, jobVars, JobInv, JobShape
  <2> QED
    BY <2>1 DEF JobInv, JobShape, InHand, Queued
<1>2. ASSUME NEW j \in TimedJobs, CancelJob(j) PROVE JobInv'
  BY <1>2, CancelJobInv
<1>3. ASSUME NEW j \in TimedJobs, DeleteJob(j) PROVE JobInv'
  BY <1>3, DeleteJobInv
<1>4. ASSUME NEW j \in TimedJobs, NEW t \in jobClock..(jobClock + 1), ScheduleJob(j, t) PROVE JobInv'
  BY <1>4, ScheduleJobInv
<1>5. ASSUME NEW k \in JobTickers, TickMarks(k) PROVE JobInv'
  BY <1>5, TickMarksInv
<1>6. ASSUME NEW k \in JobTickers, NEW ok \in BOOLEAN, HandleNext(k, ok) PROVE JobInv'
  BY <1>6, HandleNextInv
<1> QED
  BY <1>1, <1>2, <1>3, <1>4, <1>5, <1>6 DEF JobNext

(* The index and the deque of the scheduler hold the same jobs; ticks that   *)
(* overlap never share a job, and none is handled twice for a due time       *)
(* (Scheduler.schedule, delete and tick in core/job_scheduler.py).           *)
THEOREM TicksShareNothing == JobSpec => []JobsInStep
<1> QED
  BY JobInitInv, JobStepInv, JobInvInStep, PTL DEF JobSpec

-----------------------------------------------------------------------------
(***************************************************************************)
(* The rate limiters. How many times of a sequence, or of the first n of it, *)
(* are in the window that ends at T.                                         *)
(***************************************************************************)
Falls(x, T) == x > T - Window /\ x <= T
Falling(s, n, T) == {i \in 1..n : Falls(s[i], T)}
CountTo(s, n, T) == Cardinality(Falling(s, n, T))
Count(s, T) == CountTo(s, Len(s), T)

LEMMA FallingFinite ==
    ASSUME NEW s, NEW n \in Nat, NEW T
    PROVE  IsFiniteSet(Falling(s, n, T)) /\ CountTo(s, n, T) \in Nat /\ CountTo(s, n, T) <= n
<1>1. Falling(s, n, T) \in SUBSET (1..n)
  BY DEF Falling
<1>2. IsFiniteSet(1..n) /\ Cardinality(1..n) = n
  BY FS_Interval
<1>3. IsFiniteSet(Falling(s, n, T)) /\ Cardinality(Falling(s, n, T)) <= Cardinality(1..n)
  BY <1>1, <1>2, FS_Subset
<1> QED
  BY <1>2, <1>3, FS_CardinalityType DEF CountTo

LEMMA CountOneMore ==
    ASSUME NEW s, NEW n \in Nat, NEW T
    PROVE  CountTo(s, n + 1, T) = CountTo(s, n, T) + (IF Falls(s[n + 1], T) THEN 1 ELSE 0)
<1>1. 1..(n + 1) = (1..n) \cup {n + 1} /\ n + 1 \notin 1..n
  OBVIOUS
<1>2. Falling(s, n + 1, T) = IF Falls(s[n + 1], T) THEN Falling(s, n, T) \cup {n + 1} ELSE Falling(s, n, T)
  BY <1>1 DEF Falling
<1>3. n + 1 \notin Falling(s, n, T)
  BY <1>1 DEF Falling
<1>4. IsFiniteSet(Falling(s, n, T)) /\ Cardinality(Falling(s, n, T)) \in Nat
  BY FallingFinite DEF CountTo
<1>5. Cardinality(Falling(s, n, T) \cup {n + 1}) = Cardinality(Falling(s, n, T)) + 1
  BY <1>3, <1>4, FS_AddElement
<1> QED
  BY <1>2, <1>4, <1>5 DEF CountTo

LEMMA CountAppended ==
    ASSUME NEW s \in Seq(Int), NEW x \in Int, NEW T
    PROVE  /\ Append(s, x) \in Seq(Int) /\ Len(Append(s, x)) = Len(s) + 1 /\ Len(s) \in Nat
           /\ Count(s, T) \in Nat
           /\ Count(Append(s, x), T) = Count(s, T) + (IF Falls(x, T) THEN 1 ELSE 0)
<1> DEFINE p == Append(s, x)
<1>1. /\ p \in Seq(Int) /\ Len(p) = Len(s) + 1 /\ Len(s) \in Nat
      /\ p[Len(s) + 1] = x /\ \A i \in 1..Len(s) : p[i] = s[i]
  BY AppendProperties, LenProperties
<1> HIDE DEF p
<1>2. Falling(p, Len(s), T) = Falling(s, Len(s), T)
  BY <1>1 DEF Falling
<1>3. CountTo(p, Len(s) + 1, T) = CountTo(p, Len(s), T) + (IF Falls(x, T) THEN 1 ELSE 0)
  BY <1>1, CountOneMore
<1>4. Count(s, T) \in Nat
  BY <1>1, FallingFinite DEF Count
<1> QED
  BY <1>1, <1>2, <1>3, <1>4 DEF p, Count, CountTo

(* What is kept of the first n times, as the equation it is meant by.        *)
KeepBy(g, n, t) ==
    IF n = 0 THEN <<>>
    ELSE IF Stays(stamps[n], g[n - 1], t - Window) THEN Append(g[n - 1], stamps[n])
    ELSE g[n - 1]

LEMMA KeepExists ==
    ASSUME Len(stamps) \in Nat, NEW t
    PROVE  \E g : g = [n \in 0..Len(stamps) |-> KeepBy(g, n, t)]
<1> DEFINE T == {m \in Nat : \E g : g = [n \in 0..m |-> KeepBy(g, n, t)]}
<1>1. 0 \in T
  <2> DEFINE g == [n \in 0..0 |-> <<>>]
  <2>1. g = [n \in 0..0 |-> KeepBy(g, n, t)]
    BY DEF KeepBy
  <2> HIDE DEF g
  <2> QED
    BY <2>1
<1>2. ASSUME NEW m \in 0..(Len(stamps) - 1), m \in T PROVE m + 1 \in T
  <2>1. PICK f : f = [n \in 0..m |-> KeepBy(f, n, t)]
    BY <1>2
  <2> DEFINE g == [n \in 0..(m + 1) |-> KeepBy(f, n, t)]
  <2>2. \A n \in 0..(m + 1) : g[n] = KeepBy(f, n, t)
    OBVIOUS
  <2>3. \A n \in 0..m : f[n] = KeepBy(f, n, t)
    BY <2>1
  <2>4. \A n \in 0..(m + 1) : KeepBy(g, n, t) = KeepBy(f, n, t)
    <3> TAKE n \in 0..(m + 1)
    <3>1. CASE n = 0
      BY <3>1 DEF KeepBy
    <3>2. CASE n # 0
      <4>1. n - 1 \in 0..m /\ n - 1 \in 0..(m + 1)
        BY <3>2
      <4>2. g[n - 1] = f[n - 1]
        BY <2>2, <2>3, <4>1
      <4> HIDE DEF g
      <4> QED
        BY <4>2 DEF KeepBy
    <3> QED
      BY <3>1, <3>2
  <2>5. g = [n \in 0..(m + 1) |-> KeepBy(g, n, t)]
    BY <2>4
  <2> HIDE DEF g
  <2> QED
    BY <2>5
<1> HIDE DEF T
<1>3. \A n \in 0..Len(stamps) : n \in T
  BY <1>1, <1>2, RangeReached
<1> QED
  BY <1>3 DEF T

LEMMA KeepUnfolds ==
    ASSUME Len(stamps) \in Nat, NEW t
    PROVE  \E g : /\ Kept(t) = g[Len(stamps)]
                  /\ \A n \in 0..Len(stamps) : g[n] = KeepBy(g, n, t)
<1> DEFINE F(g) == [n \in 0..Len(stamps) |->
                      IF n = 0 THEN <<>>
                      ELSE IF Stays(stamps[n], g[n - 1], t - Window) THEN Append(g[n - 1], stamps[n])
                      ELSE g[n - 1]]
           upTo == CHOOSE g : g = F(g)
<1>1. PICK h : h = F(h)
  BY KeepExists DEF KeepBy
<1>2. Kept(t) = upTo[Len(stamps)]
  BY DEF Kept
<1> HIDE DEF F
<1>3. upTo = F(upTo)
  BY <1>1
<1> HIDE DEF upTo
<1> QED
  BY <1>2, <1>3 DEF F, KeepBy

(* Who asks at t drops nothing that is in a window which ends at t or later. *)
LEMMA KeptCounts ==
    ASSUME stamps \in Seq(Int), NEW t \in Int
    PROVE  /\ Kept(t) \in Seq(Int) /\ Len(Kept(t)) <= Len(stamps)
           /\ \A T \in Int : t <= T => Count(stamps, T) <= Count(Kept(t), T)
<1>1. Len(stamps) \in Nat /\ \A k \in 1..Len(stamps) : stamps[k] \in Int
  BY LenProperties, ElementOfSeq
<1>2. PICK g : Kept(t) = g[Len(stamps)] /\ \A n \in 0..Len(stamps) : g[n] = KeepBy(g, n, t)
  BY <1>1, KeepUnfolds
<1> DEFINE Right(q, n) ==
             /\ q \in Seq(Int) /\ Len(q) <= n
             /\ \A T \in Int : t <= T => CountTo(stamps, n, T) <= Count(q, T)
           R == {n \in 0..Len(stamps) : Right(g[n], n)}
<1>3. 0 \in R
  <2>1. 0 \in 0..Len(stamps)
    BY <1>1
  <2>2. g[0] = <<>>
    BY <1>2, <2>1 DEF KeepBy
  <2> DEFINE nothing == g[0]
  <2>3. nothing \in Seq(Int) /\ Len(nothing) = 0
    BY <2>2, EmptySeq
  <2> HIDE DEF nothing
  <2>4. \A T : Falling(stamps, 0, T) = {} /\ Falling(nothing, 0, T) = {}
    BY DEF Falling
  <2>5. \A T : CountTo(stamps, 0, T) = 0 /\ Count(nothing, T) = 0
    BY <2>3, <2>4, FS_EmptySet DEF CountTo, Count
  <2>6. Right(nothing, 0)
    BY <2>3, <2>5
  <2> QED
    BY <2>1, <2>6 DEF nothing
<1>4. ASSUME NEW n \in 0..(Len(stamps) - 1), n \in R PROVE n + 1 \in R
  <2>1. /\ n + 1 \in 0..Len(stamps) /\ n + 1 # 0 /\ (n + 1) - 1 = n /\ n + 1 \in 1..Len(stamps)
        /\ n \in 0..Len(stamps) /\ n \in Nat
    BY <1>1
  <2> DEFINE q == g[n]
             x == stamps[n + 1]
  <2>2. g[n + 1] = IF Stays(x, q, t - Window) THEN Append(q, x) ELSE q
    BY <1>2, <2>1 DEF KeepBy
  <2>3. Right(q, n) /\ x \in Int
    BY <1>1, <1>4, <2>1
  <2>4. ASSUME NEW T \in Int
        PROVE  /\ CountTo(stamps, n + 1, T) = CountTo(stamps, n, T) + (IF Falls(x, T) THEN 1 ELSE 0)
               /\ CountTo(stamps, n, T) \in Nat
    BY <2>1, CountOneMore, FallingFinite
  <2> HIDE DEF q, x
  <2>5. ASSUME Stays(x, q, t - Window) PROVE Right(Append(q, x), n + 1)
    <3>1. Append(q, x) \in Seq(Int) /\ Len(Append(q, x)) <= n + 1
      <4>1. Append(q, x) \in Seq(Int) /\ Len(Append(q, x)) = Len(q) + 1 /\ Len(q) \in Nat
        BY <2>3, CountAppended
      <4> QED
        BY <2>1, <2>3, <4>1
    <3>2. ASSUME NEW T \in Int, t <= T PROVE CountTo(stamps, n + 1, T) <= Count(Append(q, x), T)
      <4>1. Count(Append(q, x), T) = Count(q, T) + (IF Falls(x, T) THEN 1 ELSE 0) /\ Count(q, T) \in Nat
        BY <2>3, CountAppended
      <4>2. CountTo(stamps, n, T) <= Count(q, T)
        BY <2>3, <3>2
      <4>3. /\ CountTo(stamps, n + 1, T) = CountTo(stamps, n, T) + (IF Falls(x, T) THEN 1 ELSE 0)
            /\ CountTo(stamps, n, T) \in Nat
        BY <2>4
      <4>4. CASE Falls(x, T)
        BY <4>1, <4>2, <4>3, <4>4
      <4>5. CASE ~Falls(x, T)
        BY <4>1, <4>2, <4>3, <4>5
      <4> QED
        BY <4>4, <4>5
    <3> QED
      BY <3>1, <3>2
  <2>6. ASSUME ~Stays(x, q, t - Window) PROVE Right(q, n + 1)
    <3>1. ~(x > t - Window)
      BY <2>3, <2>6, WindowAssumption DEF Stays
    <3>2. ASSUME NEW T \in Int, t <= T PROVE ~Falls(x, T)
      BY <2>3, <3>1, <3>2, WindowAssumption DEF Falls
    <3>3. Len(q) <= n + 1
      BY <2>1, <2>3, LenProperties
    <3> QED
      BY <2>3, <2>4, <3>2, <3>3
  <2> QED
    BY <2>1, <2>2, <2>5, <2>6
<1> HIDE DEF R
<1>5. \A n \in 0..Len(stamps) : n \in R
  BY <1>1, <1>3, <1>4, RangeReached
<1>6. Len(stamps) \in R
  BY <1>1, <1>5
<1> QED
  BY <1>2, <1>6 DEF R, Count

(* For every window: either all that was let pass in it is still kept; or    *)
(* the clock is past its end, and what was let pass in it and the threads    *)
(* that may still ask at a time in or before it are few enough together.     *)
Late(T) == {a \in Askers : asking[a] # -1 /\ asking[a] <= T}
Most == Limit + Cardinality(Askers) - 1
StillKept(T) == Count(granted, T) <= Count(stamps, T)
PastIt(T) == T < wallClock /\ Count(granted, T) + Cardinality(Late(T)) <= Most

WindowShape ==
    /\ wallClock \in Nat /\ stamps \in Seq(Int) /\ granted \in Seq(Int)
    /\ asking \in [Askers -> Int] /\ \A a \in Askers : asking[a] <= wallClock
    /\ Len(stamps) <= Limit

WindowInv == WindowShape /\ \A T \in 0..WindowHorizon : StillKept(T) \/ PastIt(T)

LEMMA LateFinite ==
    ASSUME NEW T
    PROVE  /\ IsFiniteSet(Late(T)) /\ Cardinality(Late(T)) \in Nat
           /\ Cardinality(Late(T)) <= Cardinality(Askers) /\ Cardinality(Askers) \in Nat
           /\ Cardinality(Askers) >= 1 /\ Most \in Int /\ Most = Limit + Cardinality(Askers) - 1
<1>1. Late(T) \in SUBSET Askers
  BY DEF Late
<1>2. IsFiniteSet(Late(T)) /\ Cardinality(Late(T)) <= Cardinality(Askers)
  BY <1>1, WindowAssumption, FS_Subset
<1>3. Cardinality(Late(T)) \in Nat /\ Cardinality(Askers) \in Nat /\ Cardinality(Askers) # 0
  BY <1>2, WindowAssumption, FS_CardinalityType, FS_EmptySet
<1> QED
  BY <1>2, <1>3, WindowAssumption DEF Most

LEMMA NothingCounts == ASSUME NEW T PROVE Count(<<>>, T) = 0
<1> DEFINE nothing == <<>>
<1>1. Len(nothing) = 0
  BY EmptySeq
<1> HIDE DEF nothing
<1>2. Falling(nothing, 0, T) = {}
  BY DEF Falling
<1>3. Count(nothing, T) = 0
  BY <1>1, <1>2, FS_EmptySet DEF Count, CountTo
<1> QED
  BY <1>3 DEF nothing

LEMMA WindowInitInv == WindowInit => WindowInv
<1> SUFFICES ASSUME WindowInit PROVE WindowInv
  OBVIOUS
<1>1. /\ wallClock = 0 /\ stamps = <<>> /\ granted = <<>>
      /\ asking \in [Askers -> Int] /\ \A a \in Askers : asking[a] = -1
  BY DEF WindowInit
<1>2. WindowShape
  BY <1>1, EmptySeq, WindowAssumption DEF WindowShape
<1>3. \A T : StillKept(T)
  BY <1>1, NothingCounts DEF StillKept
<1> QED
  BY <1>2, <1>3 DEF WindowInv

(* The clock and its readers: a window whose end is past gains nobody.       *)
LEMMA WindowClockInv == WindowInv /\ WindowClock => WindowInv'
<1> SUFFICES ASSUME WindowInv, WindowClock PROVE WindowInv'
  OBVIOUS
<1>1. wallClock' = wallClock + 1 /\ UNCHANGED <<stamps, asking, granted>>
  BY DEF WindowClock
<1>2. WindowShape'
  <2>1. \A a \in Askers : asking[a] \in Int
    BY DEF WindowInv, WindowShape
  <2> QED
    BY <1>1, <2>1 DEF WindowInv, WindowShape
<1>3. ASSUME NEW T \in 0..WindowHorizon PROVE (StillKept(T) => StillKept(T)') /\ (PastIt(T) => PastIt(T)')
  <2>1. T \in Int /\ wallClock \in Int
    BY WindowAssumption DEF WindowInv, WindowShape
  <2> QED
    BY <1>1, <2>1 DEF StillKept, PastIt, Late
<1> QED
  BY <1>2, <1>3 DEF WindowInv

LEMMA ReadClockInv == ASSUME WindowInv, NEW a \in Askers, ReadClock(a) PROVE WindowInv'
<1>1. asking' = [asking EXCEPT ![a] = wallClock] /\ UNCHANGED <<wallClock, stamps, granted>>
  BY DEF ReadClock
<1>2. WindowShape
  BY DEF WindowInv
<1>3. wallClock \in Int /\ asking \in [Askers -> Int] /\ \A b \in Askers : asking[b] \in Int /\ asking[b] <= wallClock
  BY <1>2 DEF WindowShape
<1>4. asking' \in [Askers -> Int] /\ asking'[a] = wallClock /\ \A b \in Askers : b # a => asking'[b] = asking[b]
  BY <1>1, <1>3
<1>5. WindowShape'
  BY <1>1, <1>2, <1>3, <1>4 DEF WindowShape
<1>6. ASSUME NEW T \in 0..WindowHorizon PROVE (StillKept(T) => StillKept(T)') /\ (PastIt(T) => PastIt(T)')
  <2>1. StillKept(T) => StillKept(T)'
    BY <1>1 DEF StillKept
  <2>2. ASSUME PastIt(T) PROVE PastIt(T)'
    <3>1. T < wallClock /\ T \in Int
      BY <2>2, WindowAssumption DEF PastIt
    <3>2. Late(T)' \in SUBSET Late(T)
      BY <1>3, <1>4, <3>1 DEF Late
    <3>3. Cardinality(Late(T)') <= Cardinality(Late(T)) /\ Cardinality(Late(T)) \in Nat
      BY <3>2, LateFinite, FS_Subset
    <3>4. IsFiniteSet(Late(T)')
      BY <3>2, LateFinite, FS_Subset
    <3>5. Cardinality(Late(T)') \in Nat
      BY <3>4, FS_CardinalityType
    <3>6. Count(granted, T) \in Nat
      BY <1>2, LenProperties, FallingFinite DEF Count, WindowShape
    <3>7. Most \in Int /\ Most' = Most
      BY LateFinite DEF Most
    <3> QED
      BY <1>1, <2>2, <3>1, <3>3, <3>5, <3>6, <3>7 DEF PastIt
  <2> QED
    BY <2>1, <2>2
<1> QED
  BY <1>5, <1>6 DEF WindowInv

LEMMA ResetInv == WindowInv /\ Reset => WindowInv'
<1> SUFFICES ASSUME WindowInv, Reset PROVE WindowInv'
  OBVIOUS
<1>1. stamps' = <<>> /\ granted' = <<>> /\ UNCHANGED <<wallClock, asking>>
  BY DEF Reset
<1>2. WindowShape'
  BY <1>1, EmptySeq, WindowAssumption DEF WindowInv, WindowShape
<1>3. \A T : StillKept(T)'
  BY <1>1, NothingCounts DEF StillKept
<1> QED
  BY <1>2, <1>3 DEF WindowInv

(* Who asks at a time after the window may drop what is in it, and is itself *)
(* past it; whoever asks at a time in the window does so once.               *)
LEMMA AskInv ==
    ASSUME WindowInv, NEW a \in Askers, (\E guarded \in BOOLEAN : Ask(a, guarded)) \/ Stats(a)
    PROVE  WindowInv'
<1> DEFINE t == asking[a]
<1>1. WindowShape /\ asking[a] # -1 /\ UNCHANGED wallClock /\ asking' = [asking EXCEPT ![a] = -1]
  BY DEF WindowInv, Ask, Stats
<1>2. /\ wallClock \in Int /\ asking \in [Askers -> Int] /\ t \in Int /\ t <= wallClock
      /\ \A b \in Askers : asking[b] \in Int /\ asking[b] <= wallClock
  BY <1>1 DEF WindowShape
<1>3. PICK time \in Int : time = t
  BY <1>2
<1> HIDE DEF t
<1>4. PICK passes \in BOOLEAN :
        /\ passes => /\ Allows(time) /\ stamps' = Append(Kept(time), time)
                     /\ granted' = granted \/ granted' = Append(granted, time)
        /\ ~passes => stamps' = Kept(time) /\ granted' = granted
        /\ granted' = granted \/ granted' = Append(granted, time)
  <2>1. CASE Stats(a)
    BY <1>3, <2>1 DEF Stats, t
  <2>2. ASSUME NEW guarded \in BOOLEAN, Ask(a, guarded), Allows(time)
        PROVE  /\ stamps' = Append(Kept(time), time)
               /\ granted' = granted \/ granted' = Append(granted, time)
    BY <1>3, <2>2 DEF Ask, t
  <2>3. ASSUME NEW guarded \in BOOLEAN, Ask(a, guarded), ~Allows(time)
        PROVE  stamps' = Kept(time) /\ granted' = granted
    BY <1>3, <2>3 DEF Ask, t
  <2> QED
    BY <2>1, <2>2, <2>3
<1>5. /\ Kept(time) \in Seq(Int) /\ Len(Kept(time)) <= Len(stamps) /\ Len(Kept(time)) \in Nat
      /\ \A T \in Int : time <= T => Count(stamps, T) <= Count(Kept(time), T)
  BY <1>1, KeptCounts, LenProperties DEF WindowShape
<1>6. granted \in Seq(Int) /\ stamps \in Seq(Int) /\ Len(stamps) \in Nat /\ Len(stamps) <= Limit
  BY <1>1, LenProperties DEF WindowShape
<1>7. asking' \in [Askers -> Int] /\ asking'[a] = -1 /\ \A b \in Askers : b # a => asking'[b] = asking[b]
  BY <1>1, <1>2
<1>8. stamps' \in Seq(Int) /\ granted' \in Seq(Int) /\ Len(stamps') <= Limit
  <2>1. CASE passes
    <3>1. Len(Kept(time)) + 1 <= Limit /\ time \in Int
      BY <1>4, <1>5, <2>1, WindowAssumption DEF Allows
    <3>2. Append(Kept(time), time) \in Seq(Int) /\ Len(Append(Kept(time), time)) <= Limit
      <4>1. Append(Kept(time), time) \in Seq(Int) /\ Len(Append(Kept(time), time)) = Len(Kept(time)) + 1
        BY <1>5, CountAppended
      <4> QED
        BY <3>1, <4>1
    <3>3. Append(granted, time) \in Seq(Int)
      BY <1>6, CountAppended
    <3>4. stamps' = Append(Kept(time), time)
      BY <1>4, <2>1
    <3>5. granted' \in Seq(Int)
      BY <1>4, <1>6, <2>1, <3>3
    <3> QED
      BY <3>2, <3>4, <3>5
  <2>2. CASE ~passes
    <3>1. stamps' = Kept(time) /\ granted' = granted
      BY <1>4, <2>2
    <3> QED
      BY <1>5, <1>6, <3>1, WindowAssumption
  <2> QED
    BY <2>1, <2>2
<1>9. WindowShape'
  BY <1>1, <1>2, <1>7, <1>8 DEF WindowShape
(* A time in the window is counted where it is kept.                         *)
<1>10. ASSUME NEW T \in Int, time <= T, StillKept(T) PROVE StillKept(T)'
  <2>1. /\ Count(granted, T) <= Count(stamps, T) /\ Count(stamps, T) <= Count(Kept(time), T)
        /\ Count(granted, T) \in Nat /\ Count(stamps, T) \in Nat /\ Count(Kept(time), T) \in Nat
    BY <1>5, <1>6, <1>10, CountAppended DEF StillKept
  <2>2. CASE passes
    <3>1. /\ Count(Append(Kept(time), time), T) = Count(Kept(time), T) + (IF Falls(time, T) THEN 1 ELSE 0)
          /\ Count(Append(granted, time), T) = Count(granted, T) + (IF Falls(time, T) THEN 1 ELSE 0)
      BY <1>5, <1>6, CountAppended
    <3>2. /\ Count(granted, T) <= Count(Append(Kept(time), time), T)
          /\ Count(Append(granted, time), T) <= Count(Append(Kept(time), time), T)
      BY <2>1, <3>1
    <3>3. Count(granted', T) <= Count(stamps', T)
      BY <1>4, <2>2, <3>2
    <3> QED
      BY <3>3 DEF StillKept, Count, CountTo, Falling, Falls
  <2>3. CASE ~passes
    <3>1. Count(granted', T) <= Count(stamps', T)
      BY <1>4, <2>1, <2>3
    <3> QED
      BY <3>1 DEF StillKept, Count, CountTo, Falling, Falls
  <2> QED
    BY <2>2, <2>3
(* A time after the window is not counted, and its thread is late no more.   *)
<1>11. ASSUME NEW T \in Int, T < time, StillKept(T) PROVE PastIt(T)'
  <2>1. T < wallClock'
    BY <1>1, <1>2, <1>3, <1>11 DEF t
  <2>2. Count(granted', T) = Count(granted, T)
    <3>1. ~Falls(time, T)
      BY <1>11 DEF Falls
    <3>2. Count(Append(granted, time), T) = Count(granted, T)
      <4>1. Count(Append(granted, time), T) = Count(granted, T) + 0 /\ Count(granted, T) \in Nat
        BY <1>6, <3>1, CountAppended
      <4> QED
        BY <4>1
    <3> QED
      BY <1>4, <3>2
  <2>3. Count(granted, T) <= Limit /\ Count(granted, T) \in Nat
    <3>1. Count(stamps, T) <= Len(stamps) /\ Count(stamps, T) \in Nat /\ Count(granted, T) \in Nat
      BY <1>6, FallingFinite, CountAppended DEF Count
    <3> QED
      BY <1>6, <1>11, <3>1, WindowAssumption DEF StillKept
  <2>4. Late(T)' \in SUBSET (Askers \ {a})
    BY <1>7 DEF Late
  <2>5. Cardinality(Late(T)') <= Cardinality(Askers) - 1 /\ Cardinality(Late(T)') \in Nat
    <3>1. IsFiniteSet(Askers \ {a}) /\ Cardinality(Askers \ {a}) = Cardinality(Askers) - 1
      BY WindowAssumption, FS_RemoveElement
    <3>2. IsFiniteSet(Late(T)') /\ Cardinality(Late(T)') <= Cardinality(Askers \ {a})
      BY <2>4, <3>1, FS_Subset
    <3> QED
      BY <3>1, <3>2, FS_CardinalityType
  <2>6. Count(granted', T) + Cardinality(Late(T)') <= Most
    BY <2>2, <2>3, <2>5, LateFinite, WindowAssumption
  <2> QED
    BY <2>1, <2>6 DEF PastIt, Count, CountTo, Falling, Falls, Most
<1>12. ASSUME NEW T \in Int, PastIt(T) PROVE PastIt(T)'
  <2>1. T < wallClock' /\ Most \in Int
    BY <1>1, <1>12, LateFinite DEF PastIt
  <2>2. Count(granted, T) + Cardinality(Late(T)) <= Most /\ Count(granted, T) \in Nat
        /\ IsFiniteSet(Late(T)) /\ Cardinality(Late(T)) \in Nat
    BY <1>6, <1>12, CountAppended, LateFinite DEF PastIt
  <2>3. Late(T)' \in SUBSET Late(T)
    BY <1>7 DEF Late
  <2>4. IsFiniteSet(Late(T)') /\ Cardinality(Late(T)') <= Cardinality(Late(T)) /\ Cardinality(Late(T)') \in Nat
    BY <2>2, <2>3, FS_Subset, FS_CardinalityType
  <2>5. CASE time <= T
    <3>1. a \in Late(T)
      BY <1>1, <1>3, <2>5 DEF Late, t
    <3>2. Late(T)' \in SUBSET (Late(T) \ {a})
      BY <1>7 DEF Late
    <3>3. IsFiniteSet(Late(T) \ {a}) /\ Cardinality(Late(T) \ {a}) = Cardinality(Late(T)) - 1
      BY <2>2, <3>1, FS_RemoveElement
    <3>4. Cardinality(Late(T)') <= Cardinality(Late(T)) - 1
      BY <3>2, <3>3, FS_Subset
    <3>5. Count(granted', T) <= Count(granted, T) + 1 /\ Count(granted', T) \in Nat
      <4>1. Count(Append(granted, time), T) = Count(granted, T) + (IF Falls(time, T) THEN 1 ELSE 0)
        BY <1>6, CountAppended
      <4>2. Count(Append(granted, time), T) <= Count(granted, T) + 1 /\ Count(Append(granted, time), T) \in Nat
        BY <2>2, <4>1
      <4>3. CASE granted' = granted
        BY <2>2, <4>3
      <4>4. CASE granted' = Append(granted, time)
        BY <4>2, <4>4
      <4> QED
        BY <1>4, <4>3, <4>4
    <3>6. Count(granted', T) + Cardinality(Late(T)') <= Most
      BY <2>1, <2>2, <2>4, <3>4, <3>5
    <3> QED
      BY <2>1, <3>6 DEF PastIt, Count, CountTo, Falling, Falls, Most
  <2>6. CASE T < time
    <3>1. ~Falls(time, T)
      BY <2>6 DEF Falls
    <3>2. Count(Append(granted, time), T) = Count(granted, T) + 0
      BY <1>6, <3>1, CountAppended
    <3>3. Count(granted', T) = Count(granted, T)
      <4>1. CASE granted' = granted
        BY <4>1
      <4>2. CASE granted' = Append(granted, time)
        BY <2>2, <3>2, <4>2
      <4> QED
        BY <1>4, <4>1, <4>2
    <3>4. Count(granted', T) + Cardinality(Late(T)') <= Most
      BY <2>1, <2>2, <2>4, <3>3
    <3> QED
      BY <2>1, <3>4 DEF PastIt, Count, CountTo, Falling, Falls, Most
  <2> QED
    BY <2>5, <2>6
<1> SUFFICES ASSUME NEW T \in 0..WindowHorizon PROVE StillKept(T)' \/ PastIt(T)'
  BY <1>9 DEF WindowInv
<1>13. T \in Int /\ (StillKept(T) \/ PastIt(T)) /\ (time <= T \/ T < time)
  BY WindowAssumption DEF WindowInv
<1> QED
  BY <1>10, <1>11, <1>12, <1>13

LEMMA WindowStepInv == WindowInv /\ [WindowNext]_windowVars => WindowInv'
<1> SUFFICES ASSUME WindowInv, [WindowNext]_windowVars PROVE WindowInv'
  OBVIOUS
<1>1. CASE UNCHANGED windowVars
  BY <1>1 DEF windowVars, WindowInv, WindowShape, StillKept, PastIt, Late, Count, CountTo, Falling, Falls, Most
<1> QED
  BY <1>1, WindowClockInv, ReadClockInv, ResetInv, AskInv DEF WindowNext

LEMMA WindowInvBounds == WindowInv => OverrunIsBounded
<1> SUFFICES ASSUME WindowInv, NEW T \in 0..WindowHorizon PROVE InWindow(T) <= Most
  BY DEF OverrunIsBounded, Most
<1>1. InWindow(T) = Count(granted, T)
  BY DEF InWindow, Count, CountTo, Falling, Falls
<1>2. stamps \in Seq(Int) /\ granted \in Seq(Int) /\ Len(stamps) \in Nat /\ Len(stamps) <= Limit
  BY LenProperties DEF WindowInv, WindowShape
<1>3. Count(stamps, T) <= Len(stamps) /\ Count(stamps, T) \in Nat /\ Count(granted, T) \in Nat
  BY <1>2, FallingFinite, CountAppended DEF Count
<1>4. CASE StillKept(T)
  <2>1. Count(granted, T) <= Limit
    BY <1>2, <1>3, <1>4, WindowAssumption DEF StillKept
  <2>2. Limit <= Most /\ Most \in Int /\ Limit \in Nat
    BY LateFinite, WindowAssumption
  <2> QED
    BY <1>1, <1>3, <2>1, <2>2
<1>5. CASE PastIt(T)
  BY <1>1, <1>3, <1>5, LateFinite DEF PastIt
<1> QED
  BY <1>4, <1>5 DEF WindowInv

(* No window of a rate limiter holds more than the limit and one for each    *)
(* other thread (policy_engine.py, rate_limiter.py, throttle_map.py), for    *)
(* any number of threads, limits and windows.                                *)
THEOREM OverrunStaysBounded == WindowSpec => []OverrunIsBounded
<1> QED
  BY WindowInitInv, WindowStepInv, WindowInvBounds, PTL DEF WindowSpec
=============================================================================
