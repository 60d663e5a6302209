-------------------------------- MODULE Leases --------------------------------
(* core/distributed_lock.py: one named lock with a lease. Each call reads the*)
(* clock inside the manager's own lock; what a holder believes is the lock   *)
(* object it was given, or nothing once its release was accepted.            *)
EXTENDS Integers

CONSTANTS
    Holders,          \* holder ids
    Ttls,             \* what a holder may ask for, in ticks
    LeaseHorizon      \* bound: the clock

ASSUME LeaseAssumption == "nobody" \notin Holders /\ Ttls \subseteq Int /\ LeaseHorizon \in Nat

VARIABLES
    leaseClock,       \* time.time(), taken to be monotone
    lease,            \* _locks[name]: who has it and until when; "nobody": no entry
    believes          \* holder -> the expiry it knows of, or Never

leaseVars == <<leaseClock, lease, believes>>

Never == -100         \* before any expiry
Free == [holder |-> "nobody", expires |-> Never]

LeaseTypeOK ==
    /\ leaseClock \in 0..LeaseHorizon
    /\ lease \in [holder : Holders \cup {"nobody"}, expires : Int]
    /\ believes \in [Holders -> Int]

LeaseInit ==
    /\ leaseClock = 0 /\ lease = Free
    /\ believes = [h \in Holders |-> Never]

LeaseTick ==
    /\ leaseClock < LeaseHorizon /\ leaseClock' = leaseClock + 1
    /\ UNCHANGED <<lease, believes>>

Expired == leaseClock > lease.expires

(* A lock is renewed for its holder, and given to another only when it has   *)
(* run out.                                                                  *)
Acquire(h, ttl) ==
    /\ lease.holder \in {"nobody", h} \/ Expired
    /\ lease' = [holder |-> h, expires |-> leaseClock + ttl]
    /\ believes' = [believes EXCEPT ![h] = leaseClock + ttl]
    /\ UNCHANGED leaseClock

MutRelease(h) ==
    /\ lease.holder # "nobody" /\ ~Expired
    /\ lease' = Free
    /\ believes' = [believes EXCEPT ![h] = Never]
    /\ UNCHANGED leaseClock

Release(h) ==
    /\ lease.holder = h /\ ~Expired
    /\ lease' = Free
    /\ believes' = [believes EXCEPT ![h] = Never]
    /\ UNCHANGED leaseClock

(* The lock object is changed in place: its holder sees the new expiry. *)
Refresh(h, ttl) ==
    /\ lease.holder = h /\ ~Expired
    /\ lease' = [lease EXCEPT !.expires = leaseClock + ttl]
    /\ believes' = [believes EXCEPT ![h] = leaseClock + ttl]
    /\ UNCHANGED leaseClock

ExpireStale ==
    /\ lease.holder # "nobody" /\ Expired
    /\ lease' = Free
    /\ UNCHANGED <<leaseClock, believes>>

LeaseNext ==
    \/ LeaseTick \/ ExpireStale
    \/ \E h \in Holders : \/ Release(h)
                          \/ \E ttl \in Ttls : Acquire(h, ttl) \/ Refresh(h, ttl)

LeaseSpec == LeaseInit /\ [][LeaseNext]_leaseVars

-----------------------------------------------------------------------------
Holds(h) == believes[h] >= leaseClock

(* At most one holder has a lease that it believes to be running, through    *)
(* expiries, late releases and late refreshes of those who lost theirs.      *)
LeaseExclusive == \A g, h \in Holders : Holds(g) /\ Holds(h) => g = h
=============================================================================
