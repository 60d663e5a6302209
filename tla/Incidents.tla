------------------------------ MODULE Incidents ------------------------------
(* WARDEN GRID: the incident store (warden_grid/incidents.py), the monitor's *)
(* threads that raise and resolve by what they have measured (monitor.py),   *)
(* and the announcement of a new incident, made after the store's lock is    *)
(* given back.                                                               *)
EXTENDS Integers

CONSTANTS
    Services,         \* signatures of service failures: these resolve by themselves
    Gauges,           \* signatures of thresholds: these do not
    Monitors,         \* threads that classify a snapshot
    MaxIncidents      \* bound: incidents ever made

ASSUME IncidentAssumption == MaxIncidents \in Nat

Severities == 1..2    \* WARN, CRIT

VARIABLES
    store,            \* _by_sig: signature -> [id, open, severity], id 0 when there is none
    made,             \* ids given so far
    monitor,          \* thread -> the incident it is about to announce, 0 when none
    announced,        \* history: id -> times announced
    worst             \* history: signature -> the worst severity raised while open

incidentVars == <<store, made, monitor, announced, worst>>

Signatures == Services \cup Gauges
NoIncident == [id |-> 0, open |-> FALSE, severity |-> 0]

IncidentInit ==
    /\ store = [s \in Signatures |-> NoIncident]
    /\ made = 0
    /\ monitor = [m \in Monitors |-> 0]
    /\ announced = [i \in 1..MaxIncidents |-> 0]
    /\ worst = [s \in Signatures |-> 0]

Larger(a, b) == IF a > b THEN a ELSE b

MutRaise(m, s, sev) ==
    /\ monitor[m] = 0
    /\ \/ /\ store[s].id # 0
          /\ store' = [store EXCEPT ![s].severity = Larger(@, sev), ![s].open = TRUE]
          /\ UNCHANGED <<made, monitor>>
       \/ /\ store[s].id = 0 /\ made < MaxIncidents
          /\ made' = made + 1
          /\ store' = [store EXCEPT ![s] = [id |-> made + 1, open |-> TRUE, severity |-> sev]]
          /\ monitor' = [monitor EXCEPT ![m] = made + 1]
    /\ worst' = [worst EXCEPT ![s] = IF store[s].open THEN Larger(@, sev) ELSE sev]
    /\ UNCHANGED announced

(* raise_: coalesce with the open incident of this signature, escalating its *)
(* severity, or make a new one. A stopped service is critical.               *)
Raise(m, s, sev) ==
    /\ monitor[m] = 0 /\ (s \in Services => sev = 2)
    /\ \/ /\ store[s].open
          /\ store' = [store EXCEPT ![s].severity = Larger(@, sev)]
          /\ UNCHANGED <<made, monitor>>
       \/ /\ ~store[s].open /\ made < MaxIncidents
          /\ made' = made + 1
          /\ store' = [store EXCEPT ![s] = [id |-> made + 1, open |-> TRUE, severity |-> sev]]
          /\ monitor' = [monitor EXCEPT ![m] = made + 1]
    /\ worst' = [worst EXCEPT ![s] = IF store[s].open THEN Larger(@, sev) ELSE sev]
    /\ UNCHANGED announced

(* _on_new_incident: audit record and bus event. *)
Announce(m) ==
    /\ monitor[m] # 0
    /\ announced' = [announced EXCEPT ![monitor[m]] = @ + 1]
    /\ monitor' = [monitor EXCEPT ![m] = 0]
    /\ UNCHANGED <<store, made, worst>>

(* The service runs again. *)
Resolve(m, s) ==
    /\ monitor[m] = 0 /\ s \in Services
    /\ store' = [store EXCEPT ![s].open = FALSE]
    /\ UNCHANGED <<made, monitor, announced, worst>>

IncidentNext ==
    \E m \in Monitors :
        \/ Announce(m)
        \/ \E s \in Signatures : \/ Resolve(m, s)
                                 \/ \E sev \in Severities : Raise(m, s, sev)

IncidentSpec == IncidentInit /\ [][IncidentNext]_incidentVars

-----------------------------------------------------------------------------
(* A symptom that comes back after its incident was resolved is a new        *)
(* incident: while nobody is about to announce, the open incidents and those *)
(* before them have been announced once each, no signature shares one, and   *)
(* an open one shows the worst that was reported since it was opened.        *)
EveryIncidentAnnounced ==
    /\ \A i \in 1..made :
         announced[i] = IF \E m \in Monitors : monitor[m] = i THEN 0 ELSE 1
    /\ \A s \in Signatures : store[s].open => store[s].severity = worst[s]
    /\ \A s, t \in Signatures : s # t /\ store[s].id # 0 => store[s].id # store[t].id
=============================================================================
